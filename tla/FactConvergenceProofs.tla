----------------------- MODULE FactConvergenceProofs -----------------------
(***************************************************************************)
(* Proofs that FactPipeline converges: for any orders, products, values,   *)
(* product versions, retries and failures, once every change is            *)
(* acknowledged the newest row of each line is the source's, unless one    *)
(* window mixed its changes up.                                            *)
(***************************************************************************)
EXTENDS FactPipelineProofs

USE DEF Tables, Ops

-----------------------------------------------------------------------------
(* The source and its log.                                                 *)

\* What a commit adds to the log, and to the changes of each order and line.
LEMMA LogGrows ==
    ASSUME TypeOK, NEW c \in Changes, log' = Append(log, c)
    PROVE  /\ Len(log) \in Nat
           /\ DOMAIN log' = DOMAIN log \cup {Len(log) + 1}
           /\ \A i \in DOMAIN log : i \in Nat /\ i <= Len(log) /\ log'[i] = log[i]
           /\ log'[Len(log) + 1] = c
           /\ \A o : OrderChanges(o)' =
                    IF c.table = "orders" /\ c.order = o
                    THEN OrderChanges(o) \cup {Len(log) + 1} ELSE OrderChanges(o)
           /\ \A l : LineChanges(l)' =
                    IF c.table = "details" /\ <<c.order, c.product>> = l
                    THEN LineChanges(l) \cup {Len(log) + 1} ELSE LineChanges(l)
<1>1. log \in Seq(Changes) /\ Len(log) \in Nat /\ DOMAIN log = 1..Len(log)
  BY PositionTypes DEF TypeOK
<1>2. /\ DOMAIN log' = 1..Len(log) + 1
      /\ \A i \in 1..Len(log) : log'[i] = log[i]
      /\ log'[Len(log) + 1] = c
  BY <1>1
<1>3. 1..Len(log) + 1 = 1..Len(log) \cup {Len(log) + 1}
  BY <1>1
<1>4. \A i \in DOMAIN log : i \in Nat /\ i <= Len(log) /\ log'[i] = log[i]
  BY <1>1, <1>2
<1>5. DOMAIN log' = DOMAIN log \cup {Len(log) + 1}
  BY <1>1, <1>2, <1>3
<1>6. ASSUME NEW o
      PROVE  OrderChanges(o)' = IF c.table = "orders" /\ c.order = o
                    THEN OrderChanges(o) \cup {Len(log) + 1} ELSE OrderChanges(o)
  BY <1>2, <1>4, <1>5 DEF OrderChanges
<1>7. ASSUME NEW l
      PROVE  LineChanges(l)' = IF c.table = "details" /\ <<c.order, c.product>> = l
                    THEN LineChanges(l) \cup {Len(log) + 1} ELSE LineChanges(l)
  BY <1>2, <1>4, <1>5 DEF LineChanges, LineOf
<1> QED BY <1>1, <1>2, <1>4, <1>5, <1>6, <1>7

\* The six things a clerk can do.
CommitShape(c) ==
    /\ log' = Append(log, c)
    /\ \/ /\ c.table = "orders" /\ c.product = None /\ lines' = lines
          /\ \/ /\ c.op = "insert" /\ orders[c.order] = None
                /\ \A i \in DOMAIN log : log[i].order # c.order
                /\ orders' = [orders EXCEPT ![c.order] = c.value]
             \/ /\ c.op = "update" /\ orders[c.order] # None
                /\ orders' = [orders EXCEPT ![c.order] = c.value]
             \/ /\ c.op = "delete" /\ orders[c.order] # None
                /\ \A p \in Products : lines[<<c.order, p>>] = None
                /\ orders' = [orders EXCEPT ![c.order] = None]
       \/ /\ c.table = "details" /\ orders' = orders
          /\ c.product \in Products
          /\ LET l == <<c.order, c.product>>
             IN  \/ /\ c.op = "insert" /\ orders[c.order] # None /\ lines[l] = None
                    /\ lines' = [lines EXCEPT ![l] = c.value]
                 \/ /\ c.op = "update" /\ lines[l] # None
                    /\ lines' = [lines EXCEPT ![l] = c.value]
                 \/ /\ c.op = "delete" /\ lines[l] # None
                    /\ lines' = [lines EXCEPT ![l] = None]

LEMMA SourceShape ==
    ASSUME TypeOK, Source
    PROVE  \E c \in Changes : CommitShape(c)
<1> DEFINE C(t, op, o, p, v) ==
              [table |-> t, op |-> op, order |-> o, product |-> p, value |-> v]
<1>1. ASSUME NEW o \in Orders, NEW v \in Values, InsertOrder(o, v)
      PROVE  \E c \in Changes : CommitShape(c)
  <2>1. CommitShape(C("orders", "insert", o, None, v))
    BY <1>1 DEF InsertOrder, Commit, CommitShape
  <2>2. C("orders", "insert", o, None, v) \in Changes
    BY DEF Changes
  <2> QED BY <2>1, <2>2
<1>2. ASSUME NEW o \in Orders, NEW v \in Values, UpdateOrder(o, v)
      PROVE  \E c \in Changes : CommitShape(c)
  <2>1. CommitShape(C("orders", "update", o, None, v))
    BY <1>2 DEF UpdateOrder, Commit, CommitShape
  <2>2. C("orders", "update", o, None, v) \in Changes
    BY DEF Changes
  <2> QED BY <2>1, <2>2
<1>3. ASSUME NEW o \in Orders, DeleteOrder(o)
      PROVE  \E c \in Changes : CommitShape(c)
  <2>1. orders[o] \in Values
    BY <1>3 DEF DeleteOrder, TypeOK
  <2>2. CommitShape(C("orders", "delete", o, None, orders[o]))
    BY <1>3 DEF DeleteOrder, Commit, CommitShape
  <2>3. C("orders", "delete", o, None, orders[o]) \in Changes
    BY <2>1 DEF Changes
  <2> QED BY <2>2, <2>3
<1>4. ASSUME NEW l \in Lines, NEW v \in Values, InsertLine(l, v) \/ UpdateLine(l, v)
      PROVE  \E c \in Changes : CommitShape(c)
  <2>1. l[1] \in Orders /\ l[2] \in Products /\ l = <<l[1], l[2]>>
    BY DEF Lines
  <2>2. CASE InsertLine(l, v)
    <3>1. CommitShape(C("details", "insert", l[1], l[2], v))
      BY <2>1, <2>2 DEF InsertLine, Commit, CommitShape
    <3>2. C("details", "insert", l[1], l[2], v) \in Changes
      BY <2>1 DEF Changes
    <3> QED BY <3>1, <3>2
  <2>3. CASE UpdateLine(l, v)
    <3>1. CommitShape(C("details", "update", l[1], l[2], v))
      BY <2>1, <2>3 DEF UpdateLine, Commit, CommitShape
    <3>2. C("details", "update", l[1], l[2], v) \in Changes
      BY <2>1 DEF Changes
    <3> QED BY <3>1, <3>2
  <2> QED BY <1>4, <2>2, <2>3
<1>5. ASSUME NEW l \in Lines, DeleteLine(l)
      PROVE  \E c \in Changes : CommitShape(c)
  <2>1. l[1] \in Orders /\ l[2] \in Products /\ l = <<l[1], l[2]>>
    BY DEF Lines
  <2>2. lines[l] \in Values
    BY <1>5 DEF DeleteLine, TypeOK
  <2>3. CommitShape(C("details", "delete", l[1], l[2], lines[l]))
    BY <1>5, <2>1 DEF DeleteLine, Commit, CommitShape
  <2>4. C("details", "delete", l[1], l[2], lines[l]) \in Changes
    BY <2>1, <2>2 DEF Changes
  <2> QED BY <2>3, <2>4
<1> QED BY <1>1, <1>2, <1>3, <1>4, <1>5 DEF Source

LEMMA SourceInit == Init => SourceInv
<1> SUFFICES ASSUME Init PROVE SourceInv
  OBVIOUS
<1>1. DOMAIN log = {} /\ SeedValue # None
  BY SeedAssumption, NoneAssumption DEF Init
<1>2. \A o : OrderChanges(o) = {} /\ \A l : LineChanges(l) = {}
  BY <1>1 DEF OrderChanges, LineChanges
<1>3. \A l \in Lines : l = <<l[1], l[2]>> /\ l[1] \in Orders /\ l[2] \in Products
  BY DEF Lines
<1>4. LastChangeHolds
  BY <1>1, <1>2, <1>3 DEF Init, LastChangeHolds
<1>5. InsertsFollowDeletes
  BY <1>2 DEF InsertsFollowDeletes
<1>6. ASSUME NEW o \in Orders, orders[o] = None, NEW k \in FactKeys, k[1][1] = o
      PROVE  facts[k] = None
  <2>1. k[1] \in Lines
    BY DEF FactKeys
  <2>2. k[1] \notin Seeded
    BY <1>1, <1>3, <1>6, <2>1 DEF Init
  <2> QED BY <2>2 DEF Init
<1>7. AbsentOrders
  BY <1>1, <1>6 DEF AbsentOrders
<1> QED BY <1>1, <1>4, <1>5, <1>7 DEF SourceInv, OrdersNameNoProduct

\* The new change is the last of what it changes.
LEMMA LastGrows ==
    ASSUME TypeOK, NEW S \in SUBSET (DOMAIN log)
    PROVE  IsLast(Len(log) + 1, S \cup {Len(log) + 1})
<1>1. Len(log) \in Nat /\ \A i \in DOMAIN log : i \in Nat /\ i <= Len(log)
  BY PositionTypes
<1> QED BY <1>1 DEF IsLast

LEMMA LastChangeCommit ==
    ASSUME TypeOK, LastChangeHolds, NEW c \in Changes, CommitShape(c)
    PROVE  LastChangeHolds'
<1> DEFINE n == Len(log) + 1
           m == <<c.order, c.product>>
<1>1. /\ log'[n] = c
      /\ \A i \in DOMAIN log : log'[i] = log[i]
      /\ \A o : OrderChanges(o)' =
              IF c.table = "orders" /\ c.order = o
              THEN OrderChanges(o) \cup {n} ELSE OrderChanges(o)
      /\ \A l : LineChanges(l)' =
              IF c.table = "details" /\ m = l
              THEN LineChanges(l) \cup {n} ELSE LineChanges(l)
  BY LogGrows DEF CommitShape
<1>2. /\ c.order \in Orders /\ c.table \in Tables /\ c.op \in Ops
      /\ c.value \in Values /\ c.value # None
  BY NoneAssumption DEF Changes
<1>3. \A o : OrderChanges(o) \in SUBSET (DOMAIN log)
      /\ \A l : LineChanges(l) \in SUBSET (DOMAIN log)
  BY DEF OrderChanges, LineChanges
<1>4. ASSUME NEW l \in Lines, lines'[l] # None PROVE orders'[l[1]] # None
  <2>1. l[1] \in Orders /\ l[2] \in Products /\ l = <<l[1], l[2]>>
    BY DEF Lines
  <2>2. CASE c.table = "orders"
    BY <1>2, <1>4, <2>1, <2>2 DEF CommitShape, LastChangeHolds, TypeOK
  <2>3. CASE c.table = "details"
    <3>1. orders' = orders
      BY <2>3 DEF CommitShape
    <3>2. lines[l] # None \/ (m = l /\ orders[c.order] # None)
      BY <1>4, <2>3 DEF CommitShape, TypeOK
    <3> QED BY <2>1, <3>1, <3>2 DEF LastChangeHolds
  <2> QED BY <1>2, <2>2, <2>3
<1>5. ASSUME NEW o \in Orders, OrderChanges(o)' # {}
      PROVE  \E k \in OrderChanges(o)' :
                /\ IsLast(k, OrderChanges(o)')
                /\ orders'[o] = IF log'[k].op = "delete" THEN None ELSE log'[k].value
  <2>1. CASE c.table = "orders" /\ c.order = o
    <3>1. OrderChanges(o)' = OrderChanges(o) \cup {n} /\ IsLast(n, OrderChanges(o)')
      BY <1>1, <1>3, <2>1, LastGrows
    <3>2. orders'[o] = IF c.op = "delete" THEN None ELSE c.value
      BY <1>2, <2>1 DEF CommitShape, TypeOK
    <3> QED BY <1>1, <3>1, <3>2
  <2>2. CASE ~(c.table = "orders" /\ c.order = o)
    <3>1. OrderChanges(o)' = OrderChanges(o) /\ orders'[o] = orders[o]
      BY <1>1, <1>2, <2>2 DEF CommitShape, TypeOK
    <3>2. PICK k \in OrderChanges(o) :
            /\ IsLast(k, OrderChanges(o))
            /\ orders[o] = IF log[k].op = "delete" THEN None ELSE log[k].value
      BY <1>5, <3>1 DEF LastChangeHolds
    <3> QED BY <1>1, <1>3, <3>1, <3>2
  <2> QED BY <2>1, <2>2
<1>6. ASSUME NEW l \in Lines, LineChanges(l)' # {}
      PROVE  \E k \in LineChanges(l)' :
                /\ IsLast(k, LineChanges(l)')
                /\ lines'[l] = IF log'[k].op = "delete" THEN None ELSE log'[k].value
  <2>1. CASE c.table = "details" /\ m = l
    <3>1. LineChanges(l)' = LineChanges(l) \cup {n} /\ IsLast(n, LineChanges(l)')
      BY <1>1, <1>3, <2>1, LastGrows
    <3>2. lines'[l] = IF c.op = "delete" THEN None ELSE c.value
      BY <1>2, <2>1 DEF CommitShape, TypeOK
    <3> QED BY <1>1, <3>1, <3>2
  <2>2. CASE ~(c.table = "details" /\ m = l)
    <3>1. LineChanges(l)' = LineChanges(l) /\ lines'[l] = lines[l]
      BY <1>1, <1>2, <2>2 DEF CommitShape, TypeOK
    <3>2. PICK k \in LineChanges(l) :
            /\ IsLast(k, LineChanges(l))
            /\ lines[l] = IF log[k].op = "delete" THEN None ELSE log[k].value
      BY <1>6, <3>1 DEF LastChangeHolds
    <3> QED BY <1>1, <1>3, <3>1, <3>2
  <2> QED BY <2>1, <2>2
<1> QED BY <1>4, <1>5, <1>6 DEF LastChangeHolds

LEMMA InsertsCommit ==
    ASSUME TypeOK, SourceInv, NEW c \in Changes, CommitShape(c)
    PROVE  InsertsFollowDeletes'
<1> DEFINE n == Len(log) + 1
           m == <<c.order, c.product>>
<1>1. /\ log'[n] = c
      /\ \A i \in DOMAIN log : i \in Nat /\ i <= Len(log) /\ log'[i] = log[i]
      /\ \A o : OrderChanges(o)' =
              IF c.table = "orders" /\ c.order = o
              THEN OrderChanges(o) \cup {n} ELSE OrderChanges(o)
      /\ \A l : LineChanges(l)' =
              IF c.table = "details" /\ m = l
              THEN LineChanges(l) \cup {n} ELSE LineChanges(l)
      /\ Len(log) \in Nat
  BY LogGrows DEF CommitShape
<1>2. /\ \A o : OrderChanges(o) \subseteq DOMAIN log
      /\ \A l : LineChanges(l) \subseteq DOMAIN log
  BY DEF OrderChanges, LineChanges
<1>3. ASSUME NEW o \in Orders, NEW i \in OrderChanges(o)', NEW k \in OrderChanges(o)',
             log'[k].op = "insert"
      PROVE  k <= i
  <2>1. CASE k \in OrderChanges(o)
    <3>1. k \in DOMAIN log /\ log[k].op = "insert"
      BY <1>1, <1>2, <1>3, <2>1
    <3>2. CASE i \in OrderChanges(o)
      BY <2>1, <3>1, <3>2 DEF SourceInv, InsertsFollowDeletes
    <3>3. CASE i \notin OrderChanges(o)
      <4>1. i = n
        BY <1>1, <1>3, <3>3
      <4> QED BY <1>1, <3>1, <4>1
    <3> QED BY <3>2, <3>3
  <2>2. CASE k \notin OrderChanges(o)
    <3>1. k = n /\ c.table = "orders" /\ c.order = o
      BY <1>1, <1>3, <2>2
    <3>2. c.op = "insert"
      BY <1>1, <1>3, <3>1
    <3>3. \A j \in DOMAIN log : log[j].order # o
      BY <3>1, <3>2 DEF CommitShape
    <3>4. OrderChanges(o) = {}
      BY <3>3 DEF OrderChanges
    <3> QED BY <1>1, <1>3, <3>1, <3>4
  <2> QED BY <2>1, <2>2
<1>4. ASSUME NEW l \in Lines, NEW i \in LineChanges(l)', NEW k \in LineChanges(l)',
             i < k, log'[k].op = "insert"
      PROVE  \E j \in LineChanges(l)' : i <= j /\ j < k /\ log'[j].op = "delete"
  <2>1. i \in LineChanges(l)
    BY <1>1, <1>2, <1>4
  <2>2. CASE k \in LineChanges(l)
    <3>1. k \in DOMAIN log /\ log[k].op = "insert"
      BY <1>1, <1>2, <1>4, <2>2
    <3>2. PICK j \in LineChanges(l) : i <= j /\ j < k /\ log[j].op = "delete"
      BY <1>4, <2>1, <2>2, <3>1 DEF SourceInv, InsertsFollowDeletes
    <3> QED BY <1>1, <1>2, <3>2
  <2>3. CASE k \notin LineChanges(l)
    <3>1. k = n /\ c.table = "details" /\ m = l
      BY <1>1, <1>4, <2>3
    <3>2. c.op = "insert"
      BY <1>1, <1>4, <3>1
    <3>3. lines[l] = None
      BY <3>1, <3>2 DEF CommitShape
    <3>4. PICK j \in LineChanges(l) :
            /\ IsLast(j, LineChanges(l))
            /\ lines[l] = IF log[j].op = "delete" THEN None ELSE log[j].value
      BY <2>1 DEF SourceInv, LastChangeHolds
    <3>5. j \in 1..Len(log)
      BY <1>2, <3>4, PositionTypes
    <3>6. log[j].value # None
      BY <3>5, LogEntry, NoneAssumption
    <3>7. log[j].op = "delete"
      BY <3>3, <3>4, <3>6
    <3>8. i <= j
      BY <2>1, <3>4 DEF IsLast
    <3>9. j < k
      BY <1>1, <3>1, <3>5
    <3> QED BY <1>1, <3>4, <3>5, <3>7, <3>8, <3>9, PositionTypes
  <2> QED BY <2>2, <2>3
<1> QED BY <1>3, <1>4 DEF InsertsFollowDeletes

LEMMA AbsentCommit ==
    ASSUME TypeOK, SourceInv, facts' = facts, NEW c \in Changes, CommitShape(c)
    PROVE  AbsentOrders'
<1> DEFINE n == Len(log) + 1
<1>1. /\ log'[n] = c /\ DOMAIN log' = DOMAIN log \cup {n}
      /\ \A i \in DOMAIN log : log'[i] = log[i]
      /\ \A o : OrderChanges(o)' =
              IF c.table = "orders" /\ c.order = o
              THEN OrderChanges(o) \cup {n} ELSE OrderChanges(o)
  BY LogGrows DEF CommitShape
<1>2. /\ c.order \in Orders /\ c.table \in Tables /\ c.op \in Ops
      /\ c.value \in Values /\ c.value # None /\ c.product \in Products \cup {None}
  BY NoneAssumption DEF Changes
<1>3. \A o : OrderChanges(o) \subseteq DOMAIN log
  BY DEF OrderChanges
<1>4. ASSUME NEW o \in Orders, orders'[o] = None
      PROVE  \/ \E i \in OrderChanges(o)' : log'[i].op = "delete"
             \/ /\ \A i \in DOMAIN log' : log'[i].order # o
                /\ \A k \in FactKeys : k[1][1] = o => facts'[k] = None
  <2>1. CASE c.table = "orders" /\ c.order = o
    <3>1. c.op = "delete"
      BY <1>2, <1>4, <2>1 DEF CommitShape, TypeOK
    <3> QED BY <1>1, <2>1, <3>1
  <2>2. CASE c.order # o
    <3>1. orders[o] = None
      BY <1>4, <2>2 DEF CommitShape, TypeOK
    <3> QED BY <1>1, <1>3, <2>2, <3>1 DEF SourceInv, AbsentOrders
  <2>3. CASE c.table = "details" /\ c.order = o
    <3>1. <<c.order, c.product>> \in Lines
      BY <1>2, <2>3 DEF CommitShape, Lines
    <3>2. orders[o] # None
      BY <2>3, <3>1 DEF CommitShape, SourceInv, LastChangeHolds
    <3>3. orders' = orders
      BY <2>3 DEF CommitShape
    <3> QED BY <1>4, <3>2, <3>3
  <2> QED BY <1>2, <2>1, <2>2, <2>3
<1> QED BY <1>4 DEF AbsentOrders

LEMMA SourceCommit ==
    ASSUME TypeOK, SourceInv, Source
    PROVE  SourceInv'
<1>1. PICK c \in Changes : CommitShape(c)
  BY SourceShape
<1>2. facts' = facts
  BY CommitKeepsLog
<1>3. OrdersNameNoProduct'
  <2>1. /\ DOMAIN log' = DOMAIN log \cup {Len(log) + 1}
        /\ \A i \in DOMAIN log : log'[i] = log[i]
        /\ log'[Len(log) + 1] = c
    BY <1>1, LogGrows DEF CommitShape
  <2>2. c.table = "orders" => c.product = None
    BY <1>1 DEF CommitShape
  <2> QED BY <2>1, <2>2 DEF SourceInv, OrdersNameNoProduct
<1> QED BY <1>1, <1>2, <1>3, LastChangeCommit, InsertsCommit, AbsentCommit DEF SourceInv

\* What stays with the source when only a run or the dimension load moves:
\* the warehouse gets no row of an order nothing is known of.
LEMMA SourceFrame ==
    ASSUME SourceInv, UNCHANGED <<orders, lines, log>>,
           \A o \in Orders : orders[o] = None /\ (\A i \in DOMAIN log : log[i].order # o) =>
                \A k \in FactKeys :
                    k[1][1] = o /\ facts[k] = None => facts'[k] = None
    PROVE  SourceInv'
<1>1. /\ \A o : OrderChanges(o)' = OrderChanges(o)
      /\ \A l : LineChanges(l)' = LineChanges(l)
  BY DEF OrderChanges, LineChanges, LineOf
<1>2. LastChangeHolds' /\ InsertsFollowDeletes'
  BY <1>1 DEF SourceInv, LastChangeHolds, InsertsFollowDeletes
<1>3. AbsentOrders'
  BY <1>1 DEF SourceInv, AbsentOrders
<1>4. OrdersNameNoProduct'
  BY DEF SourceInv, OrdersNameNoProduct
<1> QED BY <1>2, <1>3, <1>4 DEF SourceInv

-----------------------------------------------------------------------------
(* The warehouse: what one write does to the rows of a line.               *)

\* The key a batch writes a line under is open, and none of the line is newer.
LEMMA OpenKey ==
    ASSUME TypeOK, NEW batch, WriteToDw(batch), NEW p \in Products
    PROVE  /\ version'[p] = OpenVersion(batch, p)
           /\ version[p] \in Nat /\ version'[p] \in Nat /\ version[p] <= version'[p]
           /\ version'[p] <= MaxVersions
           /\ (\E b \in batch : b.line[2] = p) => version'[p] \in 1..MaxVersions
<1>1. /\ version[p] \in 0..MaxVersions
      /\ version'[p] = OpenVersion(batch, p)
      /\ MaxVersions \in Nat \ {0}
  BY BoundsAssumption DEF TypeOK, WriteToDw
<1> QED BY <1>1 DEF OpenVersion

\* A line without rows in the batch keeps what it has; another gets one of
\* them, as its newest.
LEMMA WriteEffect ==
    ASSUME TypeOK, KeysOpened, NEW batch, WriteToDw(batch),
           \A b \in batch : b.row \in Rows,
           NEW l \in Lines
    PROVE  /\ (\A b \in batch : b.line # l) =>
                    \A n \in 1..MaxVersions : facts'[<<l, n>>] = facts[<<l, n>>]
           /\ (\E b \in batch : b.line = l) =>
                    \E n \in RowsOf(l)' :
                        /\ IsLast(n, RowsOf(l)') /\ n <= version'[l[2]]
                        /\ \E b \in batch : b.line = l /\ facts'[<<l, n>>] = b.row
<1>1. PICK w \in Survivors(batch) :
        facts' = [k \in FactKeys |->
                    IF k[1] \in DOMAIN w /\ k[2] = OpenVersion(batch, k[1][2])
                    THEN w[k[1]] ELSE facts[k]]
  BY DEF WriteToDw
<1>2. /\ DOMAIN w = {b.line : b \in batch}
      /\ \A x \in DOMAIN w : [line |-> x, row |-> w[x]] \in batch
  BY DEF Survivors
<1>3. \A n \in 1..MaxVersions : <<l, n>> \in FactKeys
  BY DEF FactKeys
<1>4. \A n \in 1..MaxVersions :
        facts'[<<l, n>>] = IF l \in DOMAIN w /\ n = OpenVersion(batch, l[2])
                           THEN w[l] ELSE facts[<<l, n>>]
  BY <1>1, <1>3
<1>5. ASSUME NEW a \in batch, a.line = l
      PROVE  \E n \in RowsOf(l)' :
                /\ IsLast(n, RowsOf(l)') /\ n <= version'[l[2]]
                /\ \E b \in batch : b.line = l /\ facts'[<<l, n>>] = b.row
  <2> DEFINE v == version'[l[2]]
             b == [line |-> l, row |-> w[l]]
  <2>1. l[2] \in Products
    BY DEF Lines
  <2>2. v \in 1..MaxVersions /\ v = OpenVersion(batch, l[2])
        /\ version[l[2]] \in Nat /\ version[l[2]] <= v
    BY <1>5, <2>1, OpenKey
  <2> HIDE DEF v
  <2>3. l \in DOMAIN w /\ b \in batch
    BY <1>2, <1>5
  <2>4. facts'[<<l, v>>] = w[l] /\ w[l] \in Rows
    BY <1>4, <2>2, <2>3
  <2>5. v \in RowsOf(l)'
    BY <2>2, <2>4, NoneAssumption DEF RowsOf
  <2>6. \A n \in RowsOf(l) : n <= v
    BY <2>2 DEF KeysOpened, RowsOf
  <2>7. \A n \in RowsOf(l)' : n <= v
    <3> SUFFICES ASSUME NEW n \in RowsOf(l)', n # v PROVE n <= v
      BY <2>2
    <3>1. n \in 1..MaxVersions /\ facts'[<<l, n>>] # None
      BY DEF RowsOf
    <3>2. n \in RowsOf(l)
      BY <1>4, <2>2, <3>1 DEF RowsOf
    <3> QED BY <2>6, <3>2
  <2>8. IsLast(v, RowsOf(l)') /\ v <= v
    BY <2>2, <2>5, <2>7 DEF IsLast
  <2> QED BY <2>3, <2>4, <2>5, <2>8 DEF v
<1>6. ASSUME \A b \in batch : b.line # l, NEW n \in 1..MaxVersions
      PROVE  facts'[<<l, n>>] = facts[<<l, n>>]
  BY <1>2, <1>4, <1>6
<1> QED BY <1>5, <1>6

\* A line whose rows stay as they are.
LEMMA RowsKept ==
    ASSUME NEW l, \A n \in 1..MaxVersions : facts'[<<l, n>>] = facts[<<l, n>>]
    PROVE  /\ RowsOf(l)' = RowsOf(l)
           /\ \A n \in RowsOf(l) : facts'[<<l, n>>] = facts[<<l, n>>]
<1>1. RowsOf(l)' = RowsOf(l)
  BY DEF RowsOf
<1> QED BY <1>1 DEF RowsOf

LEMMA WriteKeys ==
    ASSUME TypeOK, KeysOpened, NEW batch, WriteToDw(batch),
           \A b \in batch : b.row \in Rows
    PROVE  KeysOpened'
<1> SUFFICES ASSUME NEW l \in Lines
             PROVE  /\ \A n \in RowsOf(l)' : n <= version'[l[2]]
                    /\ RowsOf(l)' # {} => \E n \in RowsOf(l)' : IsLast(n, RowsOf(l)')
  BY DEF KeysOpened
<1>1. l[2] \in Products /\ \A n \in RowsOf(l) \cup RowsOf(l)' : n \in Nat
  BY DEF Lines, RowsOf
<1>2. /\ version[l[2]] \in Nat /\ version'[l[2]] \in Nat
      /\ version[l[2]] <= version'[l[2]]
  BY <1>1, OpenKey
<1>3. CASE \A b \in batch : b.line # l
  <2>1. RowsOf(l)' = RowsOf(l)
    BY <1>3, WriteEffect, RowsKept
  <2> QED BY <1>1, <1>2, <2>1 DEF KeysOpened
<1>4. CASE \E b \in batch : b.line = l
  <2>1. PICK n \in RowsOf(l)' : IsLast(n, RowsOf(l)') /\ n <= version'[l[2]]
    BY <1>4, WriteEffect
  <2> QED BY <1>1, <1>2, <2>1 DEF IsLast
<1> QED BY <1>3, <1>4

-----------------------------------------------------------------------------
(* What a run holds.                                                       *)

\* What a watermark has passed is captured.
LEMMA AcknowledgedCaptured ==
    ASSUME TypeOK, WithinCaptured, NEW i \in DOMAIN log, Acknowledged(i)
    PROVE  i \in 1..captured
<1>1. i \in Nat /\ 1 <= i /\ captured \in Nat /\ log[i].table \in Tables
  BY PositionTypes
<1>2. PICK t \in Tables : t = log[i].table
  BY <1>1
<1>3. wm[t] # None /\ 2 * i <= wm[t] /\ wm[t] \in Nat
  BY <1>2, PositionTypes DEF Acknowledged, Lsn
<1>4. wm[t] <= 2 * captured
  BY <1>3 DEF WithinCaptured, Lsn
<1> QED BY <1>1, <1>3, <1>4

\* What is undetermined depends on the log entries of the set alone.
LEMMA UndeterminedKept ==
    ASSUME NEW S, \A i \in S : log'[i] = log[i]
    PROVE  /\ UndeterminedLines(S)' = UndeterminedLines(S)
           /\ UndeterminedOrders(S)' = UndeterminedOrders(S)
<1>1. \A l : {i \in S : LineOf(i) = l}' = {i \in S : LineOf(i) = l}
  BY DEF LineOf
<1>2. ASSUME NEW l \in Lines
      PROVE  l \in UndeterminedLines(S)' <=> l \in UndeterminedLines(S)
  BY <1>1 DEF UndeterminedLines
<1>3. UndeterminedLines(S)' = UndeterminedLines(S)
  BY <1>2 DEF UndeterminedLines
<1>4. UndeterminedOrders(S)' = UndeterminedOrders(S)
  BY DEF UndeterminedOrders
<1> QED BY <1>3, <1>4

LEMMA RunInit == Init => RunInv
<1> SUFFICES ASSUME Init PROVE RunInv
  OBVIOUS
<1>1. pc = "idle"
  BY DEF Init
<1>2. StagedFromWindows /\ WindowsFromWatermarks
  BY <1>1 DEF StagedFromWindows, WindowsFromWatermarks, StageOne
<1>3. SnapshotsCurrent /\ MixedUpKnown
  BY <1>1 DEF SnapshotsCurrent, MixedUpKnown, HasLanded, StageTwo
<1> QED BY <1>2, <1>3 DEF RunInv

\* A step that leaves staging and windows alone, and stays in its part of the
\* run or leaves it; a watermark moves only past what is staged.
LEMMA RunFrame ==
    ASSUME TypeOK, RunInv,
           UNCHANGED <<orders, lines, log, window, staged, snapOrders, snapLines>>,
           captured' \in Nat, captured <= captured', coalesced \subseteq coalesced',
           \/ pc' = pc
           \/ pc \in StageTwo /\ pc' \in StageTwo
           \/ pc' \in {"idle", "clear"},
           wm' = wm \/ pc' \in StageTwo,
           \A i \in DOMAIN log : Acknowledged(i)' => Acknowledged(i) \/ i \in staged
    PROVE  RunInv'
<1>1. \A t : StagedIn(t)' = StagedIn(t)
  BY DEF StagedIn
<1>2. captured \in Nat /\ 1..captured \subseteq 1..captured'
  BY PositionTypes
<1>3. \A t \in Tables : InWindow(t) \subseteq InWindow(t)'
  BY <1>2 DEF InWindow, IsEmpty, Lsn
<1>4. \A i \in staged : i \in DOMAIN log
  BY PositionTypes, StagedPositions DEF TypeOK
<1>5. StagedFromWindows'
  <2> SUFFICES ASSUME pc' \notin {"idle", "clear"} PROVE StagedFromWindows'
    BY DEF StagedFromWindows
  <2>1. pc \notin {"idle", "clear"} /\ (pc' \in StageOne => pc' = pc)
    BY DEF StageOne, StageTwo
  <2>2. \A t \in Tables : HasLanded(t) => HasLanded(t)'
    BY DEF HasLanded, StageTwo
  <2>3. \A t \in Tables : \A i \in StagedIn(t)' : HasLanded(t)' /\ i \in InWindow(t)'
    BY <1>1, <1>3, <2>1, <2>2 DEF RunInv, StagedFromWindows
  <2>4. ASSUME pc' \in StageOne, NEW i \in staged PROVE ~Acknowledged(i)'
    <3>1. wm' = wm /\ ~Acknowledged(i)
      BY <2>1, <2>4 DEF RunInv, StagedFromWindows, StageOne, StageTwo
    <3> QED BY <3>1 DEF Acknowledged, Lsn
  <2> QED BY <2>3, <2>4 DEF StagedFromWindows
<1>6. WindowsFromWatermarks'
  <2> SUFFICES ASSUME pc' \in StageOne, NEW t \in Tables, HasWindow(t)'
               PROVE  window'[t].from = FromLsn(t)'
    BY DEF WindowsFromWatermarks
  <2>1. pc' = pc /\ wm' = wm
    BY DEF StageOne, StageTwo, HasWindow
  <2>2. HasWindow(t)
    BY <2>1 DEF HasWindow
  <2> QED BY <2>1, <2>2 DEF RunInv, WindowsFromWatermarks, FromLsn
<1>7. /\ \A o : OrderChanges(o)' = OrderChanges(o)
      /\ \A l : LineChanges(l)' = LineChanges(l)
      /\ Affected' = Affected
  BY DEF OrderChanges, LineChanges, LineOf, Affected, Staged
<1>8. SnapshotsCurrent'
  <2>1. \A o : Read(OrderChanges(o))' => Read(OrderChanges(o))
    BY <1>7 DEF Read, OrderChanges
  <2>2. \A l : Read(LineChanges(l))' => Read(LineChanges(l))
    BY <1>7 DEF Read, LineChanges
  <2>3. /\ pc' \in StageTwo => pc \in StageTwo
        /\ pc' \in StageTwo \cup {"snapLines"} => pc \in StageTwo \cup {"snapLines"}
    BY DEF StageTwo
  <2> QED BY <1>7, <2>1, <2>2, <2>3 DEF RunInv, SnapshotsCurrent
<1>9. MixedUpKnown'
  <2>1. /\ pc' = "landDetails" => pc = "landDetails"
        /\ HasLanded("details")' => HasLanded("details")
    BY DEF StageTwo, HasLanded
  <2>2. /\ UndeterminedLines(StagedIn("details"))' = UndeterminedLines(StagedIn("details"))
        /\ UndeterminedOrders(StagedIn("orders"))' = UndeterminedOrders(StagedIn("orders"))
    BY <1>1 DEF UndeterminedLines, UndeterminedOrders, LineOf
  <2> QED BY <1>1, <2>1, <2>2 DEF RunInv, MixedUpKnown, LineOf
<1> QED BY <1>5, <1>6, <1>8, <1>9 DEF RunInv

\* A commit: the change is not staged and not acknowledged.
LEMMA CommitUnread ==
    ASSUME TypeOK, WithinCaptured, NEW c \in Changes, CommitShape(c),
           UNCHANGED <<captured, wm, staged>>, NEW n, n = Len(log) + 1
    PROVE  /\ ~Acknowledged(n)' /\ n \notin staged
           /\ \A i \in DOMAIN log : Acknowledged(i)' <=> Acknowledged(i)
           /\ staged \subseteq DOMAIN log
<1>1. /\ Len(log) \in Nat /\ log'[n] = c
      /\ \A i \in DOMAIN log : i <= Len(log) /\ log'[i] = log[i]
  BY LogGrows DEF CommitShape
<1>2. staged \subseteq DOMAIN log
  BY PositionTypes, StagedPositions DEF TypeOK
<1>3. captured \in Nat /\ captured <= Len(log) /\ c.table \in Tables
  BY PositionTypes DEF Changes
<1>4. ASSUME Acknowledged(n)' PROVE FALSE
  <2>1. PICK t \in Tables : t = c.table
    BY <1>3
  <2>2. wm[t] # None /\ 2 * n <= wm[t] /\ wm[t] \in Nat
    BY <1>1, <1>4, <2>1, PositionTypes DEF Acknowledged, Lsn
  <2>3. wm[t] <= 2 * captured
    BY <2>2 DEF WithinCaptured, Lsn
  <2> QED BY <1>1, <1>3, <2>2, <2>3
<1>5. n \notin staged
  BY <1>1, <1>2
<1>6. \A i \in DOMAIN log : Acknowledged(i)' <=> Acknowledged(i)
  BY <1>1 DEF Acknowledged, Lsn
<1> QED BY <1>2, <1>4, <1>5, <1>6

LEMMA RunCommit ==
    ASSUME TypeOK, DeliveryInv, SourceInv, RunInv, NEW c \in Changes, CommitShape(c),
           UNCHANGED <<captured, wm, pc, window, staged, snapOrders, snapLines,
                       coalesced>>
    PROVE  RunInv'
<1>0. PICK n : n = Len(log) + 1
  OBVIOUS
<1>1. /\ log'[n] = c /\ DOMAIN log' = DOMAIN log \cup {n}
      /\ \A i \in DOMAIN log : log'[i] = log[i]
      /\ \A o : OrderChanges(o)' =
              IF c.table = "orders" /\ c.order = o
              THEN OrderChanges(o) \cup {n} ELSE OrderChanges(o)
      /\ \A l : LineChanges(l)' =
              IF c.table = "details" /\ <<c.order, c.product>> = l
              THEN LineChanges(l) \cup {n} ELSE LineChanges(l)
  BY <1>0, LogGrows DEF CommitShape
<1>2. /\ ~Acknowledged(n)' /\ n \notin staged
      /\ \A i \in DOMAIN log : Acknowledged(i)' <=> Acknowledged(i)
      /\ staged \subseteq DOMAIN log
  BY <1>0, CommitUnread DEF DeliveryInv
<1>3. 1..captured \subseteq DOMAIN log
  BY PositionTypes
<1>4. \A t : StagedIn(t)' = StagedIn(t)
  BY <1>1, <1>2 DEF StagedIn
<1>5. \A t \in Tables : InWindow(t)' = InWindow(t)
  BY <1>1, <1>3 DEF InWindow, IsEmpty, Lsn
<1>6. StagedFromWindows' /\ WindowsFromWatermarks'
  BY <1>2, <1>4, <1>5 DEF RunInv, StagedFromWindows, WindowsFromWatermarks,
     HasLanded, HasWindow, FromLsn
<1>7. Affected' = Affected
  BY <1>1, <1>2 DEF Affected, Staged
<1>8. c.order \in Orders /\ c.table \in Tables
  BY DEF Changes
<1>9. ASSUME NEW o \in Affected
      PROVE  /\ orders'[o] # None => orders[o] # None
             /\ Read(OrderChanges(o))' =>
                    Read(OrderChanges(o)) /\ orders'[o] = orders[o]
  <2>1. PICK i \in staged : log[i].order = o /\ o \in Orders
    BY <1>2, LogEntry, PositionTypes DEF Affected
  <2>2. orders'[o] # None => orders[o] # None
    BY <1>2, <1>8, <2>1 DEF CommitShape, TypeOK
  <2>3. CASE c.table = "orders" /\ c.order = o
    <3>1. ~Read(OrderChanges(o))'
      BY <1>1, <1>2, <2>3 DEF Read
    <3> QED BY <2>2, <3>1
  <2>4. CASE ~(c.table = "orders" /\ c.order = o)
    <3>1. orders'[o] = orders[o]
      BY <1>8, <2>1, <2>4 DEF CommitShape, TypeOK
    <3>2. OrderChanges(o)' = OrderChanges(o)
      BY <1>1, <2>4
    <3>3. Read(OrderChanges(o))' => Read(OrderChanges(o))
      BY <1>2, <3>2 DEF Read, OrderChanges
    <3> QED BY <2>2, <3>1, <3>3
  <2> QED BY <2>3, <2>4
<1>10. ASSUME NEW l \in Lines, Read(LineChanges(l))'
       PROVE  Read(LineChanges(l)) /\ lines'[l] = lines[l]
  <2>1. ~(c.table = "details" /\ <<c.order, c.product>> = l)
    BY <1>1, <1>2, <1>10 DEF Read
  <2>2. LineChanges(l)' = LineChanges(l)
    BY <1>1, <2>1
  <2>3. lines'[l] = lines[l]
    BY <1>8, <2>1 DEF CommitShape, TypeOK
  <2> QED BY <1>2, <1>10, <2>2, <2>3 DEF Read, LineChanges
<1>11. SnapshotsCurrent'
  BY <1>7, <1>9, <1>10 DEF RunInv, SnapshotsCurrent
<1>12. MixedUpKnown'
  <2>1. ASSUME NEW t \in Tables
        PROVE  /\ UndeterminedLines(StagedIn(t))' = UndeterminedLines(StagedIn(t))
               /\ UndeterminedOrders(StagedIn(t))' = UndeterminedOrders(StagedIn(t))
    <3>1. PICK S : S = StagedIn(t)
      OBVIOUS
    <3>2. StagedIn(t)' = S /\ \A i \in S : log'[i] = log[i]
      BY <1>1, <1>2, <1>4, <3>1 DEF StagedIn
    <3>3. /\ UndeterminedLines(S)' = UndeterminedLines(S)
          /\ UndeterminedOrders(S)' = UndeterminedOrders(S)
      BY <3>2, UndeterminedKept
    <3>4. /\ UndeterminedLines(StagedIn(t))' = UndeterminedLines(S)'
          /\ UndeterminedOrders(StagedIn(t))' = UndeterminedOrders(S)'
      BY <3>2 DEF UndeterminedLines, UndeterminedOrders
    <3> QED BY <3>1, <3>3, <3>4
  <2>2. \A i \in StagedIn("details") : LineOf(i)' = LineOf(i)
    BY <1>1, <1>2 DEF StagedIn, LineOf
  <2> QED BY <1>4, <2>1, <2>2 DEF RunInv, MixedUpKnown, HasLanded
<1> QED BY <1>6, <1>11, <1>12 DEF RunInv

\* A window read in this run holds nothing that was acknowledged before it.
LEMMA WindowUnread ==
    ASSUME TypeOK, RunInv, pc \in StageOne, NEW t \in Tables, HasWindow(t),
           NEW i \in InWindow(t)
    PROVE  ~Acknowledged(i)
<1> SUFFICES ASSUME Acknowledged(i) PROVE FALSE
  OBVIOUS
<1>1. window[t].from = FromLsn(t)
  BY DEF RunInv, WindowsFromWatermarks
<1>2. /\ log[i].table = t /\ window[t].from <= 2 * i /\ i \in Nat
  BY PositionTypes DEF InWindow, Lsn
<1>3. wm[t] # None /\ 2 * i <= wm[t] /\ wm[t] \in Nat
  BY <1>2, PositionTypes DEF Acknowledged, Lsn
<1>4. wm[t] + 1 <= 2 * i
  BY <1>1, <1>2, <1>3 DEF FromLsn
<1> QED BY <1>2, <1>3, <1>4

\* Stage one, step by step.
LEMMA RunStageOneStep ==
    ASSUME TypeOK, DeliveryInv, SourceInv, RunInv, RunStageOne
    PROVE  RunInv'
<1> USE DEF Step, source, staging, history
<1>1. /\ UNCHANGED <<orders, lines, log, captured, wm>>
      /\ \A i : Acknowledged(i)' <=> Acknowledged(i)
      /\ \A t \in Tables : FromLsn(t)' = FromLsn(t)
  <2>1. UNCHANGED <<orders, lines, log, captured, wm>>
    BY DEF RunStageOne, ClearStaging, GetOrderWindow, GetDetailWindow,
       GetCdcWindow, LandOrders, LandDetails, Land, SnapshotOrders, SnapshotLines
  <2> QED BY <2>1 DEF Acknowledged, Lsn, FromLsn
<1>2. CASE ClearStaging
  <2>1. pc' = "orderWindow" /\ staged' = {}
    BY <1>2 DEF ClearStaging
  <2>2. /\ \A t \in Tables : ~HasWindow(t)'
        /\ ~HasLanded("details")' /\ \A t : StagedIn(t)' = {}
    BY <2>1 DEF HasWindow, HasLanded, StageTwo, StagedIn
  <2>3. StagedFromWindows' /\ WindowsFromWatermarks'
    BY <2>1, <2>2 DEF StagedFromWindows, WindowsFromWatermarks
  <2>4. SnapshotsCurrent' /\ MixedUpKnown'
    BY <2>1, <2>2 DEF SnapshotsCurrent, MixedUpKnown, StageTwo
  <2> QED BY <2>3, <2>4 DEF RunInv
<1>3. ASSUME NEW t \in Tables, NEW here \in {"orderWindow", "detailWindow"},
             NEW next \in {"detailWindow", "landOrders"},
             GetCdcWindow(t, here, next),
             \A u \in Tables : HasWindow(u)' => HasWindow(u) \/ u = t
      PROVE  RunInv'
  <2>1. /\ pc = here /\ pc' = next /\ UNCHANGED <<staged, snapOrders, snapLines>>
        /\ window' = [window EXCEPT ![t] = [from |-> FromLsn(t),
                                            to   |-> Lsn(captured)]]
    BY <1>3 DEF GetCdcWindow
  <2>2. /\ \A u \in Tables : ~HasLanded(u) /\ ~HasLanded(u)'
        /\ pc \in StageOne /\ pc' \notin StageTwo \cup {"snapLines", "landDetails"}
    BY <1>3, <2>1 DEF HasLanded, StageOne, StageTwo
  <2>3. \A i \in staged : \E u \in Tables : i \in StagedIn(u)
    BY StagedPositions, PositionTypes DEF StagedIn, TypeOK
  <2>4. staged = {}
    BY <1>3, <2>1, <2>2, <2>3 DEF RunInv, StagedFromWindows
  <2>5. StagedFromWindows'
    BY <2>1, <2>4 DEF StagedFromWindows, StagedIn
  <2>6. window'[t].from = FromLsn(t) /\ \A u \in Tables \ {t} : window'[u] = window[u]
    BY <2>1 DEF TypeOK
  <2>7. WindowsFromWatermarks'
    BY <1>1, <1>3, <2>2, <2>6 DEF RunInv, WindowsFromWatermarks
  <2>8. SnapshotsCurrent' /\ MixedUpKnown'
    BY <2>2 DEF SnapshotsCurrent, MixedUpKnown
  <2> QED BY <2>5, <2>7, <2>8 DEF RunInv
<1>4. CASE GetOrderWindow
  <2>1. \A u \in Tables : HasWindow(u)' => u = "orders"
    BY <1>4 DEF GetOrderWindow, GetCdcWindow, HasWindow, StageTwo
  <2> QED BY <1>3, <1>4, <2>1 DEF GetOrderWindow
<1>5. CASE GetDetailWindow
  <2>1. \A u \in Tables : HasWindow(u) \/ u = "details"
    BY <1>5 DEF GetDetailWindow, GetCdcWindow, HasWindow
  <2> QED BY <1>3, <1>5, <2>1 DEF GetDetailWindow
<1>6. ASSUME NEW t \in Tables, Land(t), pc \in {"landOrders", "landDetails"},
             pc' \in {"landDetails", "snapOrders"}, HasLanded(t)',
             \A u \in Tables : HasLanded(u)' <=> HasLanded(u) \/ u = t,
             \A u \in Tables : HasWindow(u), ~HasLanded(t)
      PROVE  /\ StagedFromWindows' /\ WindowsFromWatermarks' /\ SnapshotsCurrent'
             /\ StagedIn(t)' = InWindow(t)
             /\ \A u \in Tables \ {t} : StagedIn(u)' = StagedIn(u)
             /\ \A i \in InWindow(t) : ~Acknowledged(i)
  <2>1. staged' = staged \cup InWindow(t) /\ UNCHANGED <<wm, window>>
    BY <1>6 DEF Land
  <2>2. \A u \in Tables : InWindow(u)' = InWindow(u)
    BY <1>1, <2>1 DEF InWindow, IsEmpty, Lsn
  <2>3. StagedIn(t) = {}
    BY <1>6 DEF RunInv, StagedFromWindows
  <2>4. \A i \in InWindow(t) : log[i].table = t
    BY DEF InWindow
  <2>5. /\ StagedIn(t)' = InWindow(t)
        /\ \A u \in Tables \ {t} : StagedIn(u)' = StagedIn(u)
    BY <1>1, <2>1, <2>3, <2>4 DEF StagedIn
  <2>6. \A i \in InWindow(t) : ~Acknowledged(i)
    BY <1>6, WindowUnread DEF StageOne
  <2>7. \A i \in staged : ~Acknowledged(i)
    BY <1>6 DEF RunInv, StagedFromWindows, StageOne
  <2>8. StagedFromWindows'
    <3>1. \A u \in Tables : \A i \in StagedIn(u)' : HasLanded(u)' /\ i \in InWindow(u)'
      BY <1>6, <2>2, <2>5 DEF RunInv, StagedFromWindows
    <3> QED BY <1>1, <2>1, <2>6, <2>7, <3>1 DEF StagedFromWindows
  <2>9. WindowsFromWatermarks'
    BY <1>1, <1>6, <2>1 DEF RunInv, WindowsFromWatermarks, StageOne
  <2>10. SnapshotsCurrent'
    BY <1>6 DEF SnapshotsCurrent, StageTwo
  <2> QED BY <2>5, <2>6, <2>8, <2>9, <2>10
<1>7. CASE LandOrders
  <2>1. /\ Land("orders") /\ pc = "landOrders" /\ pc' = "landDetails"
        /\ coalesced' = coalesced \cup UndeterminedOrders(InWindow("orders"))
    BY <1>7 DEF LandOrders
  <2>2. /\ \A u \in Tables : HasLanded(u)' <=> u = "orders"
        /\ \A u \in Tables : HasWindow(u) /\ ~HasLanded(u)
    BY <2>1 DEF HasLanded, HasWindow, StageTwo
  <2>3. /\ StagedFromWindows' /\ WindowsFromWatermarks' /\ SnapshotsCurrent'
        /\ StagedIn("orders")' = InWindow("orders")
    BY <1>6, <2>1, <2>2
  <2>4. UndeterminedOrders(StagedIn("orders"))' = UndeterminedOrders(InWindow("orders"))
    BY <1>1, <2>3 DEF UndeterminedOrders
  <2>5. MixedUpKnown'
    BY <2>1, <2>2, <2>4 DEF MixedUpKnown
  <2> QED BY <2>3, <2>5 DEF RunInv
<1>8. CASE LandDetails
  <2>1. /\ Land("details") /\ pc = "landDetails" /\ pc' = "snapOrders"
        /\ coalesced' = (coalesced \ {LineOf(i) : i \in InWindow("details")})
                            \cup UndeterminedLines(InWindow("details"))
    BY <1>8 DEF LandDetails
  <2>2. /\ \A u \in Tables : HasLanded(u)' /\ (HasLanded(u) <=> u = "orders")
        /\ \A u \in Tables : HasWindow(u)
    BY <2>1 DEF HasLanded, HasWindow, StageTwo
  <2>3. /\ StagedFromWindows' /\ WindowsFromWatermarks' /\ SnapshotsCurrent'
        /\ StagedIn("details")' = InWindow("details")
        /\ StagedIn("orders")' = StagedIn("orders")
    BY <1>6, <2>1, <2>2
  <2>4. /\ UndeterminedLines(StagedIn("details"))' = UndeterminedLines(InWindow("details"))
        /\ UndeterminedOrders(StagedIn("orders"))' = UndeterminedOrders(StagedIn("orders"))
    BY <1>1, <2>3 DEF UndeterminedOrders, UndeterminedLines, LineOf
  <2>5. UndeterminedOrders(StagedIn("orders")) \subseteq coalesced
    BY <2>1 DEF RunInv, MixedUpKnown
  <2>6. \A i : LineOf(i)' = LineOf(i)
    BY <1>1 DEF LineOf
  <2>7. MixedUpKnown'
    BY <2>1, <2>2, <2>3, <2>4, <2>5, <2>6 DEF MixedUpKnown
  <2> QED BY <2>3, <2>7 DEF RunInv
<1>9. CASE SnapshotOrders \/ SnapshotLines
  <2>1. /\ UNCHANGED <<window, staged, coalesced>>
        /\ pc \in {"snapOrders", "snapLines"}
        /\ pc' = IF pc = "snapOrders" THEN "snapLines" ELSE "ordersInsert"
    BY <1>9 DEF SnapshotOrders, SnapshotLines
  <2>2. /\ \A t : StagedIn(t)' = StagedIn(t)
        /\ \A t \in Tables : InWindow(t)' = InWindow(t)
        /\ \A t \in Tables : HasLanded(t) /\ HasLanded(t)' /\ HasWindow(t)
        /\ pc \in StageOne
    BY <1>1, <2>1 DEF StagedIn, InWindow, IsEmpty, Lsn, HasLanded, HasWindow,
       StageOne, StageTwo
  <2>3. StagedFromWindows' /\ WindowsFromWatermarks'
    BY <1>1, <2>1, <2>2 DEF RunInv, StagedFromWindows, WindowsFromWatermarks
  <2>4. MixedUpKnown'
    <3>1. /\ UndeterminedLines(StagedIn("details"))' = UndeterminedLines(StagedIn("details"))
          /\ UndeterminedOrders(StagedIn("orders"))' = UndeterminedOrders(StagedIn("orders"))
      BY <1>1, <2>2 DEF UndeterminedOrders, UndeterminedLines, LineOf
    <3>2. \A i : LineOf(i)' = LineOf(i)
      BY <1>1 DEF LineOf
    <3> QED BY <2>1, <2>2, <3>1, <3>2 DEF RunInv, MixedUpKnown
  <2>5. /\ \A o : Read(OrderChanges(o))' <=> Read(OrderChanges(o))
        /\ \A l : Read(LineChanges(l))' <=> Read(LineChanges(l))
        /\ Affected' = Affected /\ \A o \in Affected : o \in Orders
    <3>1. Affected' = Affected /\ \A o \in Affected : o \in Orders
      BY <1>1, <2>1, LogEntry, StagedPositions DEF Affected, Staged, TypeOK
    <3> QED BY <1>1, <2>1, <3>1 DEF Read, OrderChanges, LineChanges, LineOf
  <2>6. CASE SnapshotOrders
    <3>1. /\ pc' = "snapLines"
          /\ snapOrders' = [o \in Orders |->
                              IF o \in Affected THEN orders[o] ELSE None]
      BY <2>6 DEF SnapshotOrders
    <3>2. SnapshotsCurrent'
      BY <1>1, <2>5, <3>1 DEF SnapshotsCurrent, StageTwo
    <3> QED BY <2>3, <2>4, <3>2 DEF RunInv
  <2>7. CASE SnapshotLines
    <3>1. /\ pc = "snapLines" /\ snapOrders' = snapOrders
          /\ snapLines' = [l \in Lines |->
                              IF l[1] \in Affected THEN lines[l] ELSE None]
      BY <2>7 DEF SnapshotLines
    <3>2. SnapshotsCurrent'
      BY <1>1, <2>5, <3>1 DEF RunInv, SnapshotsCurrent
    <3> QED BY <2>3, <2>4, <3>2 DEF RunInv
  <2> QED BY <1>9, <2>6, <2>7
<1> QED BY <1>2, <1>4, <1>5, <1>7, <1>8, <1>9 DEF RunStageOne

-----------------------------------------------------------------------------
(* What stage two applies to a line.                                       *)

\* Staging holds an interval of its table's changes, up to the watermark.
LEMMA StagedInterval ==
    ASSUME TypeOK, DeliveryInv, RunInv, pc \in StageTwo,
           NEW i \in staged, NEW m \in DOMAIN log,
           log[m].table = log[i].table, i <= m,
           Acknowledged(m) \/ \E k \in staged : log[k].table = log[m].table /\ m <= k
    PROVE  m \in staged
<1>1. /\ i \in DOMAIN log /\ i \in Nat /\ m \in Nat /\ captured \in Nat
      /\ \A k \in staged : k \in DOMAIN log /\ k \in Nat
  BY PositionTypes, StagedPositions DEF TypeOK
<1>2. PICK t \in Tables : t = log[i].table
  BY <1>1, PositionTypes
<1>3. HasWindow(t) /\ HasLanded(t) /\ pc \notin {"idle", "clear"}
  BY DEF HasWindow, HasLanded, StageTwo
<1>4. \A k \in staged : log[k].table = t => k \in InWindow(t)
  BY <1>3 DEF RunInv, StagedFromWindows, StagedIn
<1>5. /\ ~IsEmpty(window[t]) /\ window[t].from <= 2 * i
      /\ window[t].from \in Nat /\ window[t].to \in Nat
  BY <1>2, <1>4, PositionTypes DEF InWindow, Lsn
<1>6. 2 * m <= window[t].to /\ m \in 1..captured
  <2>1. CASE Acknowledged(m)
    <3>1. wm[t] # None /\ 2 * m <= wm[t] /\ wm[t] \in Nat
      BY <1>2, <2>1, PositionTypes DEF Acknowledged, Lsn
    <3>2. wm[t] <= window[t].to
      BY <1>3, <1>5, <3>1 DEF DeliveryInv, WindowsJoin
    <3>3. m \in 1..captured
      BY <2>1, AcknowledgedCaptured DEF DeliveryInv
    <3> QED BY <1>1, <1>5, <3>1, <3>2, <3>3
  <2>2. ASSUME NEW k \in staged, log[k].table = log[m].table, m <= k
        PROVE  2 * m <= window[t].to /\ m \in 1..captured
    <3>1. k \in InWindow(t)
      BY <1>2, <1>4, <2>2
    <3>2. k \in 1..captured /\ 2 * k <= window[t].to
      BY <3>1 DEF InWindow, Lsn
    <3>3. 1 <= m
      BY PositionTypes
    <3> QED BY <1>1, <1>5, <2>2, <3>2, <3>3
  <2> QED BY <2>1, <2>2
<1>7. window[t].from <= 2 * m
  BY <1>1, <1>5
<1>8. m \in InWindow(t)
  BY <1>2, <1>5, <1>6, <1>7 DEF InWindow, Lsn
<1> QED BY <1>3, <1>8 DEF DeliveryInv, Landed

\* So do the changes of a line, or of an order, that are staged.
Gapless(S) ==
    \A i \in staged \cap S, m \in S :
        i <= m /\ (Acknowledged(m) \/ \E k \in staged \cap S : m <= k) => m \in staged

\* What stage two needs to know of a line to delete it ...
LineHeld(l) ==
    /\ Gapless(LineChanges(l))
    /\ l \notin UndeterminedLines(StagedIn("details"))
    /\ l[1] \in Affected => /\ orders[l[1]] # None => snapOrders[l[1]] # None
                            /\ Read(LineChanges(l)) => snapLines[l] = lines[l]

\* ... and, with that, to write what the source has.
OrderHeld(l) ==
    /\ Gapless(OrderChanges(l[1]))
    /\ l \in UndeterminedOrders(StagedIn("orders")) =>
            \E i \in StagedIn("details") : LineOf(i) = l
    /\ l[1] \in Affected /\ Read(OrderChanges(l[1])) => snapOrders[l[1]] = orders[l[1]]

LEMMA PipelineHolds ==
    ASSUME TypeOK, DeliveryInv, RunInv, pc \in StageTwo, NEW l \in Lines \ coalesced
    PROVE  LineHeld(l) /\ OrderHeld(l)
<1>1. ASSUME NEW S \in SUBSET DOMAIN log, \A i, j \in S : log[i].table = log[j].table
      PROVE  Gapless(S)
  BY <1>1, StagedInterval DEF Gapless
<1>2. /\ LineChanges(l) \in SUBSET DOMAIN log
      /\ \A i, j \in LineChanges(l) : log[i].table = log[j].table
      /\ OrderChanges(l[1]) \in SUBSET DOMAIN log
      /\ \A i, j \in OrderChanges(l[1]) : log[i].table = log[j].table
  BY DEF LineChanges, OrderChanges
<1>3. Gapless(LineChanges(l)) /\ Gapless(OrderChanges(l[1]))
  BY <1>1, <1>2
<1>4. HasLanded("details")
  BY DEF HasLanded
<1> QED BY <1>3, <1>4 DEF LineHeld, OrderHeld, RunInv, SnapshotsCurrent, MixedUpKnown

\* Of such changes, all settled, the last one is staged if any is.
LEMMA LastOfStaged ==
    ASSUME NEW S, Gapless(S), Settled(S), staged \cap S # {}, NEW k, IsLast(k, S)
    PROVE  k \in staged \cap S /\ IsLast(k, staged \cap S)
<1>1. PICK i \in staged \cap S : TRUE
  OBVIOUS
<1>2. k \in S /\ i <= k
  BY <1>1 DEF IsLast
<1>3. k \in staged
  BY <1>1, <1>2 DEF Settled, Gapless
<1> QED BY <1>2, <1>3 DEF IsLast

\* The staged changes of a line: the last one is what the source holds, and
\* unless it is a deletion, none of the others can be applied after it.
LEMMA LineStaged ==
    ASSUME TypeOK, SourceInv, NEW l \in Lines, LineHeld(l), Settled(LineChanges(l)),
           staged \cap LineChanges(l) # {}
    PROVE  \E k \in staged \cap LineChanges(l) :
              /\ IsLast(k, staged \cap LineChanges(l))
              /\ lines[l] = IF log[k].op = "delete" THEN None ELSE log[k].value
              /\ log[k].op # "delete" =>
                    \A i \in staged \cap LineChanges(l) :
                        /\ log[i].op # "delete"
                        /\ log[i].op = log[k].op \/ log[k].op = "insert" => i = k
<1> DEFINE h == staged \cap LineChanges(l)
<1>1. \A i \in LineChanges(l) : i \in Nat /\ log[i].op \in Ops
  BY PositionTypes DEF LineChanges
<1>2. PICK k \in LineChanges(l) :
        /\ IsLast(k, LineChanges(l))
        /\ lines[l] = IF log[k].op = "delete" THEN None ELSE log[k].value
  BY DEF SourceInv, LastChangeHolds
<1>3. k \in h /\ IsLast(k, h)
  BY <1>2, LastOfStaged DEF LineHeld
<1>4. h = {i \in StagedIn("details") : LineOf(i) = l}
  <2>1. staged \subseteq DOMAIN log
    BY PositionTypes, StagedPositions DEF TypeOK
  <2> QED BY <2>1 DEF StagedIn, LineChanges
<1>5. l \notin UndeterminedLines(StagedIn("details"))
  BY DEF LineHeld
<1> HIDE DEF h
<1>6. ASSUME log[k].op # "delete", NEW i \in h
      PROVE  /\ log[i].op # "delete"
             /\ log[i].op = log[k].op \/ log[k].op = "insert" => i = k
  <2>1. ~\E x, y \in h : \/ log[x].op = "delete"
                         \/ x # y /\ log[x].op = "update" /\ log[y].op = "update"
    BY <1>3, <1>4, <1>5, <1>6 DEF UndeterminedLines, IsLast
  <2>2. \A x \in h : log[x].op # "delete"
    BY <2>1
  <2>3. ASSUME log[k].op = "insert", i # k PROVE FALSE
    <3>1. i < k
      BY <1>1, <1>3, <2>3 DEF IsLast, h
    <3>2. PICK m \in LineChanges(l) : i <= m /\ m < k /\ log[m].op = "delete"
      BY <1>2, <2>3, <3>1 DEF SourceInv, InsertsFollowDeletes, h
    <3>3. m <= k
      BY <1>1, <3>2
    <3>4. m \in staged
      BY <1>3, <3>2, <3>3 DEF LineHeld, Gapless, h
    <3> QED BY <2>2, <3>2, <3>4 DEF h
  <2>4. log[k].op \in {"insert", "update"}
    BY <1>1, <1>2, <1>6
  <2> QED BY <1>3, <2>1, <2>2, <2>3, <2>4
<1> QED BY <1>2, <1>3, <1>6 DEF h

\* The staged changes of an order that is there.
LEMMA OrderStaged ==
    ASSUME TypeOK, SourceInv, SourceGone, NEW o \in Orders, Gapless(OrderChanges(o)),
           orders[o] # None, Settled(OrderChanges(o)),
           staged \cap OrderChanges(o) # {}
    PROVE  \E k \in staged \cap OrderChanges(o) :
              /\ IsLast(k, staged \cap OrderChanges(o))
              /\ orders[o] = log[k].value
              /\ \A i \in staged \cap OrderChanges(o) :
                    /\ log[i].op # "delete"
                    /\ log[k].op = "insert" => i = k
<1>1. \A i \in OrderChanges(o) : i \in Nat
  BY PositionTypes DEF OrderChanges
<1>2. \A i \in OrderChanges(o) : log[i].op # "delete"
  BY DEF SourceGone, OrderDeletes, OrderChanges
<1>3. PICK k \in OrderChanges(o) :
        /\ IsLast(k, OrderChanges(o))
        /\ orders[o] = IF log[k].op = "delete" THEN None ELSE log[k].value
  BY DEF SourceInv, LastChangeHolds
<1>4. k \in staged \cap OrderChanges(o) /\ IsLast(k, staged \cap OrderChanges(o))
  BY <1>3, LastOfStaged
<1>5. ASSUME NEW i \in staged \cap OrderChanges(o), log[k].op = "insert"
      PROVE  i = k
  <2>1. k <= i
    BY <1>5 DEF SourceInv, InsertsFollowDeletes
  <2>2. i <= k
    BY <1>4 DEF IsLast
  <2> QED BY <1>1, <2>1, <2>2
<1> QED BY <1>2, <1>3, <1>4, <1>5

\* And when its line is not staged, no two of them are updates.
LEMMA OrderDetermined ==
    ASSUME TypeOK, NEW l \in Lines, OrderHeld(l),
           staged \cap LineChanges(l) = {},
           NEW i \in staged \cap OrderChanges(l[1]),
           NEW j \in staged \cap OrderChanges(l[1]),
           log[i].op = "update", log[j].op = "update"
    PROVE  i = j
<1>1. i \in StagedIn("orders") /\ j \in StagedIn("orders")
      /\ log[i].order = l[1] /\ log[j].order = l[1]
  BY DEF StagedIn, OrderChanges
<1>2. SUFFICES ASSUME i # j PROVE FALSE
  OBVIOUS
<1>3. l \in UndeterminedOrders(StagedIn("orders"))
  BY <1>1, <1>2 DEF UndeterminedOrders
<1>4. PICK k \in StagedIn("details") : LineOf(k) = l
  BY <1>3 DEF OrderHeld
<1>5. k \in staged \cap LineChanges(l)
  <2>1. staged \subseteq DOMAIN log
    BY PositionTypes, StagedPositions DEF TypeOK
  <2> QED BY <1>4, <2>1 DEF StagedIn, LineChanges
<1> QED BY <1>5

\* The rows the orders side writes for a line, and those the lines side does.
LEMMA OrderRowsOf ==
    ASSUME TypeOK, NEW op \in Ops, NEW l \in Lines
    PROVE  /\ \A b \in OrderRows(op) : b.row \in Rows
           /\ \A b \in OrderRows(op) : b.line = l =>
                 /\ snapLines[l] # None
                 /\ \E i \in staged \cap OrderChanges(l[1]) :
                       /\ log[i].op = op
                       /\ b.row = [freight |-> log[i].value, qty |-> snapLines[l],
                                   deleted |-> FALSE]
           /\ \A i \in staged \cap OrderChanges(l[1]) :
                 log[i].op = op /\ snapLines[l] # None =>
                     \E b \in OrderRows(op) : b.line = l
<1>1. staged \subseteq DOMAIN log
  BY PositionTypes, StagedPositions DEF TypeOK
<1>2. ASSUME NEW b \in OrderRows(op), b.line = l
      PROVE  /\ snapLines[l] # None
             /\ \E i \in staged \cap OrderChanges(l[1]) :
                   /\ log[i].op = op
                   /\ b.row = [freight |-> log[i].value, qty |-> snapLines[l],
                               deleted |-> FALSE]
  <2>1. PICK x \in Staged("orders", op) \X Lines :
          /\ x[2][1] = log[x[1]].order /\ snapLines[x[2]] # None
          /\ b = [line |-> x[2],
                  row  |-> [freight |-> log[x[1]].value, qty |-> snapLines[x[2]],
                            deleted |-> FALSE]]
    BY DEF OrderRows
  <2>2. x[2] = l /\ x[1] \in Staged("orders", op)
    BY <1>2, <2>1
  <2>3. x[1] \in staged \cap OrderChanges(l[1]) /\ log[x[1]].op = op
    BY <1>1, <2>1, <2>2 DEF Staged, OrderChanges
  <2> QED BY <2>1, <2>2, <2>3
<1>3. ASSUME NEW i \in staged \cap OrderChanges(l[1]), log[i].op = op,
             snapLines[l] # None
      PROVE  \E b \in OrderRows(op) : b.line = l
  <2>1. PICK x \in Staged("orders", op) \X Lines : x = <<i, l>>
    BY <1>3 DEF Staged, OrderChanges
  <2>2. x[1] = i /\ x[2] = l
    BY <2>1
  <2> DEFINE b == [line |-> x[2],
                   row  |-> [freight |-> log[x[1]].value, qty |-> snapLines[x[2]],
                             deleted |-> FALSE]]
  <2>3. x[2][1] = log[x[1]].order /\ snapLines[x[2]] # None
    BY <1>3, <2>2 DEF OrderChanges
  <2>4. x \in {y \in Staged("orders", op) \X Lines :
                y[2][1] = log[y[1]].order /\ snapLines[y[2]] # None}
    BY <2>3
  <2>5. b \in OrderRows(op)
    BY <2>4 DEF OrderRows
  <2>6. b.line = l
    BY <2>2
  <2> QED BY <2>5, <2>6
<1> QED BY <1>2, <1>3, OrderRowsType

LEMMA LineRowsOf ==
    ASSUME TypeOK, NEW op \in Ops, NEW l \in Lines
    PROVE  /\ \A b \in LineRows(op) : b.row \in Rows
           /\ \A b \in LineRows(op) : b.line = l =>
                 \E i \in staged \cap LineChanges(l) :
                    /\ log[i].op = op
                    /\ b.row = [freight |-> snapOrders[l[1]], qty |-> log[i].value,
                                deleted |-> op = "delete"]
           /\ \A i \in staged \cap LineChanges(l) :
                 log[i].op = op /\ snapOrders[l[1]] # None =>
                     \E b \in LineRows(op) : b.line = l
<1>1. staged \subseteq DOMAIN log
  BY PositionTypes, StagedPositions DEF TypeOK
<1>2. ASSUME NEW b \in LineRows(op), b.line = l
      PROVE  \E i \in staged \cap LineChanges(l) :
                /\ log[i].op = op
                /\ b.row = [freight |-> snapOrders[l[1]], qty |-> log[i].value,
                            deleted |-> op = "delete"]
  <2>1. PICK i \in Staged("details", op) :
          b = [line |-> LineOf(i),
               row  |-> [freight |-> snapOrders[log[i].order],
                         qty |-> log[i].value, deleted |-> op = "delete"]]
    BY DEF LineRows
  <2>2. LineOf(i) = l /\ log[i].order = l[1]
    BY <1>2, <2>1 DEF LineOf
  <2>3. i \in staged \cap LineChanges(l) /\ log[i].op = op
    BY <1>1, <2>2 DEF Staged, LineChanges
  <2> QED BY <2>1, <2>2, <2>3
<1>3. ASSUME NEW i \in staged \cap LineChanges(l), log[i].op = op,
             snapOrders[l[1]] # None
      PROVE  \E b \in LineRows(op) : b.line = l
  <2> DEFINE b == [line |-> LineOf(i),
                   row  |-> [freight |-> snapOrders[log[i].order],
                             qty |-> log[i].value, deleted |-> op = "delete"]]
  <2>1. LineOf(i) = l /\ log[i].order = l[1]
    BY DEF LineChanges, LineOf
  <2>2. i \in Staged("details", op)
    BY <1>3 DEF Staged, LineChanges
  <2>3. b \in LineRows(op)
    BY <1>3, <2>1, <2>2 DEF LineRows
  <2> QED BY <2>1, <2>3
<1> QED BY <1>2, <1>3, LineRowsType

\* Writing a batch, as far as one set of good rows of one line is concerned.
LEMMA WriteNewest ==
    ASSUME TypeOK, KeysOpened, NEW batch, WriteToDw(batch),
           \A b \in batch : b.row \in Rows,
           NEW l \in Lines, NEW R,
           \A b \in batch : b.line = l => b.row \in R,
           NewestIs(l, R) \/ \E b \in batch : b.line = l
    PROVE  NewestIs(l, R)'
<1>1. CASE \E b \in batch : b.line = l
  <2>1. PICK n \in RowsOf(l)' :
          /\ IsLast(n, RowsOf(l)')
          /\ \E b \in batch : b.line = l /\ facts'[<<l, n>>] = b.row
    BY <1>1, WriteEffect
  <2> QED BY <2>1 DEF NewestIs, IsLast
<1>2. CASE \A b \in batch : b.line # l
  <2>1. /\ RowsOf(l)' = RowsOf(l)
        /\ \A n \in RowsOf(l) : facts'[<<l, n>>] = facts[<<l, n>>]
    BY <1>2, WriteEffect, RowsKept
  <2>2. NewestIs(l, R)
    BY <1>2
  <2> QED BY <2>1, <2>2 DEF NewestIs, IsLast
<1> QED BY <1>1, <1>2

\* What a step of stage two that moves no watermark says of the same changes.
LEMMA StageTwoFrame ==
    ASSUME UNCHANGED <<orders, lines, log, wm, staged>>,
           pc \in StageTwo, pc' \in StageTwo, NEW l
    PROVE  /\ LineChanges(l)' = LineChanges(l)
           /\ OrderChanges(l[1])' = OrderChanges(l[1])
           /\ Settled(LineChanges(l))' <=> Settled(LineChanges(l))
           /\ Settled(OrderChanges(l[1]))' <=> Settled(OrderChanges(l[1]))
           /\ AppliedAgain(staged \cap LineChanges(l))' <=>
                    AppliedAgain(staged \cap LineChanges(l))
           /\ AppliedAgain(staged \cap OrderChanges(l[1]))' <=>
                    AppliedAgain(staged \cap OrderChanges(l[1]))
           /\ SourceRow(l)' = SourceRow(l)
<1>1. LineChanges(l)' = LineChanges(l) /\ OrderChanges(l[1])' = OrderChanges(l[1])
  BY DEF LineChanges, OrderChanges, LineOf
<1>2. \A i : Acknowledged(i)' <=> Acknowledged(i)
  BY DEF Acknowledged, Lsn
<1>3. SourceRow(l)' = SourceRow(l)
  BY DEF SourceRow
<1> QED BY <1>1, <1>2, <1>3 DEF Settled, AppliedAgain

\* The orders side leaves a line that is gone alone.
LEMMA GoneByOrders ==
    ASSUME TypeOK, KeysOpened, NEW l \in Lines, LineHeld(l), GoneLine(l),
           NEW op \in {"insert", "update"}, NEW here,
           NEW next \in {"ordersUpdate", "detailsInsert"},
           ApplyOrders(op, here, next), pc \in StageTwo
    PROVE  GoneLine(l)'
<1> USE DEF Step, source, staging
<1>1. /\ WriteToDw(OrderRows(op)) /\ pc' = next /\ pc' \in StageTwo
      /\ UNCHANGED <<orders, lines, log, wm, staged, snapLines>>
  BY DEF ApplyOrders, StageTwo
<1> SUFFICES ASSUME lines[l] = None, orders[l[1]] # None, Settled(LineChanges(l))',
                    LineDone(l)' \/ AppliedAgain(staged \cap LineChanges(l))'
             PROVE  (RowsOf(l) = {} \/ NewestIs(l, DeletedRows))'
  BY <1>1 DEF GoneLine, GoneDue
<1>2. ~LineDone(l)'
  <2>1. \A k \in LineChanges(l) : log[k].table = "details"
    BY DEF LineChanges
  <2> QED BY <1>1, <2>1, StageTwoFrame DEF LineDone, LastApplied, HasApplied, Marking
<1>3. RowsOf(l) = {} \/ NewestIs(l, DeletedRows)
  BY <1>1, <1>2, StageTwoFrame DEF GoneLine, GoneDue
<1>4. \A b \in OrderRows(op) : b.row \in Rows /\ b.line # l
  <2> SUFFICES ASSUME NEW b \in OrderRows(op), b.line = l PROVE FALSE
    BY OrderRowsOf
  <2>1. /\ snapLines[l] # None
        /\ \E i \in staged \cap OrderChanges(l[1]) :
              /\ log[i].op = op
              /\ b.row = [freight |-> log[i].value, qty |-> snapLines[l],
                          deleted |-> FALSE]
    BY OrderRowsOf
  <2>2. PICK i \in staged \cap OrderChanges(l[1]) : log[i].op = op
    BY <2>1
  <2>3. l[1] \in Affected
    BY <2>2 DEF Affected, Staged, OrderChanges
  <2>4. Read(LineChanges(l))
    BY <1>1, StageTwoFrame DEF Settled, Read
  <2> QED BY <2>1, <2>3, <2>4 DEF LineHeld
<1>5. /\ RowsOf(l)' = RowsOf(l)
      /\ \A n \in RowsOf(l) : facts'[<<l, n>>] = facts[<<l, n>>]
  BY <1>1, <1>4, WriteEffect, RowsKept
<1> QED BY <1>3, <1>5 DEF NewestIs, IsLast

\* The lines side deletes it, once and for all: its last change is a deletion.
LEMMA GoneByLines ==
    ASSUME TypeOK, SourceInv, KeysOpened, NEW l \in Lines, LineHeld(l), GoneLine(l),
           NEW op \in Ops, NEW here, NEW next \in StageTwo,
           ApplyLines(op, here, next), pc \in StageTwo,
           next = "tombstone" => op = "delete",
           next \notin Marking
    PROVE  GoneLine(l)'
<1> USE DEF Step, source, staging
<1>1. /\ WriteToDw(LineRows(op)) /\ pc' = next /\ pc' \in StageTwo
      /\ UNCHANGED <<orders, lines, log, wm, staged, snapOrders>>
  BY DEF ApplyLines
<1> SUFFICES ASSUME lines[l] = None, orders[l[1]] # None, Settled(LineChanges(l))',
                    LineDone(l)' \/ AppliedAgain(staged \cap LineChanges(l))'
             PROVE  (RowsOf(l) = {} \/ NewestIs(l, DeletedRows))'
  BY <1>1 DEF GoneLine, GoneDue
<1> DEFINE h == staged \cap LineChanges(l)
<1>2. Settled(LineChanges(l)) /\ LineChanges(l)' = LineChanges(l)
      /\ (AppliedAgain(h)' => AppliedAgain(h))
  BY <1>1, StageTwoFrame
<1>3. \A b \in LineRows(op) : b.row \in Rows
  BY LineRowsOf
<1>4. CASE \A b \in LineRows(op) : b.line # l
  <2>1. /\ RowsOf(l)' = RowsOf(l)
        /\ \A n \in RowsOf(l) : facts'[<<l, n>>] = facts[<<l, n>>]
    BY <1>1, <1>3, <1>4, WriteEffect, RowsKept
  <2>2. CASE AppliedAgain(h)
    <3>1. RowsOf(l) = {} \/ NewestIs(l, DeletedRows)
      BY <1>1, <1>2, <2>2 DEF GoneLine, GoneDue
    <3> QED BY <2>1, <3>1 DEF NewestIs, IsLast
  <2>3. CASE LineDone(l)'
    <3>1. PICK k \in h : IsLast(k, h) /\ HasApplied(log[k].table, log[k].op)'
      BY <1>1, <1>2, <2>3 DEF LineDone, LastApplied
    <3>2. log[k].op = "delete"
      <4>1. PICK j \in h : /\ IsLast(j, h)
                           /\ lines[l] = IF log[j].op = "delete" THEN None
                                         ELSE log[j].value
        BY <1>2, <3>1, LineStaged
      <4>2. j \in Nat /\ k \in Nat /\ log[j].value # None
        BY PositionTypes, LogEntry, NoneAssumption DEF LineChanges
      <4>3. j = k
        BY <3>1, <4>1, <4>2 DEF IsLast
      <4> QED BY <4>1, <4>2, <4>3
    <3>3. log[k].table = "details"
      BY DEF LineChanges
    <3>4. op = "delete"
      BY <1>1, <3>1, <3>2, <3>3 DEF HasApplied
    <3>5. log[k].order = l[1] /\ l[1] \in Affected
      BY <3>3 DEF LineChanges, LineOf, Affected, Staged
    <3>6. snapOrders[l[1]] # None
      BY <3>5 DEF LineHeld
    <3> QED BY <1>4, <3>2, <3>4, <3>6, LineRowsOf
  <2> QED BY <1>1, <1>2, <2>2, <2>3
<1>5. CASE \E b \in LineRows(op) : b.line = l
  <2>1. op = "delete"
    <3>1. PICK b \in LineRows(op) : b.line = l
      BY <1>5
    <3>2. PICK i \in h :
            /\ log[i].op = op
            /\ b.row = [freight |-> snapOrders[l[1]], qty |-> log[i].value,
                        deleted |-> op = "delete"]
      BY <3>1, LineRowsOf
    <3>3. PICK j \in h : /\ IsLast(j, h)
                         /\ lines[l] = IF log[j].op = "delete" THEN None
                                       ELSE log[j].value
      BY <1>2, <3>2, LineStaged
    <3>4. j \in Nat /\ log[j].value # None /\ log[j].table = "details"
      BY PositionTypes, LogEntry, NoneAssumption DEF LineChanges
    <3>5. log[j].op = "delete"
      BY <3>3, <3>4
    <3>6. CASE AppliedAgain(h)
      BY <3>2, <3>3, <3>5, <3>6 DEF AppliedAgain
    <3>7. CASE LineDone(l)'
      <4>1. PICK k \in h : IsLast(k, h) /\ HasApplied(log[k].table, log[k].op)'
        BY <1>1, <1>2, <3>7 DEF LineDone, LastApplied
      <4>2. k = j
        <5>1. k \in Nat
          BY PositionTypes DEF LineChanges
        <5> QED BY <3>3, <3>4, <4>1, <5>1 DEF IsLast
      <4>3. pc' = "tombstone"
        BY <1>1, <3>4, <3>5, <4>1, <4>2 DEF HasApplied
      <4> QED BY <1>1, <4>3
    <3> QED BY <1>1, <1>2, <3>6, <3>7
  <2>2. \A b \in LineRows(op) : b.line = l => b.row \in DeletedRows
    <3> SUFFICES ASSUME NEW b \in LineRows(op), b.line = l PROVE b.row.deleted
      BY <1>3 DEF DeletedRows
    <3>1. PICK i \in h :
            /\ log[i].op = op
            /\ b.row = [freight |-> snapOrders[l[1]], qty |-> log[i].value,
                        deleted |-> op = "delete"]
      BY LineRowsOf
    <3>2. b.row.deleted = (op = "delete")
      BY <3>1
    <3> QED BY <2>1, <3>2
  <2>3. NewestIs(l, DeletedRows)'
    BY <1>1, <1>3, <1>5, <2>2, WriteNewest
  <2> QED BY <2>3
<1> QED BY <1>4, <1>5

\* The orders side writes what the source has, or nothing, of a line that is
\* there: freight from its last change, quantity from the snapshot.
LEMMA PresentByOrders ==
    ASSUME TypeOK, SourceInv, SourceGone, KeysOpened,
           NEW l \in Lines, LineHeld(l), OrderHeld(l), PresentLine(l),
           NEW op \in {"insert", "update"}, NEW here, NEW next \in StageTwo,
           ApplyOrders(op, here, next), pc \in StageTwo,
           op = "insert" => next = "ordersUpdate",
           op = "update" => here = "ordersUpdate" /\ next = "detailsInsert"
    PROVE  PresentLine(l)'
<1> USE DEF Step, source, staging
<1>1. /\ WriteToDw(OrderRows(op)) /\ pc = here /\ pc' = next /\ pc' \in StageTwo
      /\ UNCHANGED <<orders, lines, log, wm, staged, snapLines>>
  BY DEF ApplyOrders
<1> SUFFICES ASSUME lines[l] # None,
                    Settled(LineChanges(l))', Settled(OrderChanges(l[1]))',
                    \/ LineDone(l)' \/ OrderDone(l)'
                    \/ /\ AppliedAgain(staged \cap LineChanges(l))'
                       /\ AppliedAgain(staged \cap OrderChanges(l[1]))'
             PROVE  NewestIs(l, {SourceRow(l)})'
  BY <1>1 DEF PresentLine, PresentDue
<1> DEFINE h == staged \cap LineChanges(l)
           g == staged \cap OrderChanges(l[1])
<1>2. /\ Settled(LineChanges(l)) /\ LineChanges(l)' = LineChanges(l)
      /\ Settled(OrderChanges(l[1])) /\ OrderChanges(l[1])' = OrderChanges(l[1])
      /\ AppliedAgain(h)' => AppliedAgain(h)
      /\ AppliedAgain(g)' => AppliedAgain(g)
      /\ SourceRow(l)' = SourceRow(l)
  BY <1>1, StageTwoFrame
<1>3. l[1] \in Orders /\ orders[l[1]] # None
  BY DEF SourceInv, LastChangeHolds, Lines
<1>4. /\ \A i \in g : log[i].table = "orders" /\ i \in Nat
      /\ \A i \in h : log[i].table = "details"
  BY PositionTypes DEF OrderChanges, LineChanges
<1>5. pc' \in {"ordersUpdate", "detailsInsert"} /\ ~LineDone(l)'
  <2>1. pc' \in {"ordersUpdate", "detailsInsert"}
    BY <1>1
  <2> QED BY <1>1, <1>2, <1>4, <2>1 DEF LineDone, LastApplied, HasApplied, Marking
<1>6. OrderDone(l)' =>
        h = {} /\ \E k \in g : IsLast(k, g) /\ HasApplied("orders", log[k].op)'
  BY <1>1, <1>2, <1>4 DEF OrderDone, LastApplied
<1>7. \A b \in OrderRows(op) : b.row \in Rows
  BY OrderRowsOf
<1>8. PICK R : R = {SourceRow(l)}
  OBVIOUS
<1>9. CASE \A i \in g : log[i].op # op
  <2>1. \A b \in OrderRows(op) : b.line # l
    <3> SUFFICES ASSUME NEW b \in OrderRows(op), b.line = l PROVE FALSE
      OBVIOUS
    <3>1. \E i \in g : /\ log[i].op = op
                       /\ b.row = [freight |-> log[i].value, qty |-> snapLines[l],
                                   deleted |-> FALSE]
      BY OrderRowsOf
    <3> QED BY <1>9, <3>1
  <2>2. NewestIs(l, R)
    <3>1. CASE OrderDone(l)'
      <4>1. PICK k \in g : IsLast(k, g) /\ HasApplied("orders", log[k].op)'
        BY <1>6, <3>1
      <4>2. HasApplied("orders", log[k].op)
        <5>1. log[k].op \in Ops /\ log[k].op # op
          BY <1>9, PositionTypes DEF OrderChanges
        <5>2. CASE op = "insert"
          BY <1>1, <4>1, <5>1, <5>2 DEF HasApplied, Marking
        <5>3. CASE op = "update"
          BY <1>1, <4>1, <5>1, <5>3 DEF HasApplied, Marking
        <5> QED BY <5>2, <5>3
      <4>3. OrderDone(l)
        BY <1>4, <1>6, <3>1, <4>1, <4>2 DEF OrderDone, LastApplied
      <4> QED BY <1>1, <1>2, <1>8, <4>3 DEF PresentLine, PresentDue
    <3>2. CASE ~OrderDone(l)'
      <4>1. AppliedAgain(h) /\ AppliedAgain(g)
        BY <1>2, <1>5, <3>2
      <4> QED BY <1>1, <1>2, <1>8, <4>1 DEF PresentLine, PresentDue
    <3> QED BY <3>1, <3>2
  <2>3. NewestIs(l, R)'
    BY <1>1, <1>7, <2>1, <2>2, WriteNewest
  <2> QED BY <1>2, <1>8, <2>3 DEF NewestIs
<1>10. ASSUME NEW i \in g, log[i].op = op
       PROVE  NewestIs(l, {SourceRow(l)})'
  <2>1. PICK k \in g : /\ IsLast(k, g) /\ orders[l[1]] = log[k].value
                       /\ \A j \in g : /\ log[j].op # "delete"
                                       /\ log[k].op = "insert" => j = k
    <3>1. Gapless(OrderChanges(l[1])) /\ g # {}
      BY <1>10 DEF OrderHeld
    <3> QED BY <1>2, <1>3, <3>1, OrderStaged
  <2>2. ASSUME NEW j \in g, log[j].op = op PROVE j = k
    <3>1. CASE AppliedAgain(g)
      BY <3>1 DEF AppliedAgain
    <3>2. CASE OrderDone(l)'
      <4>1. h = {}
        BY <1>6, <3>2
      <4>2. PICK m \in g : IsLast(m, g) /\ HasApplied("orders", log[m].op)'
        BY <1>6, <3>2
      <4>3. m = k
        BY <1>4, <2>1, <4>2 DEF IsLast
      <4>4. CASE op = "insert"
        BY <1>1, <2>1, <2>2, <4>2, <4>3, <4>4 DEF HasApplied, Marking
      <4>5. CASE op = "update"
        <5>1. log[k].op = "update"
          <6>1. log[k].op \in Ops /\ log[k].op # "delete"
            BY <2>1, PositionTypes DEF OrderChanges
          <6> QED BY <2>1, <2>2, <4>5, <6>1
        <5> QED BY <2>2, <4>1, <4>5, <5>1, OrderDetermined
      <4> QED BY <4>4, <4>5
    <3> QED BY <1>2, <1>5, <3>1, <3>2
  <2>3. l[1] \in Affected /\ Read(LineChanges(l))
    <3>1. l[1] \in Affected
      BY <1>10 DEF Affected, Staged, OrderChanges
    <3> QED BY <1>2, <3>1 DEF Settled, Read
  <2>4. snapLines[l] = lines[l]
    BY <2>3 DEF LineHeld
  <2>5. \A b \in OrderRows(op) : b.line = l => b.row \in R
    <3> SUFFICES ASSUME NEW b \in OrderRows(op), b.line = l PROVE b.row = SourceRow(l)
      BY <1>8
    <3>1. PICK j \in g : /\ log[j].op = op
                         /\ b.row = [freight |-> log[j].value, qty |-> snapLines[l],
                                     deleted |-> FALSE]
      BY OrderRowsOf
    <3>2. j = k
      BY <2>2, <3>1
    <3> QED BY <2>1, <2>4, <3>1, <3>2 DEF SourceRow
  <2>6. \E b \in OrderRows(op) : b.line = l
    BY <1>10, <2>4, OrderRowsOf
  <2>7. NewestIs(l, R)'
    BY <1>1, <1>7, <2>5, <2>6, WriteNewest
  <2> QED BY <1>2, <1>8, <2>7 DEF NewestIs
<1> QED BY <1>9, <1>10

\* And so does the lines side: quantity from its last change, freight from the
\* snapshot.
LEMMA PresentByLines ==
    ASSUME TypeOK, SourceInv, SourceGone, KeysOpened,
           NEW l \in Lines, LineHeld(l), OrderHeld(l), PresentLine(l),
           NEW op \in Ops, NEW here \in StageTwo, NEW next \in StageTwo,
           ApplyLines(op, here, next),
           op = "insert" => here = "detailsInsert" /\ next = "detailsUpdate",
           op = "update" => here = "detailsUpdate" /\ next = "detailsDelete",
           op = "delete" => here = "detailsDelete" /\ next = "tombstone"
    PROVE  PresentLine(l)'
<1> USE DEF Step, source, staging
<1>1. /\ WriteToDw(LineRows(op)) /\ pc = here /\ pc' = next
      /\ pc \in StageTwo /\ pc' \in StageTwo
      /\ UNCHANGED <<orders, lines, log, wm, staged, snapOrders>>
  BY DEF ApplyLines
<1> SUFFICES ASSUME lines[l] # None,
                    Settled(LineChanges(l))', Settled(OrderChanges(l[1]))',
                    \/ LineDone(l)' \/ OrderDone(l)'
                    \/ /\ AppliedAgain(staged \cap LineChanges(l))'
                       /\ AppliedAgain(staged \cap OrderChanges(l[1]))'
             PROVE  NewestIs(l, {SourceRow(l)})'
  BY <1>1 DEF PresentLine, PresentDue
<1> DEFINE h == staged \cap LineChanges(l)
           g == staged \cap OrderChanges(l[1])
<1>2. /\ Settled(LineChanges(l)) /\ LineChanges(l)' = LineChanges(l)
      /\ Settled(OrderChanges(l[1])) /\ OrderChanges(l[1])' = OrderChanges(l[1])
      /\ AppliedAgain(h)' => AppliedAgain(h)
      /\ AppliedAgain(g)' => AppliedAgain(g)
      /\ SourceRow(l)' = SourceRow(l)
  BY <1>1, StageTwoFrame
<1>3. l[1] \in Orders /\ orders[l[1]] # None
  BY DEF SourceInv, LastChangeHolds, Lines
<1>4. /\ \A i \in g : log[i].table = "orders" /\ i \in Nat /\ log[i].op \in Ops
      /\ \A i \in h : log[i].table = "details" /\ i \in Nat /\ log[i].op \in Ops
  BY PositionTypes DEF OrderChanges, LineChanges
<1>5. OrderDone(l)' =>
        h = {} /\ \E k \in g : IsLast(k, g) /\ HasApplied("orders", log[k].op)'
  BY <1>1, <1>2, <1>4 DEF OrderDone, LastApplied
<1>6. LineDone(l)' => \E k \in h : IsLast(k, h) /\ HasApplied("details", log[k].op)'
  BY <1>1, <1>2, <1>4 DEF LineDone, LastApplied
<1>7. \A b \in LineRows(op) : b.row \in Rows
  BY LineRowsOf
<1>8. PICK R : R = {SourceRow(l)}
  OBVIOUS
<1>9. ASSUME LineDone(l)'
      PROVE  \E k \in h : /\ IsLast(k, h) /\ HasApplied("details", log[k].op)'
                          /\ log[k].op # "delete"
                          /\ \A i \in h :
                                /\ log[i].op # "delete"
                                /\ log[i].op = log[k].op \/ log[k].op = "insert" => i = k
  <2>1. PICK m \in h : IsLast(m, h) /\ HasApplied("details", log[m].op)'
    BY <1>6, <1>9
  <2>2. PICK k \in h : /\ IsLast(k, h)
                       /\ lines[l] = IF log[k].op = "delete" THEN None ELSE log[k].value
                       /\ log[k].op # "delete" =>
                            \A i \in h :
                                /\ log[i].op # "delete"
                                /\ log[i].op = log[k].op \/ log[k].op = "insert" => i = k
    BY <1>1, <1>2, <2>1, LineStaged
  <2>3. m = k
    BY <1>4, <2>1, <2>2 DEF IsLast
  <2> QED BY <2>1, <2>2, <2>3
<1>10. CASE \A i \in h : log[i].op # op
  <2>1. \A b \in LineRows(op) : b.line # l
    <3> SUFFICES ASSUME NEW b \in LineRows(op), b.line = l PROVE FALSE
      OBVIOUS
    <3>1. \E i \in h : /\ log[i].op = op
                       /\ b.row = [freight |-> snapOrders[l[1]], qty |-> log[i].value,
                                   deleted |-> op = "delete"]
      BY LineRowsOf
    <3> QED BY <1>10, <3>1
  <2>2. NewestIs(l, R)
    <3>1. CASE OrderDone(l)'
      <4>1. PICK k \in g : IsLast(k, g) /\ HasApplied("orders", log[k].op)'
        BY <1>5, <3>1
      <4>2. log[k].op # "delete"
        BY <1>2, <1>3, <4>1, OrderStaged DEF OrderHeld
      <4>3. HasApplied("orders", log[k].op)
        BY <1>1, <1>4, <4>2 DEF HasApplied
      <4>4. OrderDone(l)
        BY <1>4, <1>5, <3>1, <4>1, <4>3 DEF OrderDone, LastApplied
      <4> QED BY <1>1, <1>2, <1>8, <4>4 DEF PresentLine, PresentDue
    <3>2. CASE LineDone(l)'
      <4>1. PICK k \in h : /\ IsLast(k, h) /\ HasApplied("details", log[k].op)'
                           /\ log[k].op # "delete"
        BY <1>9, <3>2
      <4>2. HasApplied("details", log[k].op)
        <5>1. log[k].op \in {"insert", "update"} /\ log[k].op # op
          BY <1>4, <1>10, <4>1
        <5>2. CASE op = "insert"
          BY <1>1, <4>1, <5>1, <5>2 DEF HasApplied, Marking
        <5>3. CASE op = "update"
          BY <1>1, <4>1, <5>1, <5>3 DEF HasApplied, Marking
        <5>4. CASE op = "delete"
          BY <1>1, <4>1, <5>1, <5>4 DEF HasApplied, Marking
        <5> QED BY <5>2, <5>3, <5>4
      <4>3. LineDone(l)
        BY <1>4, <4>1, <4>2 DEF LineDone, LastApplied
      <4> QED BY <1>1, <1>2, <1>8, <4>3 DEF PresentLine, PresentDue
    <3>3. CASE ~OrderDone(l)' /\ ~LineDone(l)'
      <4>1. AppliedAgain(h) /\ AppliedAgain(g)
        BY <1>2, <3>3
      <4> QED BY <1>1, <1>2, <1>8, <4>1 DEF PresentLine, PresentDue
    <3> QED BY <3>1, <3>2, <3>3
  <2>3. NewestIs(l, R)'
    BY <1>1, <1>7, <2>1, <2>2, WriteNewest
  <2> QED BY <1>2, <1>8, <2>3 DEF NewestIs
<1>11. ASSUME NEW i \in h, log[i].op = op
       PROVE  NewestIs(l, {SourceRow(l)})'
  <2>1. PICK k \in h : /\ IsLast(k, h) /\ lines[l] = log[k].value
                       /\ \A j \in h : log[j].op # "delete"
    BY <1>1, <1>2, <1>11, LineStaged
  <2>2. ASSUME NEW j \in h, log[j].op = op PROVE j = k
    <3>1. CASE AppliedAgain(h)
      BY <3>1 DEF AppliedAgain
    <3>2. CASE LineDone(l)'
      <4>1. PICK m \in h : /\ IsLast(m, h) /\ HasApplied("details", log[m].op)'
                           /\ log[m].op # "delete"
                           /\ \A x \in h :
                                log[x].op = log[m].op \/ log[m].op = "insert" => x = m
        BY <1>9, <3>2
      <4>2. m = k
        BY <1>4, <2>1, <4>1 DEF IsLast
      <4>3. CASE op = "insert"
        BY <1>1, <2>2, <4>1, <4>2, <4>3 DEF HasApplied, Marking
      <4>4. CASE op = "update"
        BY <1>1, <1>4, <2>2, <4>1, <4>2, <4>4 DEF HasApplied, Marking
      <4>5. op # "delete"
        BY <2>1, <2>2
      <4> QED BY <4>3, <4>4, <4>5
    <3>3. h # {}
      OBVIOUS
    <3> QED BY <1>2, <1>5, <3>1, <3>2, <3>3
  <2>3. op # "delete"
    BY <1>11, <2>1
  <2>4. l[1] \in Affected /\ Read(OrderChanges(l[1]))
    <3>1. l[1] \in Affected
      BY <1>4, <1>11 DEF Affected, Staged, LineChanges, LineOf
    <3> QED BY <1>2, <3>1 DEF Settled, Read
  <2>5. snapOrders[l[1]] = orders[l[1]]
    BY <2>4 DEF OrderHeld
  <2>6. \A b \in LineRows(op) : b.line = l => b.row \in R
    <3> SUFFICES ASSUME NEW b \in LineRows(op), b.line = l PROVE b.row = SourceRow(l)
      BY <1>8
    <3>1. PICK j \in h : /\ log[j].op = op
                         /\ b.row = [freight |-> snapOrders[l[1]], qty |-> log[j].value,
                                     deleted |-> op = "delete"]
      BY LineRowsOf
    <3>2. j = k /\ (op = "delete") = FALSE
      BY <2>2, <2>3, <3>1
    <3> QED BY <2>1, <2>5, <3>1, <3>2 DEF SourceRow
  <2>7. \E b \in LineRows(op) : b.line = l
    BY <1>3, <1>11, <2>5, LineRowsOf
  <2>8. NewestIs(l, R)'
    BY <1>1, <1>7, <2>6, <2>7, WriteNewest
  <2> QED BY <1>2, <1>8, <2>8 DEF NewestIs
<1> QED BY <1>10, <1>11

\* Tombstones: dead rows stay dead, and no row appears or disappears.
LEMMA TombstonedRows ==
    ASSUME TypeOK, TombstoneDeletedOrders, NEW l \in Lines
    PROVE  /\ RowsOf(l)' = RowsOf(l)
           /\ \A n \in RowsOf(l) :
                 /\ facts[<<l, n>>] \in DeletedRows => facts'[<<l, n>>] \in DeletedRows
                 /\ (\A i \in OrderDeletes : log[i].order # l[1]) =>
                        facts'[<<l, n>>] = facts[<<l, n>>]
<1> DEFINE gone == {log[i].order : i \in Staged("orders", "delete")}
<1>1. facts' = [k \in FactKeys |->
                      IF k[1][1] \in gone /\ facts[k] # None
                      THEN [facts[k] EXCEPT !.deleted = TRUE] ELSE facts[k]]
  BY DEF TombstoneDeletedOrders
<1>2. (\A i \in OrderDeletes : log[i].order # l[1]) => l[1] \notin gone
  <2>1. Staged("orders", "delete") \subseteq OrderDeletes
    BY PositionTypes, StagedPositions DEF Staged, OrderDeletes
  <2> QED BY <2>1
<1>3. ASSUME NEW n \in 1..MaxVersions
      PROVE  /\ facts'[<<l, n>>] # None <=> facts[<<l, n>>] # None
             /\ facts[<<l, n>>] \in DeletedRows => facts'[<<l, n>>] \in DeletedRows
             /\ l[1] \notin gone => facts'[<<l, n>>] = facts[<<l, n>>]
  <2>1. <<l, n>> \in FactKeys
    BY DEF FactKeys
  <2>2. facts[<<l, n>>] \in Rows \cup {None}
    BY <2>1 DEF TypeOK
  <2>3. facts'[<<l, n>>] = IF l[1] \in gone /\ facts[<<l, n>>] # None
                           THEN [facts[<<l, n>>] EXCEPT !.deleted = TRUE]
                           ELSE facts[<<l, n>>]
    BY <1>1, <2>1
  <2>4. \A r \in Rows : [r EXCEPT !.deleted = TRUE] \in DeletedRows
    BY DEF Rows, DeletedRows
  <2> QED BY <2>2, <2>3, <2>4, NoneAssumption DEF DeletedRows
<1> QED BY <1>2, <1>3 DEF RowsOf

LEMMA TombstonedKeys ==
    ASSUME TypeOK, KeysOpened, TombstoneDeletedOrders
    PROVE  KeysOpened'
<1>1. version' = version
  BY DEF TombstoneDeletedOrders
<1> QED BY <1>1, TombstonedRows DEF KeysOpened, IsLast

\* An order that is there is not among the deleted ones.
LEMMA LineTombstoned ==
    ASSUME TypeOK, SourceInv, SourceGone, TombstoneDeletedOrders, NEW l \in Lines
    PROVE  /\ GoneLine(l) => GoneLine(l)'
           /\ PresentLine(l) => PresentLine(l)'
<1> USE DEF Step, source, staging
<1>1. /\ pc = "tombstone" /\ pc' = "markOrders"
      /\ pc \in StageTwo /\ pc' \in StageTwo
      /\ UNCHANGED <<orders, lines, log, wm, staged>>
  BY DEF TombstoneDeletedOrders, StageTwo
<1>2. ASSUME LineDone(l)' PROVE LineDone(l)
  <2>1. LineChanges(l)' = LineChanges(l)
    BY <1>1, StageTwoFrame
  <2>2. PICK k \in staged \cap LineChanges(l) : IsLast(k, staged \cap LineChanges(l))
    BY <1>1, <1>2, <2>1 DEF LineDone, LastApplied
  <2>3. HasApplied(log[k].table, log[k].op)
    BY <1>1 DEF HasApplied, LineChanges
  <2> QED BY <2>2, <2>3 DEF LineDone, LastApplied
<1>3. ASSUME GoneLine(l), lines[l] = None, orders[l[1]] # None, Settled(LineChanges(l))',
             LineDone(l)' \/ AppliedAgain(staged \cap LineChanges(l))'
      PROVE  (RowsOf(l) = {} \/ NewestIs(l, DeletedRows))'
  <2>1. RowsOf(l) = {} \/ NewestIs(l, DeletedRows)
    BY <1>1, <1>2, <1>3, StageTwoFrame DEF GoneLine, GoneDue
  <2> QED BY <2>1, TombstonedRows DEF NewestIs, IsLast
<1>4. ASSUME PresentLine(l), lines[l] # None,
             Settled(LineChanges(l))', Settled(OrderChanges(l[1]))',
             \/ LineDone(l)' \/ OrderDone(l)'
             \/ /\ AppliedAgain(staged \cap LineChanges(l))'
                /\ AppliedAgain(staged \cap OrderChanges(l[1]))'
      PROVE  NewestIs(l, {SourceRow(l)})'
  <2>1. l[1] \in Orders /\ orders[l[1]] # None
    BY <1>4 DEF SourceInv, LastChangeHolds, Lines
  <2>2. \A i \in OrderDeletes : log[i].order # l[1]
    BY <2>1 DEF SourceGone
  <2>3. OrderDone(l)' => OrderDone(l)
    <3>1. \A k \in OrderChanges(l[1]) : log[k].table = "orders" /\ log[k].op \in Ops
      BY PositionTypes DEF OrderChanges
    <3>2. \A k \in OrderChanges(l[1]) : log[k].op # "delete"
      BY <2>2 DEF OrderDeletes, OrderChanges
    <3>3. \A k \in OrderChanges(l[1]) : HasApplied(log[k].table, log[k].op)
      BY <1>1, <3>1, <3>2 DEF HasApplied
    <3> QED BY <1>1, <3>3, StageTwoFrame DEF OrderDone, LastApplied
  <2>4. NewestIs(l, {SourceRow(l)}) /\ SourceRow(l)' = SourceRow(l)
    BY <1>1, <1>2, <1>4, <2>3, StageTwoFrame DEF PresentLine, PresentDue
  <2> QED BY <2>2, <2>4, TombstonedRows DEF NewestIs, IsLast
<1> QED BY <1>1, <1>3, <1>4 DEF GoneLine, GoneDue, PresentLine, PresentDue

\* A step that leaves source and warehouse alone, and makes nothing due.
LEMMA LineFrame ==
    ASSUME UNCHANGED <<orders, lines, log, facts>>, NEW l
    PROVE  /\ GoneLine(l) /\ (GoneDue(l)' => GoneDue(l)) => GoneLine(l)'
           /\ PresentLine(l) /\ (PresentDue(l)' => PresentDue(l)) => PresentLine(l)'
<1>1. RowsOf(l)' = RowsOf(l) /\ SourceRow(l)' = SourceRow(l)
  BY DEF RowsOf, SourceRow
<1>2. /\ NewestIs(l, DeletedRows)' <=> NewestIs(l, DeletedRows)
      /\ NewestIs(l, {SourceRow(l)})' <=> NewestIs(l, {SourceRow(l)})
  BY <1>1 DEF NewestIs, IsLast
<1> QED BY <1>1, <1>2 DEF GoneLine, PresentLine

\* What of a line and its order a step leaves that moves no watermark.
LEMMA ChangesFrame ==
    ASSUME UNCHANGED <<log, wm>>
    PROVE  /\ \A i : Acknowledged(i)' <=> Acknowledged(i)
           /\ \A o : OrderChanges(o)' = OrderChanges(o)
           /\ \A l : LineChanges(l)' = LineChanges(l)
BY DEF LineChanges, OrderChanges, LineOf, Acknowledged, Lsn

\* Outside stage two nothing is due but what every change of was acknowledged.
LEMMA LineOutsideStageTwo ==
    ASSUME UNCHANGED <<orders, lines, log, wm, facts>>,
           pc \notin StageTwo, pc' \notin StageTwo, NEW l
    PROVE  /\ GoneLine(l) => GoneLine(l)'
           /\ PresentLine(l) => PresentLine(l)'
           /\ (\E i \in LineChanges(l) : ~Acknowledged(i)) =>
                    GoneLine(l)' /\ PresentLine(l)'
           /\ (\E i \in OrderChanges(l[1]) : ~Acknowledged(i)) => PresentLine(l)'
<1>1. /\ LineChanges(l)' = LineChanges(l) /\ OrderChanges(l[1])' = OrderChanges(l[1])
      /\ \A i : Acknowledged(i)' <=> Acknowledged(i)
  BY ChangesFrame
<1>2. /\ Settled(LineChanges(l))' => \A i \in LineChanges(l) : Acknowledged(i)
      /\ Settled(OrderChanges(l[1]))' => \A i \in OrderChanges(l[1]) : Acknowledged(i)
  BY <1>1 DEF Settled
<1>3. (GoneDue(l)' => GoneDue(l)) /\ (PresentDue(l)' => PresentDue(l))
  BY <1>2 DEF GoneDue, PresentDue, Settled
<1>4. /\ (\E i \in LineChanges(l) : ~Acknowledged(i)) => ~GoneDue(l)' /\ ~PresentDue(l)'
      /\ (\E i \in OrderChanges(l[1]) : ~Acknowledged(i)) => ~PresentDue(l)'
  BY <1>2 DEF GoneDue, PresentDue
<1> QED BY <1>3, <1>4, LineFrame DEF GoneLine, PresentLine

\* Stage two begins with nothing staged that is acknowledged, nothing applied.
LEMMA LineEntersStageTwo ==
    ASSUME UNCHANGED <<orders, lines, log, wm, facts, staged>>,
           pc \notin StageTwo, pc' = "ordersInsert",
           \A i \in staged : ~Acknowledged(i), NEW l
    PROVE  /\ GoneLine(l) => GoneLine(l)'
           /\ PresentLine(l) => PresentLine(l)'
<1>1. /\ LineChanges(l)' = LineChanges(l) /\ OrderChanges(l[1])' = OrderChanges(l[1])
      /\ \A i : Acknowledged(i)' <=> Acknowledged(i)
  BY ChangesFrame
<1>2. pc' \in StageTwo /\ ~LineDone(l)' /\ ~OrderDone(l)'
  BY DEF LineDone, OrderDone, LastApplied, HasApplied, Marking, StageTwo
<1>3. ASSUME NEW S, S' = S, Settled(S)', AppliedAgain(staged \cap S)' PROVE Settled(S)
  BY <1>1, <1>3 DEF Settled, AppliedAgain
<1>4. GoneDue(l)' => GoneDue(l)
  <2> SUFFICES ASSUME GoneDue(l)' PROVE GoneDue(l)
    OBVIOUS
  <2>1. \A i \in staged \cap LineChanges(l) : Acknowledged(i)
    BY <1>1, <1>2 DEF GoneDue, AppliedAgain
  <2>2. \A i \in LineChanges(l) : Acknowledged(i)
    BY <1>1, <2>1 DEF GoneDue, Settled
  <2> QED BY <2>2 DEF GoneDue, Settled
<1>5. PresentDue(l)' => PresentDue(l)
  <2> SUFFICES ASSUME PresentDue(l)' PROVE PresentDue(l)
    OBVIOUS
  <2>1. /\ \A i \in staged \cap LineChanges(l) : Acknowledged(i)
        /\ \A i \in staged \cap OrderChanges(l[1]) : Acknowledged(i)
    BY <1>1, <1>2 DEF PresentDue, AppliedAgain
  <2>2. /\ \A i \in LineChanges(l) : Acknowledged(i)
        /\ \A i \in OrderChanges(l[1]) : Acknowledged(i)
    BY <1>1, <2>1 DEF PresentDue, Settled
  <2> QED BY <2>2 DEF PresentDue, Settled
<1> QED BY <1>4, <1>5, LineFrame

\* A task of stage two that starts again has applied nothing yet.
LEMMA LineRetry ==
    ASSUME UNCHANGED <<orders, lines, log, wm, facts, staged>>,
           pc \in StageTwo, pc' = pc \/ pc' = "ordersInsert", NEW l
    PROVE  /\ GoneLine(l) => GoneLine(l)'
           /\ PresentLine(l) => PresentLine(l)'
<1>1. pc' \in StageTwo
  BY DEF StageTwo
<1>2. /\ LineChanges(l)' = LineChanges(l) /\ OrderChanges(l[1])' = OrderChanges(l[1])
      /\ Settled(LineChanges(l))' <=> Settled(LineChanges(l))
      /\ Settled(OrderChanges(l[1]))' <=> Settled(OrderChanges(l[1]))
      /\ AppliedAgain(staged \cap LineChanges(l))' <=>
                    AppliedAgain(staged \cap LineChanges(l))
      /\ AppliedAgain(staged \cap OrderChanges(l[1]))' <=>
                    AppliedAgain(staged \cap OrderChanges(l[1]))
  BY <1>1, StageTwoFrame
<1>3. (LineDone(l)' => LineDone(l)) /\ (OrderDone(l)' => OrderDone(l))
  <2>1. CASE pc' = pc
    BY <1>2, <2>1 DEF LineDone, OrderDone, LastApplied, HasApplied
  <2>2. CASE pc' = "ordersInsert"
    BY <2>2 DEF LineDone, OrderDone, LastApplied, HasApplied, Marking
  <2> QED BY <2>1, <2>2
<1>4. (GoneDue(l)' => GoneDue(l)) /\ (PresentDue(l)' => PresentDue(l))
  BY <1>1, <1>2, <1>3 DEF GoneDue, PresentDue
<1> QED BY <1>4, LineFrame

\* A watermark acknowledges changes of which the last, at least, is applied.
LEMMA LineMark ==
    ASSUME TypeOK, NEW t \in Tables, NEW here \in Marking, NEW next \in Marking,
           WriteWatermark(t, here, next), NEW l,
           \A i \in LineChanges(l) : Acknowledged(i)' => Acknowledged(i) \/ i \in staged
    PROVE  /\ GoneLine(l) => GoneLine(l)'
           /\ (\A i \in OrderChanges(l[1]) :
                    Acknowledged(i)' => Acknowledged(i) \/ i \in staged) =>
                (PresentLine(l) => PresentLine(l)')
<1>1. /\ UNCHANGED <<orders, lines, log, facts, staged>>
      /\ pc \in Marking /\ pc' \in Marking
      /\ pc \in StageTwo /\ pc' \in StageTwo
  BY DEF WriteWatermark, Step, source, staging, history, Marking, StageTwo
<1>2. \A u \in Tables, op \in Ops : HasApplied(u, op)
  BY <1>1 DEF HasApplied
<1>3. LineChanges(l)' = LineChanges(l) /\ OrderChanges(l[1])' = OrderChanges(l[1])
  BY <1>1 DEF LineChanges, OrderChanges, LineOf
<1>4. Settled(LineChanges(l))' => Settled(LineChanges(l))
  BY <1>1, <1>3 DEF Settled
<1>5. ASSUME NEW S \in SUBSET DOMAIN log, \A i, j \in S : i = j
      PROVE  S = {} \/ LastApplied(S)
  <2> SUFFICES ASSUME NEW k \in S PROVE LastApplied(S)
    OBVIOUS
  <2>1. k \in Nat /\ log[k].table \in Tables /\ log[k].op \in Ops
    BY PositionTypes
  <2>2. IsLast(k, S)
    BY <1>5, <2>1 DEF IsLast
  <2> QED BY <1>2, <2>1, <2>2 DEF LastApplied
<1>6. ASSUME NEW S \in SUBSET DOMAIN log, LastApplied(S)' PROVE LastApplied(S)
  <2>1. PICK k \in S : IsLast(k, S)
    BY <1>6 DEF LastApplied
  <2>2. log[k].table \in Tables /\ log[k].op \in Ops
    BY PositionTypes
  <2> QED BY <1>2, <2>1, <2>2 DEF LastApplied
<1>7. /\ staged \cap LineChanges(l) \in SUBSET DOMAIN log
      /\ staged \cap OrderChanges(l[1]) \in SUBSET DOMAIN log
      /\ LineDone(l)' => LineDone(l)
      /\ OrderDone(l)' => OrderDone(l)
  <2>1. /\ staged \cap LineChanges(l) \in SUBSET DOMAIN log
        /\ staged \cap OrderChanges(l[1]) \in SUBSET DOMAIN log
    BY DEF LineChanges, OrderChanges
  <2>2. /\ (staged \cap LineChanges(l))' = staged \cap LineChanges(l)
        /\ (staged \cap OrderChanges(l[1]))' = staged \cap OrderChanges(l[1])
    BY <1>1, <1>3
  <2> QED BY <1>1, <1>6, <2>1, <2>2 DEF LineDone, OrderDone
<1>8. AppliedAgain(staged \cap LineChanges(l))' =>
            staged \cap LineChanges(l) = {} \/ LineDone(l)
  BY <1>1, <1>3, <1>5, <1>7 DEF AppliedAgain, LineDone
<1>9. staged \cap LineChanges(l) = {} /\ AppliedAgain(staged \cap OrderChanges(l[1]))' =>
            staged \cap OrderChanges(l[1]) = {} \/ OrderDone(l)
  BY <1>1, <1>3, <1>5, <1>7 DEF AppliedAgain, OrderDone
<1>10. AppliedAgain({})
  BY DEF AppliedAgain
<1>11. GoneDue(l)' => GoneDue(l)
  BY <1>1, <1>4, <1>7, <1>8, <1>10 DEF GoneDue
<1>12. ASSUME \A i \in OrderChanges(l[1]) :
                    Acknowledged(i)' => Acknowledged(i) \/ i \in staged
       PROVE  PresentDue(l)' => PresentDue(l)
  <2>1. Settled(OrderChanges(l[1]))' => Settled(OrderChanges(l[1]))
    BY <1>1, <1>3, <1>12 DEF Settled
  <2> QED BY <1>1, <1>4, <1>7, <1>8, <1>9, <1>10, <2>1 DEF PresentDue
<1> QED BY <1>1, <1>11, <1>12, LineFrame

\* Leaving stage two: after the last step everything staged is applied; after
\* a failure, whatever is settled was applied before, and again from one change.
LEMMA LineLeavesStageTwo ==
    ASSUME TypeOK, SourceInv, UNCHANGED <<orders, lines, log, wm, facts>>,
           pc \in StageTwo, pc' = "idle", NEW l \in Lines,
           pc = "report" \/ l \notin HalfReapplied,
           Gapless(LineChanges(l))
    PROVE  /\ GoneLine(l) => GoneLine(l)'
           /\ Gapless(OrderChanges(l[1])) => (PresentLine(l) => PresentLine(l)')
<1>1. pc' \notin StageTwo
  BY DEF StageTwo
<1>2. /\ LineChanges(l)' = LineChanges(l)
      /\ OrderChanges(l[1])' = OrderChanges(l[1])
      /\ Settled(LineChanges(l))' => \A i \in LineChanges(l) : Acknowledged(i)
      /\ Settled(OrderChanges(l[1]))' => \A i \in OrderChanges(l[1]) : Acknowledged(i)
  <2>1. LineChanges(l)' = LineChanges(l) /\ OrderChanges(l[1])' = OrderChanges(l[1])
    BY ChangesFrame
  <2>2. \A i : Acknowledged(i)' <=> Acknowledged(i)
    BY ChangesFrame
  <2> QED BY <1>1, <2>1, <2>2 DEF Settled
<1>3. /\ LineChanges(l) \in SUBSET DOMAIN log
      /\ OrderChanges(l[1]) \in SUBSET DOMAIN log
      /\ LineChanges(l) # {} => \E k \in LineChanges(l) : IsLast(k, LineChanges(l))
      /\ OrderChanges(l[1]) # {} =>
            \E k \in OrderChanges(l[1]) : IsLast(k, OrderChanges(l[1]))
  <2>1. l[1] \in Orders
    BY DEF Lines
  <2>2. LineChanges(l) \in SUBSET DOMAIN log /\ OrderChanges(l[1]) \in SUBSET DOMAIN log
    BY DEF LineChanges, OrderChanges
  <2> QED BY <2>1, <2>2 DEF SourceInv, LastChangeHolds
<1>4. ASSUME pc = "report", NEW S \in SUBSET DOMAIN log, Gapless(S),
             \A i \in S : Acknowledged(i), S # {} => \E k \in S : IsLast(k, S)
      PROVE  staged \cap S = {} \/ LastApplied(staged \cap S)
  <2> SUFFICES ASSUME staged \cap S # {} PROVE LastApplied(staged \cap S)
    OBVIOUS
  <2>1. PICK k \in S : IsLast(k, S)
    BY <1>4
  <2>2. Settled(S)
    BY <1>4 DEF Settled
  <2>3. k \in staged \cap S /\ IsLast(k, staged \cap S)
    BY <1>4, <2>1, <2>2, LastOfStaged
  <2>4. HasApplied(log[k].table, log[k].op)
    BY <1>4 DEF HasApplied, Marking
  <2> QED BY <2>3, <2>4 DEF LastApplied
<1>5. ASSUME pc # "report"
      PROVE  /\ (\A i \in LineChanges(l) : Acknowledged(i)) =>
                    AppliedAgain(staged \cap LineChanges(l))
             /\ (\A i \in OrderChanges(l[1]) : Acknowledged(i)) =>
                    AppliedAgain(staged \cap OrderChanges(l[1]))
  <2>1. l \notin HalfReapplied
    BY <1>5
  <2>2. l = <<l[1], l[2]>>
    BY DEF Lines
  <2>3. ASSUME NEW i \in staged, NEW j \in staged, Acknowledged(i),
               log[i].table = log[j].table, log[i].order = l[1], log[j].order = l[1],
               log[i].product \in {None, l[2]}, log[j].product \in {None, l[2]}
        PROVE  i = j
    BY <2>1, <2>3 DEF HalfReapplied
  <2>4. \A i \in LineChanges(l) :
            log[i].table = "details" /\ log[i].order = l[1] /\ log[i].product = l[2]
    BY <2>2 DEF LineChanges, LineOf
  <2>5. \A i \in OrderChanges(l[1]) :
            log[i].table = "orders" /\ log[i].order = l[1] /\ log[i].product = None
    BY DEF OrderChanges, SourceInv, OrdersNameNoProduct
  <2> QED BY <2>3, <2>4, <2>5 DEF AppliedAgain
<1>6. ASSUME \A i \in LineChanges(l) : Acknowledged(i)
      PROVE  LineDone(l) \/ AppliedAgain(staged \cap LineChanges(l))
  <2>1. CASE pc = "report"
    <3>1. staged \cap LineChanges(l) = {} \/ LineDone(l)
      BY <1>3, <1>4, <1>6, <2>1 DEF LineDone
    <3> QED BY <3>1 DEF AppliedAgain
  <2> QED BY <1>5, <1>6, <2>1
<1>7. ASSUME \A i \in LineChanges(l) : Acknowledged(i),
             \A i \in OrderChanges(l[1]) : Acknowledged(i), Gapless(OrderChanges(l[1]))
      PROVE  \/ LineDone(l) \/ OrderDone(l)
             \/ /\ AppliedAgain(staged \cap LineChanges(l))
                /\ AppliedAgain(staged \cap OrderChanges(l[1]))
  <2>1. CASE pc = "report"
    <3>1. staged \cap LineChanges(l) = {} \/ LineDone(l)
      BY <1>3, <1>4, <1>7, <2>1 DEF LineDone
    <3>2. staged \cap OrderChanges(l[1]) = {} \/ LastApplied(staged \cap OrderChanges(l[1]))
      BY <1>3, <1>4, <1>7, <2>1
    <3>3. AppliedAgain({})
      BY DEF AppliedAgain
    <3> QED BY <3>1, <3>2, <3>3 DEF OrderDone
  <2> QED BY <1>5, <1>7, <2>1
<1>8. GoneDue(l)' => GoneDue(l)
  BY <1>2, <1>6 DEF GoneDue, Settled
<1>9. Gapless(OrderChanges(l[1])) => (PresentDue(l)' => PresentDue(l))
  BY <1>2, <1>7 DEF PresentDue, Settled
<1> QED BY <1>8, <1>9, LineFrame

-----------------------------------------------------------------------------
(* Every step keeps the invariant.                                         *)

LEMMA ConvergenceInit == Init => ConvergenceInv
<1> SUFFICES ASSUME Init PROVE ConvergenceInv
  OBVIOUS
<1>1. pc = "idle" /\ pc \notin StageTwo
  BY DEF Init, StageTwo
<1>2. 1 \in 1..MaxVersions /\ SeedRow # None /\ SeedValue # None
  <2>1. SeedRow \in Rows /\ SeedValue \in Values
    BY SeedAssumption DEF SeedRow, Rows
  <2> QED BY <2>1, BoundsAssumption, NoneAssumption
<1>3. ASSUME NEW l \in Lines
      PROVE  /\ l[1] \in Orders /\ l[2] \in Products /\ l = <<l[1], l[2]>>
             /\ \A n \in 1..MaxVersions : facts[<<l, n>>] =
                    IF l \in Seeded /\ n = 1 THEN SeedRow ELSE None
             /\ RowsOf(l) = IF l \in Seeded THEN {1} ELSE {}
  <2>1. l[1] \in Orders /\ l[2] \in Products /\ l = <<l[1], l[2]>>
    BY DEF Lines
  <2>2. \A n \in 1..MaxVersions : <<l, n>> \in FactKeys
    BY DEF FactKeys
  <2>3. \A n \in 1..MaxVersions : facts[<<l, n>>] =
                    IF l \in Seeded /\ n = 1 THEN SeedRow ELSE None
    BY <2>2 DEF Init
  <2> QED BY <1>2, <2>1, <2>3 DEF RowsOf
<1>4. KeysOpened
  <2> SUFFICES ASSUME NEW l \in Lines
               PROVE  /\ \A n \in RowsOf(l) : n <= version[l[2]]
                      /\ RowsOf(l) # {} => \E n \in RowsOf(l) : IsLast(n, RowsOf(l))
    BY DEF KeysOpened
  <2>1. ASSUME l \in Seeded PROVE version[l[2]] = 1
    <3>1. l[2] \in Products /\ \E o \in Orders : <<o, l[2]>> \in Seeded
      BY <1>3, <2>1
    <3> QED BY <3>1 DEF Init
  <2> QED BY <1>3, <2>1 DEF IsLast
<1>5. ASSUME NEW l \in Lines, lines[l] = None PROVE RowsOf(l) = {}
  <2>1. l \notin Seeded
    BY <1>2, <1>5 DEF Init
  <2> QED BY <1>3, <2>1
<1>6. ASSUME NEW l \in Lines, lines[l] # None PROVE NewestIs(l, {SourceRow(l)})
  <2>1. l \in Seeded
    BY <1>6 DEF Init
  <2>2. orders[l[1]] = SeedValue /\ lines[l] = SeedValue
    <3>1. l[1] \in Orders /\ \E p \in Products : <<l[1], p>> \in Seeded
      BY <1>3, <2>1
    <3> QED BY <2>1, <3>1 DEF Init
  <2>3. SourceRow(l) = SeedRow
    BY <2>2 DEF SourceRow, SeedRow
  <2> QED BY <1>2, <1>3, <2>1, <2>3 DEF NewestIs, IsLast
<1> QED BY <1>4, <1>5, <1>6 DEF ConvergenceInv, LinesConverge, GoneLine, PresentLine

\* A commit makes something due of what it changes, and nothing else.
LEMMA LineCommit ==
    ASSUME TypeOK, WithinCaptured, SourceInv, NEW c \in Changes, CommitShape(c),
           UNCHANGED <<captured, wm, pc, staged, facts>>, NEW l \in Lines
    PROVE  /\ GoneLine(l) => GoneLine(l)'
           /\ PresentLine(l) => PresentLine(l)'
<1>1. PICK n : n = Len(log) + 1
  OBVIOUS
<1>2. /\ log'[n] = c
      /\ \A i \in DOMAIN log : log'[i] = log[i]
      /\ \A o : OrderChanges(o)' =
              IF c.table = "orders" /\ c.order = o
              THEN OrderChanges(o) \cup {n} ELSE OrderChanges(o)
      /\ LineChanges(l)' =
              IF c.table = "details" /\ <<c.order, c.product>> = l
              THEN LineChanges(l) \cup {n} ELSE LineChanges(l)
  BY <1>1, LogGrows DEF CommitShape
<1>3. /\ ~Acknowledged(n)' /\ n \notin staged
      /\ \A i \in DOMAIN log : Acknowledged(i)' <=> Acknowledged(i)
      /\ staged \subseteq DOMAIN log
  BY <1>1, CommitUnread
<1>4. RowsOf(l)' = RowsOf(l)
  BY DEF RowsOf
<1>5. ASSUME Settled(LineChanges(l))'
      PROVE  /\ LineChanges(l)' = LineChanges(l) /\ lines'[l] = lines[l]
             /\ Settled(LineChanges(l))
             /\ LineDone(l)' => LineDone(l)
             /\ AppliedAgain(staged \cap LineChanges(l))' =>
                    AppliedAgain(staged \cap LineChanges(l))
  <2>1. n \notin LineChanges(l)'
    BY <1>3, <1>5 DEF Settled
  <2>2. LineChanges(l)' = LineChanges(l) /\ ~(c.table = "details" /\ <<c.order, c.product>> = l)
    BY <1>2, <2>1
  <2>3. lines'[l] = lines[l]
    BY <2>2 DEF CommitShape, TypeOK
  <2>4. LineChanges(l) \subseteq DOMAIN log
    BY DEF LineChanges
  <2>5. Settled(LineChanges(l))
    BY <1>3, <1>5, <2>2, <2>4 DEF Settled
  <2>6. LineDone(l)' => LineDone(l)
    BY <1>2, <2>2, <2>4 DEF LineDone, LastApplied, HasApplied
  <2>7. AppliedAgain(staged \cap LineChanges(l))' =>
            AppliedAgain(staged \cap LineChanges(l))
    BY <1>3, <2>2, <2>4 DEF AppliedAgain
  <2> QED BY <2>2, <2>3, <2>5, <2>6, <2>7
<1>6. ASSUME Settled(LineChanges(l))', Settled(OrderChanges(l[1]))'
      PROVE  /\ OrderChanges(l[1])' = OrderChanges(l[1])
             /\ orders'[l[1]] = orders[l[1]]
             /\ Settled(OrderChanges(l[1]))
             /\ OrderDone(l)' => OrderDone(l)
             /\ AppliedAgain(staged \cap OrderChanges(l[1]))' =>
                    AppliedAgain(staged \cap OrderChanges(l[1]))
  <2>1. n \notin OrderChanges(l[1])'
    BY <1>3, <1>6 DEF Settled
  <2>2. /\ OrderChanges(l[1])' = OrderChanges(l[1])
        /\ ~(c.table = "orders" /\ c.order = l[1])
    BY <1>2, <2>1
  <2>3. orders'[l[1]] = orders[l[1]]
    <3>1. l[1] \in Orders /\ orders \in [Orders -> Values \cup {None}]
      BY DEF Lines, TypeOK
    <3>2. \/ orders' = orders
          \/ /\ c.table = "orders"
             /\ \E v : orders' = [orders EXCEPT ![c.order] = v]
      BY DEF CommitShape
    <3> QED BY <2>2, <3>1, <3>2
  <2>4. OrderChanges(l[1]) \subseteq DOMAIN log
    BY DEF OrderChanges
  <2>5. Settled(OrderChanges(l[1]))
    BY <1>3, <1>6, <2>2, <2>4 DEF Settled
  <2>6. OrderDone(l)' => OrderDone(l)
    BY <1>2, <1>5, <1>6, <2>2, <2>4 DEF OrderDone, LastApplied, HasApplied
  <2>7. AppliedAgain(staged \cap OrderChanges(l[1]))' =>
            AppliedAgain(staged \cap OrderChanges(l[1]))
    BY <1>3, <2>2, <2>4 DEF AppliedAgain
  <2> QED BY <2>2, <2>3, <2>5, <2>6, <2>7
<1>7. ASSUME GoneLine(l), lines'[l] = None, orders'[l[1]] # None, GoneDue(l)'
      PROVE  (RowsOf(l) = {} \/ NewestIs(l, DeletedRows))'
  <2>1. lines[l] = None /\ GoneDue(l)
    BY <1>5, <1>7 DEF GoneDue
  <2>2. l[1] \in Orders
    BY DEF Lines
  <2>3. CASE orders[l[1]] # None
    <3>1. RowsOf(l) = {} \/ NewestIs(l, DeletedRows)
      BY <1>7, <2>1, <2>3 DEF GoneLine
    <3> QED BY <1>4, <3>1 DEF NewestIs, IsLast
  <2>4. CASE orders[l[1]] = None
    <3>1. /\ c.op = "insert" /\ c.order = l[1]
          /\ \A i \in DOMAIN log : log[i].order # l[1]
      BY <1>7, <2>2, <2>4 DEF CommitShape, TypeOK
    <3>2. \A i \in OrderChanges(l[1]) : FALSE
      BY <3>1 DEF OrderChanges
    <3>3. \A k \in FactKeys : k[1][1] = l[1] => facts[k] = None
      BY <2>2, <2>4, <3>2 DEF SourceInv, AbsentOrders
    <3>4. RowsOf(l) = {}
      BY <3>3 DEF RowsOf, FactKeys
    <3> QED BY <1>4, <3>4
  <2> QED BY <2>3, <2>4
<1>8. ASSUME PresentLine(l), lines'[l] # None, PresentDue(l)'
      PROVE  NewestIs(l, {SourceRow(l)})'
  <2>1. lines[l] # None /\ PresentDue(l)
    BY <1>5, <1>6, <1>8 DEF PresentDue
  <2>2. NewestIs(l, {SourceRow(l)})
    BY <1>8, <2>1 DEF PresentLine
  <2>3. SourceRow(l)' = SourceRow(l)
    BY <1>5, <1>6, <1>8 DEF SourceRow, PresentDue
  <2> QED BY <1>4, <2>2, <2>3 DEF NewestIs, IsLast
<1> QED BY <1>7, <1>8 DEF GoneLine, PresentLine

\* A batch without lines of an order writes no row of it.
LEMMA WriteSpares ==
    ASSUME NEW batch, WriteToDw(batch), NEW o, \A b \in batch : b.line[1] # o
    PROVE  \A k \in FactKeys : k[1][1] = o => facts'[k] = facts[k]
<1>1. PICK w \in Survivors(batch) :
        facts' = [k \in FactKeys |->
                    IF k[1] \in DOMAIN w /\ k[2] = OpenVersion(batch, k[1][2])
                    THEN w[k[1]] ELSE facts[k]]
  BY DEF WriteToDw
<1>2. \A l \in DOMAIN w : l[1] # o
  BY DEF Survivors
<1> QED BY <1>1, <1>2

\* The steps of stage two up to the tombstones.
ApplyStep == \/ ApplyOrdersInsert \/ ApplyOrdersUpdate
             \/ ApplyDetailsInsert \/ ApplyDetailsUpdate \/ ApplyDetailsDelete

\* An order without a change to apply, or without a row in the snapshots.
Spared(o) ==
    \/ \A i \in DOMAIN log : log[i].order # o
    \/ snapOrders[o] = None /\ \A p \in Products : snapLines[<<o, p>>] = None

\* They write to open keys, and nothing of such an order.
LEMMA ApplyKeeps ==
    ASSUME TypeOK, ApplyStep
    PROVE  /\ UNCHANGED <<orders, lines, log, captured, wm, window, staged,
                          snapOrders, snapLines, coalesced, attempt>>
           /\ pc \in StageTwo \ Marking /\ pc' \in StageTwo \ Marking
           /\ KeysOpened => KeysOpened'
           /\ \A p \in Products : version[p] <= version'[p] /\ version'[p] \in Nat
           /\ \A o : Spared(o) =>
                    \A k \in FactKeys : k[1][1] = o => facts'[k] = facts[k]
<1>1. ASSUME NEW op \in Ops, NEW here, NEW next, ApplyOrders(op, here, next)
      PROVE  /\ \A b \in OrderRows(op) : /\ b.row \in Rows
                                         /\ ~Spared(b.line[1])
             /\ WriteToDw(OrderRows(op))
  <2>1. ASSUME NEW b \in OrderRows(op)
        PROVE  b.row \in Rows /\ ~Spared(b.line[1])
    <3>1. /\ \E i \in Staged("orders", op) : log[i].order = b.line[1]
          /\ b.line \in Lines /\ snapLines[b.line] # None
      BY DEF OrderRows
    <3>2. b.line[2] \in Products /\ b.line = <<b.line[1], b.line[2]>>
      BY <3>1 DEF Lines
    <3> QED BY <3>1, <3>2, OrderRowsType, PositionTypes, StagedPositions DEF Spared
  <2> QED BY <1>1, <2>1 DEF ApplyOrders
<1>2. ASSUME NEW op \in Ops, NEW here, NEW next, ApplyLines(op, here, next)
      PROVE  /\ \A b \in LineRows(op) : /\ b.row \in Rows
                                        /\ ~Spared(b.line[1])
             /\ WriteToDw(LineRows(op))
  <2>1. ASSUME NEW b \in LineRows(op)
        PROVE  b.row \in Rows /\ ~Spared(b.line[1])
    <3>1. \E i \in Staged("details", op) : /\ log[i].order = b.line[1]
                                           /\ snapOrders[log[i].order] # None
      BY DEF LineRows, LineOf
    <3> QED BY <3>1, LineRowsType, PositionTypes, StagedPositions DEF Spared
  <2> QED BY <1>2, <2>1 DEF ApplyLines
<1>3. \E batch : /\ WriteToDw(batch)
                 /\ \A b \in batch : /\ b.row \in Rows
                                     /\ ~Spared(b.line[1])
  <2>1. CASE ApplyOrdersInsert \/ ApplyOrdersUpdate
    BY <1>1, <2>1 DEF ApplyOrdersInsert, ApplyOrdersUpdate
  <2>2. CASE ApplyDetailsInsert \/ ApplyDetailsUpdate \/ ApplyDetailsDelete
    BY <1>2, <2>2 DEF ApplyDetailsInsert, ApplyDetailsUpdate, ApplyDetailsDelete
  <2> QED BY <2>1, <2>2 DEF ApplyStep
<1>4. PICK batch : /\ WriteToDw(batch)
                   /\ \A b \in batch : /\ b.row \in Rows
                                       /\ ~Spared(b.line[1])
  BY <1>3
<1>5. KeysOpened => KeysOpened'
  BY <1>4, WriteKeys
<1>6. ASSUME NEW o, Spared(o)
      PROVE  \A k \in FactKeys : k[1][1] = o => facts'[k] = facts[k]
  <2>1. \A b \in batch : b.line[1] # o
    BY <1>4, <1>6
  <2> QED BY <1>4, <2>1, WriteSpares
<1>7. /\ UNCHANGED <<orders, lines, log, captured, wm, window, staged,
                     snapOrders, snapLines, coalesced, attempt>>
      /\ pc \in StageTwo \ Marking /\ pc' \in StageTwo \ Marking
  BY DEF ApplyStep, ApplyOrdersInsert, ApplyOrdersUpdate, ApplyDetailsInsert,
     ApplyDetailsUpdate, ApplyDetailsDelete, ApplyOrders, ApplyLines, Step, Within,
     source, staging, StageTwo, Marking
<1>8. \A p \in Products : version[p] <= version'[p] /\ version'[p] \in Nat
  BY <1>4, OpenKey
<1> QED BY <1>5, <1>6, <1>7, <1>8

\* And keep what is due of a line.
LEMMA LineApplied ==
    ASSUME TypeOK, SourceInv, SourceGone, KeysOpened, ApplyStep,
           NEW l \in Lines, LineHeld(l)
    PROVE  /\ GoneLine(l) => GoneLine(l)'
           /\ OrderHeld(l) => (PresentLine(l) => PresentLine(l)')
<1>1. pc \in StageTwo
  BY ApplyKeeps
<1>2. CASE ApplyOrdersInsert
  <2>1. ApplyOrders("insert", "ordersInsert", "ordersUpdate")
        /\ "ordersInsert" \in StageTwo /\ "ordersUpdate" \in StageTwo
    BY <1>2 DEF ApplyOrdersInsert, StageTwo
  <2>2. GoneLine(l) => GoneLine(l)'
    BY <1>1, <2>1, GoneByOrders
  <2>3. OrderHeld(l) /\ PresentLine(l) => PresentLine(l)'
    BY <1>1, <2>1, PresentByOrders
  <2> QED BY <2>2, <2>3
<1>3. CASE ApplyOrdersUpdate
  <2>1. ApplyOrders("update", "ordersUpdate", "detailsInsert")
        /\ "ordersUpdate" \in StageTwo /\ "detailsInsert" \in StageTwo
    BY <1>3 DEF ApplyOrdersUpdate, StageTwo
  <2>2. GoneLine(l) => GoneLine(l)'
    BY <1>1, <2>1, GoneByOrders
  <2>3. OrderHeld(l) /\ PresentLine(l) => PresentLine(l)'
    BY <1>1, <2>1, PresentByOrders
  <2> QED BY <2>2, <2>3
<1>4. ASSUME NEW op \in Ops, NEW here \in StageTwo, NEW next \in StageTwo \ Marking,
             ApplyLines(op, here, next),
             op = "insert" => here = "detailsInsert" /\ next = "detailsUpdate",
             op = "update" => here = "detailsUpdate" /\ next = "detailsDelete",
             op = "delete" => here = "detailsDelete" /\ next = "tombstone"
      PROVE  /\ GoneLine(l) => GoneLine(l)'
             /\ OrderHeld(l) => (PresentLine(l) => PresentLine(l)')
  <2>1. next = "tombstone" => op = "delete"
    BY <1>4
  <2>2. GoneLine(l) => GoneLine(l)'
    BY <1>1, <1>4, <2>1, GoneByLines
  <2>3. OrderHeld(l) /\ PresentLine(l) => PresentLine(l)'
    BY <1>4, PresentByLines
  <2> QED BY <2>2, <2>3
<1>5. CASE ApplyDetailsInsert \/ ApplyDetailsUpdate \/ ApplyDetailsDelete
  BY <1>4, <1>5 DEF ApplyDetailsInsert, ApplyDetailsUpdate, ApplyDetailsDelete,
     StageTwo, Marking
<1> QED BY <1>2, <1>3, <1>5 DEF ApplyStep

\* Keys stay open where neither rows nor versions go.
LEMMA KeysFrame ==
    ASSUME TypeOK, KeysOpened, facts' = facts,
           \A p \in Products : version[p] <= version'[p] /\ version'[p] \in Nat
    PROVE  KeysOpened'
<1>1. ASSUME NEW l \in Lines
      PROVE  /\ RowsOf(l)' = RowsOf(l) /\ \A n \in RowsOf(l) : n \in Nat
             /\ l[2] \in Products
             /\ version[l[2]] \in Nat
  BY BoundsAssumption DEF RowsOf, Lines, TypeOK
<1> QED BY <1>1 DEF KeysOpened, IsLast

LEMMA VersionFrame ==
    ASSUME TypeOK, version' = version
    PROVE  \A p \in Products : version[p] <= version'[p] /\ version'[p] \in Nat
<1>1. \A p \in Products : version[p] \in Nat
  BY BoundsAssumption DEF TypeOK
<1> QED BY <1>1

LEMMA ConvergenceStageTwo ==
    ASSUME TypeOK, DeliveryInv, DeletionInv, SourceInv, RunInv, ConvergenceInv,
           RunStageTwo
    PROVE  SourceInv' /\ RunInv' /\ ConvergenceInv'
<1> USE DEF Step, source, staging, history
<1>1. /\ SourceGone /\ KeysOpened
      /\ \A l \in Lines \ coalesced : GoneLine(l) /\ PresentLine(l)
  BY DEF DeletionInv, ConvergenceInv, LinesConverge
<1>2. pc \in StageTwo => \A l \in Lines \ coalesced : LineHeld(l) /\ OrderHeld(l)
  BY PipelineHolds
<1>3. ASSUME UNCHANGED <<orders, lines, log, captured, window, staged, snapOrders,
                         snapLines>>,
             coalesced' = coalesced,
             \A o \in Orders : (\A i \in DOMAIN log : log[i].order # o) =>
                \A k \in FactKeys : k[1][1] = o /\ facts[k] = None => facts'[k] = None,
             pc \in StageTwo, pc' \in StageTwo \cup {"idle"},
             wm' = wm \/ pc' \in StageTwo,
             \A i \in DOMAIN log : Acknowledged(i)' => Acknowledged(i) \/ i \in staged,
             KeysOpened',
             \A l \in Lines \ coalesced : GoneLine(l)' /\ PresentLine(l)'
      PROVE  SourceInv' /\ RunInv' /\ ConvergenceInv'
  <2>1. SourceInv'
    BY <1>3, SourceFrame
  <2>2. RunInv'
    BY <1>3, RunFrame, PositionTypes
  <2> QED BY <1>3, <2>1, <2>2 DEF ConvergenceInv, LinesConverge
<1>4. CASE ApplyStep
  <2>1. /\ UNCHANGED <<orders, lines, log, captured, wm, window, staged,
                       snapOrders, snapLines, coalesced>>
        /\ pc \in StageTwo /\ pc' \in StageTwo
        /\ KeysOpened'
        /\ \A o \in Orders : (\A i \in DOMAIN log : log[i].order # o) =>
              \A k \in FactKeys : k[1][1] = o /\ facts[k] = None => facts'[k] = None
    BY <1>1, <1>4, ApplyKeeps DEF Spared
  <2>2. \A i : Acknowledged(i)' <=> Acknowledged(i)
    BY <2>1, ChangesFrame
  <2>3. \A l \in Lines \ coalesced : GoneLine(l)' /\ PresentLine(l)'
    BY <1>1, <1>2, <1>4, <2>1, LineApplied
  <2> QED BY <1>3, <2>1, <2>2, <2>3
<1>5. CASE TombstoneDeletedOrders
  <2>1. /\ UNCHANGED <<orders, lines, log, captured, wm, window, staged, snapOrders,
                       snapLines, coalesced>>
        /\ \A k \in FactKeys : facts[k] = None => facts'[k] = None
        /\ pc \in StageTwo /\ pc' \in StageTwo
    BY <1>5 DEF TombstoneDeletedOrders, StageTwo
  <2>2. \A i : Acknowledged(i)' <=> Acknowledged(i)
    BY <2>1, ChangesFrame
  <2>3. \A l \in Lines \ coalesced : GoneLine(l)' /\ PresentLine(l)'
    BY <1>1, <1>5, LineTombstoned
  <2>4. KeysOpened'
    BY <1>1, <1>5, TombstonedKeys
  <2> QED BY <1>3, <2>1, <2>2, <2>3, <2>4
<1>6. ASSUME UNCHANGED <<version, facts>> PROVE KeysOpened'
  BY <1>1, <1>6, KeysFrame, VersionFrame
<1>7. ASSUME NEW t \in Tables, NEW here \in Marking, NEW next \in Marking,
             WriteWatermark(t, here, next)
      PROVE  SourceInv' /\ RunInv' /\ ConvergenceInv'
  <2>1. /\ UNCHANGED <<orders, lines, log, captured, window, staged, snapOrders,
                       snapLines, coalesced, version, facts>>
        /\ pc \in StageTwo /\ pc' \in StageTwo
    BY <1>7 DEF WriteWatermark, StageTwo, Marking
  <2>2. \A i \in DOMAIN log : Acknowledged(i)' => Acknowledged(i) \/ i \in staged
    BY <1>7, MarkedStaged
  <2>3. ASSUME NEW l \in Lines \ coalesced
        PROVE  GoneLine(l)' /\ PresentLine(l)'
    <3>1. /\ \A i \in LineChanges(l) : Acknowledged(i)' => Acknowledged(i) \/ i \in staged
          /\ \A i \in OrderChanges(l[1]) :
                    Acknowledged(i)' => Acknowledged(i) \/ i \in staged
      BY <2>2 DEF LineChanges, OrderChanges
    <3> QED BY <1>1, <1>7, <3>1, LineMark
  <2> QED BY <1>3, <1>6, <2>1, <2>2, <2>3
<1>8. CASE MarkOrders \/ MarkDetails
  BY <1>7, <1>8 DEF MarkOrders, MarkDetails, Marking
<1>9. CASE EndRun
  <2>1. /\ UNCHANGED <<orders, lines, log, captured, wm, window, staged, snapOrders,
                       snapLines, coalesced, version, facts>>
        /\ pc = "report" /\ pc \in StageTwo /\ pc' = "idle"
    BY <1>9 DEF EndRun, StageTwo
  <2>2. \A i : Acknowledged(i)' <=> Acknowledged(i)
    BY <2>1, ChangesFrame
  <2>3. \A l \in Lines \ coalesced : GoneLine(l)' /\ PresentLine(l)'
    BY <1>1, <1>2, <2>1, LineLeavesStageTwo DEF LineHeld, OrderHeld
  <2> QED BY <1>3, <1>6, <2>1, <2>2, <2>3
<1> QED BY <1>4, <1>5, <1>8, <1>9 DEF RunStageTwo, ApplyStep

LEMMA ConvergenceStageOne ==
    ASSUME TypeOK, DeliveryInv, SourceInv, RunInv, ConvergenceInv, RunStageOne
    PROVE  SourceInv' /\ RunInv' /\ ConvergenceInv'
<1> USE DEF Step, source, staging, history
<1>1. UNCHANGED <<orders, lines, log, captured, wm, version, facts>>
  BY DEF RunStageOne, ClearStaging, GetOrderWindow, GetDetailWindow,
     GetCdcWindow, LandOrders, LandDetails, Land, SnapshotOrders, SnapshotLines
<1>2. SourceInv' /\ RunInv'
  BY <1>1, SourceFrame, RunStageOneStep
<1>3. KeysOpened'
  BY <1>1, KeysFrame, VersionFrame DEF ConvergenceInv
<1>4. \A l \in Lines \ coalesced : GoneLine(l) /\ PresentLine(l)
  BY DEF ConvergenceInv, LinesConverge
<1>5. CASE LandDetails
  <2>1. /\ pc = "landDetails" /\ pc' = "snapOrders"
        /\ coalesced' = (coalesced \ {LineOf(i) : i \in InWindow("details")})
                            \cup UndeterminedLines(InWindow("details"))
    BY <1>5 DEF LandDetails
  <2>2. /\ HasWindow("details") /\ pc \in StageOne
        /\ pc \notin StageTwo /\ pc' \notin StageTwo
    BY <2>1 DEF HasWindow, StageOne, StageTwo
  <2>3. ASSUME NEW l \in coalesced \ coalesced'
        PROVE  \E i \in LineChanges(l) : ~Acknowledged(i)
    <3>1. PICK i \in InWindow("details") : LineOf(i) = l
      BY <2>1, <2>3
    <3>2. i \in LineChanges(l)
      BY <3>1, PositionTypes DEF InWindow, LineChanges
    <3>3. ~Acknowledged(i)
      BY <2>2, <3>1, WindowUnread
    <3> QED BY <3>2, <3>3
  <2>4. \A l \in Lines \ coalesced' : GoneLine(l)' /\ PresentLine(l)'
    BY <1>1, <1>4, <2>2, <2>3, LineOutsideStageTwo
  <2> QED BY <1>2, <1>3, <2>4 DEF ConvergenceInv, LinesConverge
<1>6. CASE SnapshotLines
  <2>1. /\ pc = "snapLines" /\ pc' = "ordersInsert" /\ pc \notin StageTwo
        /\ UNCHANGED <<staged, coalesced>>
    BY <1>6 DEF SnapshotLines, StageTwo
  <2>2. \A i \in staged : ~Acknowledged(i)
    BY <2>1 DEF RunInv, StagedFromWindows, StageOne
  <2>3. \A l \in Lines \ coalesced' : GoneLine(l)' /\ PresentLine(l)'
    BY <1>1, <1>4, <2>1, <2>2, LineEntersStageTwo
  <2> QED BY <1>2, <1>3, <2>3 DEF ConvergenceInv, LinesConverge
<1>7. CASE ClearStaging \/ GetOrderWindow \/ GetDetailWindow \/ LandOrders \/ SnapshotOrders
  <2>1. coalesced \subseteq coalesced' /\ pc \notin StageTwo /\ pc' \notin StageTwo
    BY <1>7 DEF ClearStaging, GetOrderWindow, GetDetailWindow, GetCdcWindow,
       LandOrders, SnapshotOrders, StageTwo
  <2>2. \A l \in Lines \ coalesced' : GoneLine(l)' /\ PresentLine(l)'
    BY <1>1, <1>4, <2>1, LineOutsideStageTwo
  <2> QED BY <1>2, <1>3, <2>2 DEF ConvergenceInv, LinesConverge
<1> QED BY <1>5, <1>6, <1>7 DEF RunStageOne

\* Capture, the dimension load, the start of a run, and stuttering.
LEMMA ConvergenceElsewhere ==
    ASSUME TypeOK, SourceInv, RunInv, ConvergenceInv,
           UNCHANGED <<orders, lines, log, wm, window, staged, snapOrders, snapLines,
                       facts, coalesced>>,
           captured' \in Nat, captured <= captured',
           pc' = pc \/ (pc = "idle" /\ pc' = "clear"),
           \A p \in Products : version[p] <= version'[p] /\ version'[p] \in Nat
    PROVE  SourceInv' /\ RunInv' /\ ConvergenceInv'
<1>1. \A i : Acknowledged(i)' <=> Acknowledged(i)
  BY ChangesFrame
<1>2. SourceInv' /\ RunInv'
  BY <1>1, SourceFrame, RunFrame
<1>3. KeysOpened'
  BY KeysFrame DEF ConvergenceInv
<1>4. \A l \in Lines \ coalesced : GoneLine(l)' /\ PresentLine(l)'
  <2>1. CASE pc \in StageTwo
    <3>1. pc' = pc
      BY <2>1 DEF StageTwo
    <3> QED BY <2>1, <3>1, LineRetry DEF ConvergenceInv, LinesConverge
  <2>2. CASE pc \notin StageTwo
    <3>1. pc' \notin StageTwo
      BY <2>2 DEF StageTwo
    <3> QED BY <2>2, <3>1, LineOutsideStageTwo DEF ConvergenceInv, LinesConverge
  <2> QED BY <2>1, <2>2
<1> QED BY <1>2, <1>3, <1>4 DEF ConvergenceInv, LinesConverge

LEMMA ConvergenceFailure ==
    ASSUME TypeOK, DeliveryInv, SourceInv, RunInv, ConvergenceInv, TaskFails,
           pc # "idle"
    PROVE  SourceInv' /\ RunInv' /\ ConvergenceInv'
<1>1. /\ UNCHANGED <<orders, lines, log, captured, wm, window, staged, snapOrders,
                     snapLines, version, facts>>
      /\ coalesced \subseteq coalesced'
      /\ \/ pc \in StageTwo /\ pc' = "ordersInsert" /\ coalesced' = coalesced
         \/ pc \in StageTwo /\ pc' = "idle" /\ HalfReapplied \subseteq coalesced'
         \/ pc \notin StageTwo /\ pc' \in {"idle", "clear"}
  <2>1. pc \in StageOne => pc \notin StageTwo
    BY DEF StageOne, StageTwo
  <2> QED BY <2>1 DEF TaskFails, Retry, FailRun, TaskStart, TypeOK, source, staging
<1>2. \A i : Acknowledged(i)' <=> Acknowledged(i)
  BY <1>1 DEF Acknowledged, Lsn
<1>3. "ordersInsert" \in StageTwo /\ "idle" \notin StageTwo /\ "clear" \notin StageTwo
  BY DEF StageTwo
<1>4. SourceInv' /\ RunInv'
  BY <1>1, <1>2, <1>3, SourceFrame, RunFrame, PositionTypes
<1>5. KeysOpened'
  BY <1>1, KeysFrame, VersionFrame DEF ConvergenceInv
<1>6. ASSUME NEW l \in Lines \ coalesced'
      PROVE  GoneLine(l)' /\ PresentLine(l)'
  <2>1. l \in Lines \ coalesced /\ GoneLine(l) /\ PresentLine(l)
    BY <1>1 DEF ConvergenceInv, LinesConverge
  <2>2. CASE pc \in StageTwo /\ pc' = "ordersInsert" /\ coalesced' = coalesced
    BY <1>1, <2>1, <2>2, LineRetry
  <2>3. CASE pc \in StageTwo /\ pc' = "idle" /\ HalfReapplied \subseteq coalesced'
    <3>1. LineHeld(l) /\ OrderHeld(l)
      BY <2>1, <2>3, PipelineHolds
    <3> QED BY <1>1, <2>1, <2>3, <3>1, LineLeavesStageTwo DEF LineHeld, OrderHeld
  <2>4. CASE pc \notin StageTwo /\ pc' \in {"idle", "clear"}
    <3>1. pc' \notin StageTwo
      BY <1>3, <2>4
    <3> QED BY <1>1, <2>1, <2>4, <3>1, LineOutsideStageTwo
  <2> QED BY <1>1, <2>2, <2>3, <2>4
<1> QED BY <1>4, <1>5, <1>6 DEF ConvergenceInv, LinesConverge

LEMMA ConvergenceStep ==
    /\ TypeOK /\ DeliveryInv /\ DeletionInv
    /\ SourceInv /\ RunInv /\ ConvergenceInv
    /\ [Next]_vars
    => SourceInv' /\ RunInv' /\ ConvergenceInv'
<1> SUFFICES ASSUME TypeOK, DeliveryInv, DeletionInv, SourceInv, RunInv,
                    ConvergenceInv, [Next]_vars
             PROVE  SourceInv' /\ RunInv' /\ ConvergenceInv'
  OBVIOUS
<1>1. CASE Source
  <2>1. PICK c \in Changes : CommitShape(c)
    BY <1>1, SourceShape
  <2>2. UNCHANGED <<captured, wm, pc, window, staged, snapOrders, snapLines,
                    version, facts, coalesced>>
    BY <1>1, CommitKeepsLog DEF staging, history
  <2>3. SourceInv' /\ RunInv'
    BY <1>1, <2>1, <2>2, SourceCommit, RunCommit
  <2>4. KeysOpened'
    BY <2>2, KeysFrame, VersionFrame DEF ConvergenceInv
  <2>5. \A l \in Lines \ coalesced : GoneLine(l)' /\ PresentLine(l)'
    BY <2>1, <2>2, LineCommit DEF ConvergenceInv, LinesConverge, DeliveryInv
  <2> QED BY <2>2, <2>3, <2>4, <2>5 DEF ConvergenceInv, LinesConverge
<1>2. captured \in Nat /\ \A p \in Products : version[p] \in Nat
  BY PositionTypes, BoundsAssumption DEF TypeOK
<1>3. CASE Capture
  <2>1. captured' \in Nat /\ captured <= captured'
    BY <1>2, <1>3, PositionTypes DEF Capture
  <2> QED BY <1>2, <1>3, <2>1, ConvergenceElsewhere
          DEF Capture, source, staging, history
<1>4. ASSUME NEW p \in Products, NewVersion(p)
      PROVE  SourceInv' /\ RunInv' /\ ConvergenceInv'
  <2>1. \A q \in Products : version[q] <= version'[q] /\ version'[q] \in Nat
    BY <1>2, <1>4 DEF NewVersion, TypeOK
  <2> QED BY <1>2, <1>4, <2>1, ConvergenceElsewhere
          DEF NewVersion, source, staging, history
<1>5. CASE StartRun \/ UNCHANGED vars
  BY <1>2, <1>5, ConvergenceElsewhere DEF StartRun, Step, vars, source, staging, history
<1>6. CASE RunTask
  <2>1. CASE Unhealthy
    BY <2>1, ConvergenceFailure DEF Unhealthy
  <2> QED BY <1>6, <2>1, ConvergenceStageOne, ConvergenceStageTwo DEF RunTask
<1>7. CASE Fail
  BY <1>7, ConvergenceFailure DEF Fail
<1> QED BY <1>1, <1>3, <1>4, <1>5, <1>6, <1>7 DEF Next

\* A line that is settled for good, and no row of a deleted order is live.
LEMMA LineAgrees ==
    ASSUME TypeOK, SourceInv, KeysOpened, pc \notin StageTwo, NEW l \in Lines,
           \A i \in LineChanges(l) : Acknowledged(i),
           \A i \in OrderChanges(l[1]) : Acknowledged(i),
           GoneLine(l), PresentLine(l),
           (\E i \in OrderChanges(l[1]) : log[i].op = "delete") => NotLive(l[1])
    PROVE  NewestAgrees(l)
<1>1. GoneDue(l) /\ PresentDue(l)
  BY DEF GoneDue, PresentDue, Settled
<1>2. l[1] \in Orders
  BY DEF Lines
<1>3. \A n \in RowsOf(l) : /\ n \in Nat /\ <<l, n>> \in FactKeys
                           /\ facts[<<l, n>>] # None
  BY DEF RowsOf, FactKeys
\* The newest row is the one row that is last.
<1>4. ASSUME NEW n \in RowsOf(l), IsLast(n, RowsOf(l)), Agrees(l, <<l, n>>)
      PROVE  NewestAgrees(l)
  <2> DEFINE m == CHOOSE m \in RowsOf(l) : \A k \in RowsOf(l) : k <= m
  <2>1. m \in RowsOf(l) /\ \A k \in RowsOf(l) : k <= m
    BY <1>4 DEF IsLast
  <2>2. m = n
    BY <1>3, <1>4, <2>1 DEF IsLast
  <2> QED BY <1>4, <2>2 DEF NewestAgrees
<1>5. CASE lines[l] # None
  <2>1. NewestIs(l, {SourceRow(l)})
    BY <1>1, <1>5 DEF PresentLine
  <2>2. PICK n \in RowsOf(l) : IsLast(n, RowsOf(l)) /\ facts[<<l, n>>] = SourceRow(l)
    BY <2>1 DEF NewestIs
  <2> QED BY <1>4, <1>5, <2>2 DEF Agrees, SourceRow
<1>6. CASE lines[l] = None
  <2>1. RowsOf(l) = {} => NewestAgrees(l)
    BY <1>6 DEF NewestAgrees
  <2>2. CASE orders[l[1]] # None
    <3>1. RowsOf(l) = {} \/ NewestIs(l, DeletedRows)
      BY <1>1, <1>6, <2>2 DEF GoneLine
    <3>2. ASSUME NewestIs(l, DeletedRows) PROVE NewestAgrees(l)
      <4>1. PICK n \in RowsOf(l) : IsLast(n, RowsOf(l)) /\ facts[<<l, n>>] \in DeletedRows
        BY <3>2 DEF NewestIs
      <4> QED BY <1>4, <1>6, <4>1 DEF Agrees, DeletedRows
    <3> QED BY <2>1, <3>1, <3>2
  <2>3. CASE orders[l[1]] = None
    <3>1. CASE \E i \in OrderChanges(l[1]) : log[i].op = "delete"
      <4>1. \A n \in RowsOf(l) : Agrees(l, <<l, n>>)
        BY <1>3, <1>6, <3>1 DEF NotLive, Agrees
      <4>2. RowsOf(l) # {} => \E n \in RowsOf(l) : IsLast(n, RowsOf(l))
        BY DEF KeysOpened
      <4> QED BY <1>4, <2>1, <4>1, <4>2
    <3>2. CASE \A k \in FactKeys : k[1][1] = l[1] => facts[k] = None
      <4>1. RowsOf(l) = {}
        BY <1>3, <3>2
      <4> QED BY <2>1, <4>1
    <3> QED BY <1>2, <2>3, <3>1, <3>2 DEF SourceInv, AbsentOrders
  <2> QED BY <2>2, <2>3
<1> QED BY <1>5, <1>6

\* What the source's log, a run's staging and snapshots, and the warehouse say
\* of each other, at every step.
THEOREM ConvergenceInvariant == Spec => [](SourceInv /\ RunInv /\ ConvergenceInv)
<1> QED BY TypeCorrect, DeliveryInvariant, DeletionInvariant, SourceInit, RunInit,
           ConvergenceInit, ConvergenceStep, PTL DEF Spec

\* Once every change is captured and acknowledged, the newest row of every line
\* that no window mixed up is the source's, freight and quantity together.
THEOREM Converges == Spec => []ConvergesUnlessCoalesced
<1>1. ASSUME TypeOK, DeletionInv, SourceInv, ConvergenceInv
      PROVE  ConvergesUnlessCoalesced
  <2> SUFFICES ASSUME Quiescent, NEW l \in Lines \ coalesced
               PROVE  NewestAgrees(l)
    BY DEF ConvergesUnlessCoalesced
  <2>1. pc \notin StageTwo /\ \A i \in DOMAIN log : Acknowledged(i)
    BY DEF Quiescent, StageTwo
  <2>2. /\ \A i \in LineChanges(l) : Acknowledged(i)
        /\ \A i \in OrderChanges(l[1]) : Acknowledged(i)
    BY <2>1 DEF LineChanges, OrderChanges
  <2>3. ASSUME NEW i \in OrderChanges(l[1]), log[i].op = "delete"
        PROVE  NotLive(l[1])
    <3>1. i \in OrderDeletes /\ log[i].order = l[1] /\ Acknowledged(i)
      BY <2>2, <2>3 DEF OrderChanges, OrderDeletes
    <3> QED BY <1>1, <3>1 DEF DeletionInv, WarehouseGone
  <2> QED BY <1>1, <2>1, <2>2, <2>3, LineAgrees DEF ConvergenceInv, LinesConverge
<1> QED BY <1>1, TypeCorrect, DeletionInvariant, ConvergenceInvariant, PTL
=============================================================================
