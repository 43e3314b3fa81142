------------------------- MODULE FactPipelineProofs -------------------------
(***************************************************************************)
(* Proofs about FactPipeline, for every set of orders, products and        *)
(* values, every bound, and every number of retries and failures.          *)
(***************************************************************************)
EXTENDS FactPipeline, TLAPS

USE DEF Tables, Ops

-----------------------------------------------------------------------------
(* Types.                                                                  *)

\* What a position of the log holds.
LEMMA LogEntry ==
    ASSUME TypeOK, NEW i \in 1..Len(log)
    PROVE  /\ log[i] \in Changes
           /\ log[i].table \in Tables /\ log[i].op \in Ops
           /\ log[i].order \in Orders /\ log[i].value \in Values
<1>1. log \in Seq(Changes)
  BY DEF TypeOK
<1>2. log[i] \in Changes
  BY <1>1
<1> QED BY <1>2 DEF Changes

\* Staging holds positions of the log, captured ones.
LEMMA StagedPositions ==
    ASSUME TypeOK, NEW t, NEW op
    PROVE  Staged(t, op) \subseteq 1..captured /\ 1..captured \subseteq 1..Len(log)
<1>1. staged \subseteq 1..captured /\ captured \in 0..Len(log) /\ Len(log) \in Nat
  BY DEF TypeOK
<1>2. Staged(t, op) \subseteq staged
  BY DEF Staged
<1>3. ASSUME NEW n \in Nat, captured \in 0..n PROVE 1..captured \subseteq 1..n
  BY <1>3
<1>4. 1..captured \subseteq 1..Len(log)
  BY <1>1, <1>3
<1> QED BY <1>1, <1>2, <1>4

\* Every row the orders side inserts has a freight and a quantity.
LEMMA OrderRowsType ==
    ASSUME TypeOK, NEW op \in Ops, NEW b \in OrderRows(op)
    PROVE  b.row \in Rows
<1>1. PICK x \in Staged("orders", op) \X Lines :
        /\ snapLines[x[2]] # None
        /\ b = [line |-> x[2],
                row  |-> [freight |-> log[x[1]].value, qty |-> snapLines[x[2]],
                          deleted |-> FALSE]]
  BY DEF OrderRows
<1>2. x[1] \in Staged("orders", op) /\ x[2] \in Lines
  BY <1>1
<1>3. x[1] \in 1..Len(log)
  BY <1>2, StagedPositions
<1>4. log[x[1]].value \in Values /\ snapLines[x[2]] \in Values
  BY <1>1, <1>2, <1>3, LogEntry DEF TypeOK
<1> QED BY <1>1, <1>4 DEF Rows

\* And so has every row the lines side inserts.
LEMMA LineRowsType ==
    ASSUME TypeOK, NEW op \in Ops, NEW b \in LineRows(op)
    PROVE  b.row \in Rows
<1>1. PICK i \in Staged("details", op) :
        /\ snapOrders[log[i].order] # None
        /\ b = [line |-> LineOf(i),
                row  |-> [freight |-> snapOrders[log[i].order],
                          qty |-> log[i].value, deleted |-> op = "delete"]]
  BY DEF LineRows
<1>2. i \in 1..Len(log)
  BY <1>1, StagedPositions
<1>3. log[i].value \in Values /\ snapOrders[log[i].order] \in Values
  BY <1>1, <1>2, LogEntry DEF TypeOK
<1> QED BY <1>1, <1>3 DEF Rows

\* Writing a well-typed batch keeps the warehouse well-typed.
LEMMA WriteType ==
    ASSUME TypeOK, NEW batch, \A b \in batch : b.row \in Rows, WriteToDw(batch)
    PROVE  /\ version' \in [Products -> 0..MaxVersions]
           /\ facts' \in [FactKeys -> Rows \cup {None}]
<1>1. version' \in [Products -> 0..MaxVersions]
  BY BoundsAssumption DEF TypeOK, WriteToDw, OpenVersion
<1>2. PICK w \in Survivors(batch) :
        facts' = [k \in FactKeys |->
                    IF k[1] \in DOMAIN w /\ k[2] = OpenVersion(batch, k[1][2])
                    THEN w[k[1]] ELSE facts[k]]
  BY DEF WriteToDw
<1>3. \A l \in DOMAIN w : w[l] \in Rows
  BY DEF Survivors
<1>4. facts \in [FactKeys -> Rows \cup {None}]
  BY DEF TypeOK
<1>5. ASSUME NEW k \in FactKeys
      PROVE  (IF k[1] \in DOMAIN w /\ k[2] = OpenVersion(batch, k[1][2])
              THEN w[k[1]] ELSE facts[k]) \in Rows \cup {None}
  BY <1>3, <1>4
<1> QED BY <1>1, <1>2, <1>5

LEMMA TypeInit == Init => TypeOK
<1> SUFFICES ASSUME Init PROVE TypeOK
  OBVIOUS
<1>1. SeedRow \in Rows /\ 1 \in 0..MaxVersions /\ 0 \in 0..MaxVersions
  BY SeedAssumption, BoundsAssumption DEF SeedRow, Rows
<1>2. /\ orders \in [Orders -> Values \cup {None}]
      /\ lines \in [Lines -> Values \cup {None}]
  BY SeedAssumption DEF Init
<1>3. log \in Seq(Changes) /\ captured \in 0..Len(log)
  BY DEF Init
<1>4. /\ wm \in [Tables -> Nat \cup {None}]
      /\ window \in [Tables -> [from: Nat, to: Nat]]
  BY DEF Init, MinLsn
<1>5. /\ pc \in {"idle"} \cup StageOne \cup StageTwo
      /\ attempt \in 0..Retries /\ failures \in 0..MaxFailures
  BY BoundsAssumption DEF Init
<1>6. /\ snapOrders \in [Orders -> Values \cup {None}]
      /\ snapLines \in [Lines -> Values \cup {None}]
      /\ version \in [Products -> 0..MaxVersions]
      /\ facts \in [FactKeys -> Rows \cup {None}]
  BY <1>1 DEF Init
<1>7. staged \subseteq 1..captured /\ applied \subseteq 1..captured
      /\ coalesced \subseteq Lines
  BY DEF Init
<1> QED BY <1>2, <1>3, <1>4, <1>5, <1>6, <1>7 DEF TypeOK

\* The control part of a step of a run, and what it leaves alone.
LEMMA StepType ==
    ASSUME TypeOK, NEW here, NEW next \in {"idle"} \cup StageOne \cup StageTwo,
           Step(here, next), Within \/ Fresh
    PROVE  /\ orders' \in [Orders -> Values \cup {None}]
           /\ lines' \in [Lines -> Values \cup {None}]
           /\ log' \in Seq(Changes) /\ log' = log
           /\ captured' \in 0..Len(log)' /\ captured' = captured
           /\ pc' \in {"idle"} \cup StageOne \cup StageTwo
           /\ attempt' \in 0..Retries
           /\ failures' \in 0..MaxFailures
  BY BoundsAssumption DEF TypeOK, Step, Within, Fresh, source

\* A commit appends a change to the log.
LEMMA CommitType ==
    ASSUME TypeOK, NEW t \in Tables, NEW op \in Ops, NEW o \in Orders,
           NEW p \in Products \cup {None}, NEW v \in Values,
           Commit(t, op, o, p, v),
           orders' \in [Orders -> Values \cup {None}],
           lines' \in [Lines -> Values \cup {None}]
    PROVE  TypeOK'
<1> DEFINE c == [table |-> t, op |-> op, order |-> o, product |-> p, value |-> v]
<1>1. c \in Changes
  BY DEF Changes
<1>2. log \in Seq(Changes) /\ log' = Append(log, c) /\ captured \in 0..Len(log)
  BY DEF Commit, TypeOK
<1> HIDE DEF c
<1>3. log' \in Seq(Changes) /\ Len(log') = Len(log) + 1 /\ Len(log) \in Nat
  BY <1>1, <1>2
<1>4. captured' = captured
  BY DEF Commit
<1>5. captured' \in 0..Len(log')
  BY <1>2, <1>3, <1>4
<1>6. /\ wm' \in [Tables -> Nat \cup {None}]
      /\ pc' \in {"idle"} \cup StageOne \cup StageTwo
      /\ attempt' \in 0..Retries
      /\ failures' \in 0..MaxFailures
      /\ window' \in [Tables -> [from: Nat, to: Nat]]
      /\ staged' \subseteq 1..captured'
      /\ snapOrders' \in [Orders -> Values \cup {None}]
      /\ snapLines' \in [Lines -> Values \cup {None}]
      /\ version' \in [Products -> 0..MaxVersions]
      /\ facts' \in [FactKeys -> Rows \cup {None}]
      /\ applied' \subseteq 1..captured'
      /\ coalesced' \subseteq Lines
  BY <1>4 DEF Commit, TypeOK, staging, history
<1> QED BY <1>3, <1>5, <1>6 DEF TypeOK

LEMMA SourceType == ASSUME TypeOK, Source PROVE TypeOK'
<1> USE DEF TypeOK
<1>1. ASSUME NEW o \in Orders, NEW v \in Values, InsertOrder(o, v)
      PROVE  TypeOK'
  <2>1. Commit("orders", "insert", o, None, v)
        /\ orders' \in [Orders -> Values \cup {None}]
        /\ lines' \in [Lines -> Values \cup {None}]
    BY <1>1 DEF InsertOrder
  <2> QED BY <2>1, CommitType DEF InsertOrder
<1>2. ASSUME NEW o \in Orders, NEW v \in Values, UpdateOrder(o, v)
      PROVE  TypeOK'
  <2>1. Commit("orders", "update", o, None, v)
        /\ orders' \in [Orders -> Values \cup {None}]
        /\ lines' \in [Lines -> Values \cup {None}]
    BY <1>2 DEF UpdateOrder
  <2> QED BY <2>1, CommitType
<1>3. ASSUME NEW o \in Orders, DeleteOrder(o)
      PROVE  TypeOK'
  <2>1. Commit("orders", "delete", o, None, orders[o])
        /\ orders' \in [Orders -> Values \cup {None}]
        /\ lines' \in [Lines -> Values \cup {None}]
        /\ orders[o] \in Values
    BY <1>3 DEF DeleteOrder
  <2> QED BY <2>1, CommitType
<1>4. ASSUME NEW l \in Lines, NEW v \in Values, InsertLine(l, v)
      PROVE  TypeOK'
  <2>1. Commit("details", "insert", l[1], l[2], v)
        /\ orders' \in [Orders -> Values \cup {None}]
        /\ lines' \in [Lines -> Values \cup {None}]
        /\ l[1] \in Orders /\ l[2] \in Products
    BY <1>4 DEF InsertLine, Lines
  <2> QED BY <2>1, CommitType
<1>5. ASSUME NEW l \in Lines, NEW v \in Values, UpdateLine(l, v)
      PROVE  TypeOK'
  <2>1. Commit("details", "update", l[1], l[2], v)
        /\ orders' \in [Orders -> Values \cup {None}]
        /\ lines' \in [Lines -> Values \cup {None}]
        /\ l[1] \in Orders /\ l[2] \in Products
    BY <1>5 DEF UpdateLine, Lines
  <2> QED BY <2>1, CommitType
<1>6. ASSUME NEW l \in Lines, DeleteLine(l)
      PROVE  TypeOK'
  <2>1. Commit("details", "delete", l[1], l[2], lines[l])
        /\ orders' \in [Orders -> Values \cup {None}]
        /\ lines' \in [Lines -> Values \cup {None}]
        /\ l[1] \in Orders /\ l[2] \in Products /\ lines[l] \in Values
    BY <1>6 DEF DeleteLine, Lines
  <2> QED BY <2>1, CommitType
<1> QED BY <1>1, <1>2, <1>3, <1>4, <1>5, <1>6 DEF Source

\* Stage one: windows, landing and the snapshot.
LEMMA StageOneType == ASSUME TypeOK, RunStageOne PROVE TypeOK'
<1> USE DEF TypeOK, StageOne, StageTwo
<1>1. CASE ClearStaging
  <2>1. Step("clear", "orderWindow") /\ Within
    BY <1>1 DEF ClearStaging
  <2> QED BY <1>1, <2>1, StepType DEF ClearStaging, history
<1>2. ASSUME NEW t \in Tables, NEW here, NEW next \in StageOne,
             GetCdcWindow(t, here, next)
      PROVE  TypeOK'
  <2>1. Step(here, next) /\ Within
    BY <1>2 DEF GetCdcWindow
  <2>2. FromLsn(t) \in Nat /\ Lsn(captured) \in Nat
    BY DEF FromLsn, Lsn, MinLsn
  <2>3. window' \in [Tables -> [from: Nat, to: Nat]]
    BY <1>2, <2>2 DEF GetCdcWindow
  <2> QED BY <1>2, <2>1, <2>3, StepType DEF GetCdcWindow, staging, history
<1>3. \A t : InWindow(t) \subseteq 1..captured
  BY DEF InWindow
<1>4. CASE LandOrders
  <2>1. Step("landOrders", "landDetails") /\ Within /\ Land("orders")
        /\ coalesced' \subseteq Lines
    BY <1>4 DEF LandOrders, UndeterminedOrders
  <2> QED BY <1>3, <2>1, StepType DEF Land
<1>5. CASE LandDetails
  <2>1. Step("landDetails", "snapOrders") /\ Within /\ Land("details")
        /\ coalesced' \subseteq Lines
    BY <1>5 DEF LandDetails, UndeterminedLines
  <2> QED BY <1>3, <2>1, StepType DEF Land
<1>6. CASE SnapshotOrders
  <2>1. Step("snapOrders", "snapLines") /\ Within
        /\ snapOrders' \in [Orders -> Values \cup {None}]
        /\ snapLines' \in [Lines -> Values \cup {None}]
    BY <1>6 DEF SnapshotOrders
  <2> QED BY <1>6, <2>1, StepType DEF SnapshotOrders, history
<1>7. CASE SnapshotLines
  <2>1. Step("snapLines", "ordersInsert") /\ Fresh
        /\ snapLines' \in [Lines -> Values \cup {None}]
    BY <1>7 DEF SnapshotLines
  <2> QED BY <1>7, <2>1, StepType DEF SnapshotLines, history
<1> QED BY <1>1, <1>2, <1>4, <1>5, <1>6, <1>7
        DEF RunStageOne, GetOrderWindow, GetDetailWindow

\* Stage two: the six applications, the watermarks, the end of the run.
LEMMA StageTwoType == ASSUME TypeOK, RunStageTwo PROVE TypeOK'
<1> USE DEF StageOne, StageTwo
<1>1. ASSUME NEW op \in Ops, NEW here, NEW next \in StageTwo,
             ApplyOrders(op, here, next)
      PROVE  TypeOK'
  <2>1. Step(here, next) /\ Within
    BY <1>1 DEF ApplyOrders
  <2>2. /\ version' \in [Products -> 0..MaxVersions]
        /\ facts' \in [FactKeys -> Rows \cup {None}]
    BY <1>1, OrderRowsType, WriteType DEF ApplyOrders
  <2>3. applied' \subseteq 1..captured
    BY <1>1, StagedPositions DEF ApplyOrders, TypeOK
  <2> QED BY <1>1, <2>1, <2>2, <2>3, StepType DEF ApplyOrders, staging, TypeOK
<1>2. ASSUME NEW op \in Ops, NEW here, NEW next \in StageTwo,
             ApplyLines(op, here, next)
      PROVE  TypeOK'
  <2>1. Step(here, next) /\ Within
    BY <1>2 DEF ApplyLines
  <2>2. /\ version' \in [Products -> 0..MaxVersions]
        /\ facts' \in [FactKeys -> Rows \cup {None}]
    BY <1>2, LineRowsType, WriteType DEF ApplyLines
  <2>3. applied' \subseteq 1..captured
    BY <1>2, StagedPositions DEF ApplyLines, TypeOK
  <2> QED BY <1>2, <2>1, <2>2, <2>3, StepType DEF ApplyLines, staging, TypeOK
<1>3. CASE TombstoneDeletedOrders
  <2>1. Step("tombstone", "markOrders") /\ Within
    BY <1>3 DEF TombstoneDeletedOrders
  <2>2. \A r \in Rows : [r EXCEPT !.deleted = TRUE] \in Rows
    BY DEF Rows
  <2>3. facts' \in [FactKeys -> Rows \cup {None}]
    BY <1>3, <2>2 DEF TombstoneDeletedOrders, TypeOK
  <2>4. applied' \subseteq 1..captured
    BY <1>3, StagedPositions DEF TombstoneDeletedOrders, TypeOK
  <2> QED BY <1>3, <2>1, <2>3, <2>4, StepType
          DEF TombstoneDeletedOrders, staging, TypeOK
<1>4. ASSUME NEW t \in Tables, NEW here, NEW next \in StageTwo,
             WriteWatermark(t, here, next)
      PROVE  TypeOK'
  <2>1. Step(here, next) /\ Within
    BY <1>4 DEF WriteWatermark
  <2>2. wm' \in [Tables -> Nat \cup {None}]
    BY <1>4 DEF WriteWatermark, TypeOK
  <2> QED BY <1>4, <2>1, <2>2, StepType DEF WriteWatermark, staging, history, TypeOK
<1>5. CASE EndRun
  <2>1. Step("report", "idle") /\ Fresh
    BY <1>5 DEF EndRun
  <2> QED BY <1>5, <2>1, StepType DEF EndRun, staging, history, TypeOK
<1> QED BY <1>1, <1>2, <1>3, <1>4, <1>5
        DEF RunStageTwo, ApplyOrdersInsert, ApplyOrdersUpdate, ApplyDetailsInsert,
            ApplyDetailsUpdate, ApplyDetailsDelete, MarkOrders, MarkDetails

\* A failure, whatever its cause, but for the count of failures.
LEMMA FailureType ==
    ASSUME TypeOK, TaskFails, failures' \in 0..MaxFailures
    PROVE  TypeOK'
<1>1. attempt' \in 0..Retries
  BY BoundsAssumption DEF TypeOK, TaskFails, Retry, FailRun, Fresh
<1>2. pc' \in {"idle"} \cup StageOne \cup StageTwo
  BY DEF TypeOK, TaskFails, Retry, FailRun, TaskStart, StageOne, StageTwo
<1>3. coalesced' \subseteq Lines
  BY DEF TypeOK, TaskFails, Retry, FailRun, HalfReapplied
<1> QED BY <1>1, <1>2, <1>3 DEF TypeOK, TaskFails, source, staging

LEMMA TypeStep == TypeOK /\ [Next]_vars => TypeOK'
<1> SUFFICES ASSUME TypeOK, [Next]_vars PROVE TypeOK'
  OBVIOUS
<1>1. CASE Source
  BY <1>1, SourceType
<1>2. CASE Capture
  BY <1>2 DEF Capture, TypeOK, source, staging, history
<1>3. ASSUME NEW p \in Products, NewVersion(p)
      PROVE  TypeOK'
  BY <1>3, BoundsAssumption DEF NewVersion, TypeOK, source, staging, history
<1>4. CASE StartRun
  <2>1. Step("idle", "clear") /\ Fresh /\ "clear" \in StageOne
    BY <1>4 DEF StartRun, StageOne
  <2> QED BY <1>4, <2>1, StepType DEF StartRun, staging, history, TypeOK
<1>5. CASE RunTask
  <2>1. CASE Unhealthy
    BY <2>1, FailureType DEF Unhealthy, TypeOK
  <2> QED BY <1>5, <2>1, StageOneType, StageTwoType DEF RunTask
<1>6. CASE Fail
  <2>1. failures' \in 0..MaxFailures
    BY <1>6, BoundsAssumption DEF Fail, TypeOK
  <2> QED BY <1>6, <2>1, FailureType DEF Fail
<1>7. CASE UNCHANGED vars
  BY <1>7 DEF vars, source, staging, history, TypeOK
<1> QED BY <1>1, <1>2, <1>3, <1>4, <1>5, <1>6, <1>7 DEF Next

\* Every variable keeps its type, whatever the interleaving of clerks, capture
\* job, dimension load, task steps and failures (staging and the applied set
\* never name a change that is not captured).
THEOREM TypeCorrect == Spec => []TypeOK
<1> QED BY TypeInit, TypeStep, PTL DEF Spec

-----------------------------------------------------------------------------
(* Delivery: a watermark only covers what has been applied.                *)

\* A commit changes no entry of the log.
LEMMA CommitKeepsLog ==
    ASSUME TypeOK, Source
    PROVE  /\ Len(log) \in Nat /\ Len(log') = Len(log) + 1
           /\ \A i \in 1..Len(log) : log'[i] = log[i]
           /\ UNCHANGED <<captured, wm, pc, attempt, failures, window, staging,
                          version, facts, history>>
<1>1. PICK c : log' = Append(log, c)
  BY DEF Source, InsertOrder, UpdateOrder, DeleteOrder, InsertLine, UpdateLine,
         DeleteLine, Commit
<1>2. log \in Seq(Changes)
  BY DEF TypeOK
<1>3. /\ Len(log) \in Nat /\ Len(log') = Len(log) + 1
      /\ \A i \in 1..Len(log) : log'[i] = log[i]
  BY <1>1, <1>2
<1>4. UNCHANGED <<captured, wm, pc, attempt, failures, window, staging,
                  version, facts, history>>
  BY DEF Source, InsertOrder, UpdateOrder, DeleteOrder, InsertLine, UpdateLine,
         DeleteLine, Commit
<1> QED BY <1>3, <1>4

\* The facts about positions, LSNs and tables that every case needs.
LEMMA PositionTypes ==
    ASSUME TypeOK
    PROVE  /\ Len(log) \in Nat /\ DOMAIN log = 1..Len(log)
           /\ captured \in Nat /\ captured <= Len(log)
           /\ \A t \in Tables : /\ wm[t] \in Nat \cup {None}
                                /\ window[t].from \in Nat
                                /\ window[t].to \in Nat
           /\ \A j \in DOMAIN log : log[j].table \in Tables /\ log[j].op \in Ops
           /\ None \notin Nat
<1>1. log \in Seq(Changes) /\ captured \in 0..Len(log)
  BY DEF TypeOK
<1>2. Len(log) \in Nat /\ DOMAIN log = 1..Len(log)
  BY <1>1
<1>3. captured \in Nat /\ captured <= Len(log)
  BY <1>1, <1>2
<1>4. \A t \in Tables : /\ wm[t] \in Nat \cup {None}
                        /\ window[t].from \in Nat /\ window[t].to \in Nat
  BY DEF TypeOK
<1>5. \A j \in DOMAIN log : log[j].table \in Tables /\ log[j].op \in Ops
  BY <1>2, LogEntry
<1> QED BY <1>2, <1>3, <1>4, <1>5, NoneAssumption

LEMMA DeliveryInit == Init => DeliveryInv
  BY NoneAssumption DEF Init, DeliveryInv, WithinCaptured, WindowsJoin, Landed,
     Applied, NoSkippedChange, HasWindow, HasLanded, HasApplied, StageOne,
     StageTwo, Marking, Lsn, MinLsn, InWindow, Staged

\* A step that moves neither watermarks nor windows, and is not past a
\* window, a landing or an application that has not happened.
LEMMA ControlStep ==
    ASSUME TypeOK, DeliveryInv,
           UNCHANGED <<log, captured, wm, window, staged>>,
           applied \subseteq applied',
           \A t \in Tables : HasWindow(t)' => HasWindow(t),
           \A t \in Tables : HasLanded(t)' => HasLanded(t),
           \A t \in Tables, op \in Ops :
                HasApplied(t, op)' =>
                    HasApplied(t, op) \/ Staged(t, op) \subseteq applied'
    PROVE  DeliveryInv'
<1>1. WithinCaptured'
  BY DEF DeliveryInv, WithinCaptured, Lsn
<1>2. WindowsJoin'
  BY DEF DeliveryInv, WindowsJoin, FromLsn, IsEmpty
<1>3. Landed'
  BY DEF DeliveryInv, Landed, InWindow, IsEmpty, Lsn
<1>4. \A t \in Tables, op \in Ops : Staged(t, op)' = Staged(t, op)
  BY DEF Staged
<1>5. Applied'
  BY <1>4 DEF DeliveryInv, Applied
<1>6. NoSkippedChange'
  BY DEF DeliveryInv, NoSkippedChange, Acknowledged, Lsn
<1> QED BY <1>1, <1>2, <1>3, <1>5, <1>6 DEF DeliveryInv

LEMMA DeliverySource == ASSUME TypeOK, DeliveryInv, Source PROVE DeliveryInv'
<1>1. /\ Len(log) \in Nat /\ Len(log') = Len(log) + 1
      /\ \A i \in 1..Len(log) : log'[i] = log[i]
      /\ UNCHANGED <<captured, wm, pc, window, staged, applied>>
  BY CommitKeepsLog DEF staging, history
<1>2. TypeOK'
  BY SourceType
<1>3. \A i \in 1..captured : i \in 1..Len(log) /\ log'[i] = log[i]
  BY <1>1, PositionTypes
<1>4. \A t \in Tables : InWindow(t)' = InWindow(t)
  BY <1>1, <1>3 DEF InWindow, IsEmpty, Lsn
<1>5. \A t \in Tables, op \in Ops : Staged(t, op)' = Staged(t, op)
  BY <1>1, <1>3 DEF Staged, TypeOK
<1>6. ASSUME NEW i \in DOMAIN log', Acknowledged(i)'
      PROVE  i \in applied'
  <2>1. i \in 1..Len(log) + 1
    BY <1>1, <1>2, PositionTypes
  <2>2. i # Len(log) + 1
    <3> SUFFICES ASSUME i = Len(log) + 1 PROVE FALSE
      OBVIOUS
    <3> DEFINE t == log'[i].table
    <3>1. t \in Tables
      <4>1. log' \in Seq(Changes)
        BY <1>2 DEF TypeOK
      <4>2. log'[i] \in Changes
        BY <4>1, <1>6
      <4> QED BY <4>2 DEF Changes
    <3>2. wm[t] # None /\ Lsn(i) <= wm[t]
      BY <1>1, <1>6 DEF Acknowledged, Lsn
    <3>3. wm[t] \in Nat /\ wm[t] <= Lsn(captured)
      BY <3>1, <3>2, PositionTypes DEF DeliveryInv, WithinCaptured
    <3> QED BY <3>2, <3>3, <1>1, PositionTypes DEF Lsn
  <2>3. i \in 1..Len(log) /\ log'[i] = log[i]
    BY <1>1, <2>1, <2>2
  <2> QED BY <1>1, <1>6, <2>3, PositionTypes
          DEF DeliveryInv, NoSkippedChange, Acknowledged, Lsn
<1>7. WithinCaptured' /\ WindowsJoin' /\ Landed' /\ Applied'
  BY <1>1, <1>4, <1>5 DEF DeliveryInv, WithinCaptured, WindowsJoin, Landed,
     Applied, HasWindow, HasLanded, HasApplied, FromLsn, IsEmpty, Lsn
<1> QED BY <1>6, <1>7 DEF DeliveryInv, NoSkippedChange

LEMMA DeliveryCapture == ASSUME TypeOK, DeliveryInv, Capture PROVE DeliveryInv'
<1>1. /\ captured' \in Nat /\ captured < captured'
      /\ UNCHANGED <<log, wm, pc, window, staged, applied>>
  BY PositionTypes DEF Capture, source, staging, history
<1>2. WithinCaptured'
  <2>1. captured \in Nat /\ 0..captured \subseteq 0..captured'
        /\ Lsn(captured) <= Lsn(captured')
    BY <1>1, PositionTypes DEF Lsn
  <2>2. ASSUME NEW t \in Tables, wm[t] # None PROVE wm[t] <= Lsn(captured')
    <3>1. wm[t] \in Nat /\ wm[t] <= Lsn(captured)
      BY <2>2, PositionTypes DEF DeliveryInv, WithinCaptured
    <3> QED BY <1>1, <2>1, <3>1 DEF Lsn
  <2>3. \A t \in Tables : \E n \in 0..captured' : window[t].to = Lsn(n)
    BY <2>1 DEF DeliveryInv, WithinCaptured
  <2> QED BY <1>1, <2>2, <2>3 DEF WithinCaptured, Lsn
<1>3. ASSUME NEW t \in Tables PROVE InWindow(t)' \subseteq InWindow(t)
  <2>1. PICK n \in 0..captured : window[t].to = Lsn(n)
    BY DEF DeliveryInv, WithinCaptured
  <2>2. \A i \in 1..captured' : Lsn(i) <= window[t].to => i \in 1..captured
    BY <1>1, <2>1, PositionTypes DEF Lsn
  <2> QED BY <1>1, <2>2 DEF InWindow, IsEmpty, Lsn
<1>4. Landed'
  BY <1>1, <1>3 DEF DeliveryInv, Landed, HasLanded
<1>5. WindowsJoin' /\ Applied' /\ NoSkippedChange'
  BY <1>1 DEF DeliveryInv, WindowsJoin, Applied, NoSkippedChange, HasWindow,
     HasApplied, FromLsn, IsEmpty, Staged, Acknowledged, Lsn
<1> QED BY <1>2, <1>4, <1>5 DEF DeliveryInv

\* Stage one up to the snapshot: the steps ControlStep does not cover.
LEMMA DeliveryStageOne == ASSUME TypeOK, DeliveryInv, RunStageOne PROVE DeliveryInv'
<1> USE DEF Step, Within, Fresh, source, staging, history
<1>1. CASE ClearStaging
  <2>1. /\ UNCHANGED <<log, captured, wm, window, applied>> /\ staged' = {}
        /\ pc' = "orderWindow"
    BY <1>1 DEF ClearStaging
  <2>2. \A t \in Tables : ~HasWindow(t)' /\ ~HasLanded(t)'
    BY <2>1 DEF HasWindow, HasLanded, StageTwo
  <2>3. \A t \in Tables, op \in Ops : Staged(t, op)' = {}
    BY <2>1 DEF Staged
  <2>4. WithinCaptured' /\ NoSkippedChange'
    BY <2>1 DEF DeliveryInv, WithinCaptured, NoSkippedChange, Acknowledged, Lsn
  <2> QED BY <2>2, <2>3, <2>4 DEF DeliveryInv, WindowsJoin, Landed, Applied
<1>2. ASSUME NEW t \in Tables, NEW here, NEW next,
             GetCdcWindow(t, here, next),
             \A u \in Tables : HasWindow(u)' => HasWindow(u) \/ u = t,
             \A u \in Tables : ~HasLanded(u)',
             \A u \in Tables, op \in Ops : ~HasApplied(u, op)'
      PROVE  DeliveryInv'
  <2>1. /\ UNCHANGED <<log, captured, wm, staged, applied>>
        /\ window' = [window EXCEPT ![t] = [from |-> FromLsn(t),
                                            to   |-> Lsn(captured)]]
    BY <1>2 DEF GetCdcWindow
  <2>2. /\ window'[t].from = FromLsn(t) /\ window'[t].to = Lsn(captured)
        /\ \A u \in Tables \ {t} : window'[u] = window[u]
    BY <2>1 DEF TypeOK
  <2>3. WithinCaptured'
    BY <2>1, <2>2, PositionTypes DEF DeliveryInv, WithinCaptured, Lsn
  <2>4. ASSUME NEW u \in Tables, HasWindow(u)'
        PROVE  /\ window'[u].from <= FromLsn(u)'
               /\ wm'[u] # None /\ ~IsEmpty(window[u])' => wm'[u] <= window'[u].to
    <3>1. CASE u = t
      <4>1. FromLsn(t) \in Nat /\ FromLsn(t)' = FromLsn(t)
        BY <2>1, PositionTypes DEF FromLsn, MinLsn
      <4>2. wm[t] # None => wm[t] <= Lsn(captured)
        BY DEF DeliveryInv, WithinCaptured
      <4> QED BY <3>1, <2>1, <2>2, <4>1, <4>2
    <3>2. CASE u # t
      BY <1>2, <2>1, <2>2, <2>4, <3>2 DEF DeliveryInv, WindowsJoin, FromLsn, IsEmpty
    <3> QED BY <3>1, <3>2
  <2>5. NoSkippedChange'
    BY <2>1 DEF DeliveryInv, NoSkippedChange, Acknowledged, Lsn
  <2> QED BY <1>2, <2>3, <2>4, <2>5 DEF DeliveryInv, WindowsJoin, Landed, Applied
<1>3. CASE GetOrderWindow
  <2>1. pc' = "detailWindow"
    BY <1>3 DEF GetOrderWindow, GetCdcWindow
  <2> QED BY <1>2, <1>3, <2>1 DEF GetOrderWindow, HasWindow, HasLanded,
          HasApplied, StageTwo, Marking
<1>4. CASE GetDetailWindow
  <2>1. pc = "detailWindow" /\ pc' = "landOrders"
    BY <1>4 DEF GetDetailWindow, GetCdcWindow
  <2> QED BY <1>2, <1>4, <2>1 DEF GetDetailWindow, HasWindow, HasLanded,
          HasApplied, StageTwo, Marking
<1>5. ASSUME NEW t \in Tables, Land(t), UNCHANGED <<log, captured>>,
             \A u \in Tables : HasWindow(u)' => HasWindow(u),
             \A u \in Tables : HasLanded(u)' => HasLanded(u) \/ u = t,
             \A u \in Tables, op \in Ops : ~HasApplied(u, op)'
      PROVE  DeliveryInv'
  <2>1. /\ UNCHANGED <<wm, window, applied>>
        /\ staged' = staged \cup InWindow(t)
    BY <1>5 DEF Land
  <2>2. \A u \in Tables : InWindow(u)' = InWindow(u)
    BY <1>5, <2>1 DEF InWindow, IsEmpty, Lsn
  <2>3. Landed'
    BY <1>5, <2>1, <2>2 DEF DeliveryInv, Landed
  <2>4. WithinCaptured' /\ NoSkippedChange'
    BY <1>5, <2>1 DEF DeliveryInv, WithinCaptured, NoSkippedChange, Acknowledged, Lsn
  <2>5. WindowsJoin'
    BY <1>5, <2>1 DEF DeliveryInv, WindowsJoin, FromLsn, IsEmpty
  <2> QED BY <1>5, <2>3, <2>4, <2>5 DEF DeliveryInv, Applied
<1>6. CASE LandOrders
  <2>1. pc = "landOrders" /\ pc' = "landDetails" /\ Land("orders")
        /\ UNCHANGED <<log, captured>>
    BY <1>6 DEF LandOrders
  <2> QED BY <1>5, <2>1 DEF HasWindow, HasLanded, HasApplied, StageTwo, Marking
<1>7. CASE LandDetails
  <2>1. pc = "landDetails" /\ pc' = "snapOrders" /\ Land("details")
        /\ UNCHANGED <<log, captured>>
    BY <1>7 DEF LandDetails
  <2> QED BY <1>5, <2>1 DEF HasWindow, HasLanded, HasApplied, StageTwo, Marking
<1>8. CASE SnapshotOrders
  <2>1. /\ pc = "snapOrders" /\ pc' = "snapLines"
        /\ UNCHANGED <<log, captured, wm, window, staged, applied>>
    BY <1>8 DEF SnapshotOrders
  <2> QED BY <2>1, ControlStep DEF HasWindow, HasLanded, HasApplied, StageTwo, Marking
<1>9. CASE SnapshotLines
  <2>1. /\ pc = "snapLines" /\ pc' = "ordersInsert"
        /\ UNCHANGED <<log, captured, wm, window, staged, applied>>
    BY <1>9 DEF SnapshotLines
  <2> QED BY <2>1, ControlStep DEF HasWindow, HasLanded, HasApplied, StageTwo, Marking
<1> QED BY <1>1, <1>3, <1>4, <1>6, <1>7, <1>8, <1>9 DEF RunStageOne

\* A change that writing a watermark newly acknowledges is in the window that
\* was read, and its row is still in staging.
LEMMA MarkedStaged ==
    ASSUME TypeOK, DeliveryInv, NEW t \in Tables, NEW here \in Marking, NEW next,
           WriteWatermark(t, here, next),
           NEW i \in DOMAIN log, Acknowledged(i)', ~Acknowledged(i)
    PROVE  log[i].table = t /\ i \in staged
<1>1. /\ log' = log /\ pc \in Marking
      /\ wm' = IF IsEmpty(window[t]) THEN wm ELSE [wm EXCEPT ![t] = window[t].to]
  BY DEF WriteWatermark, Step, source
<1>2. HasWindow(t) /\ HasLanded(t)
  BY <1>1 DEF HasWindow, HasLanded, Marking, StageTwo
<1>3. i \in Nat /\ log[i].table \in Tables
  BY PositionTypes
<1>4. /\ ~IsEmpty(window[t]) /\ wm'[t] = window[t].to
      /\ \A u \in Tables \ {t} : wm'[u] = wm[u]
  BY <1>1 DEF TypeOK, Acknowledged, Lsn
<1>5. log[i].table = t /\ Lsn(i) <= window[t].to
  BY <1>1, <1>3, <1>4 DEF Acknowledged, Lsn
<1>6. i \in 1..captured
  <2>1. PICK n \in 0..captured : window[t].to = Lsn(n)
    BY DEF DeliveryInv, WithinCaptured
  <2> QED BY <1>3, <1>5, <2>1, PositionTypes DEF Lsn
<1>7. window[t].from <= FromLsn(t)
  BY <1>2 DEF DeliveryInv, WindowsJoin
<1>8. FromLsn(t) \in Nat /\ FromLsn(t) <= Lsn(i)
  BY <1>5, <1>6, PositionTypes DEF Acknowledged, FromLsn, MinLsn, Lsn
<1>9. i \in InWindow(t)
  BY <1>4, <1>5, <1>6, <1>7, <1>8, PositionTypes DEF InWindow, Lsn
<1> QED BY <1>2, <1>5, <1>9 DEF DeliveryInv, Landed

\* Writing a watermark: every change it newly covers is in the window, hence
\* staged, hence applied.
LEMMA DeliveryMark ==
    ASSUME TypeOK, DeliveryInv, NEW t \in Tables, NEW here \in Marking,
           NEW next \in Marking, WriteWatermark(t, here, next)
    PROVE  DeliveryInv'
<1>1. /\ UNCHANGED <<log, captured, window, staged, applied>>
      /\ pc \in Marking /\ pc' \in Marking
      /\ wm' = IF IsEmpty(window[t]) THEN wm ELSE [wm EXCEPT ![t] = window[t].to]
  BY DEF WriteWatermark, Step, source, staging, history
<1>2. \A u \in Tables : /\ HasWindow(u) /\ HasLanded(u)
                        /\ \A op \in Ops : HasApplied(u, op)
  BY <1>1 DEF HasWindow, HasLanded, HasApplied, Marking, StageTwo
<1>3. CASE IsEmpty(window[t])
  <2>1. \A u \in Tables, op \in Ops : Staged(u, op) \subseteq applied
    BY <1>2 DEF DeliveryInv, Applied
  <2> QED BY <1>1, <1>2, <1>3, <2>1, ControlStep
<1>4. CASE ~IsEmpty(window[t])
  <2>1. /\ wm'[t] = window[t].to /\ \A u \in Tables \ {t} : wm'[u] = wm[u]
        /\ window[t].from < window[t].to
    BY <1>1, <1>4, PositionTypes DEF TypeOK, IsEmpty
  <2>2. PICK n \in 0..captured : window[t].to = Lsn(n)
    BY DEF DeliveryInv, WithinCaptured
  <2>3. WithinCaptured'
    <3>1. wm'[t] <= Lsn(captured)
      BY <2>1, <2>2, PositionTypes DEF Lsn
    <3>2. \A u \in Tables \ {t} : wm'[u] # None => wm'[u] <= Lsn(captured)
      BY <2>1 DEF DeliveryInv, WithinCaptured
    <3>3. \A u \in Tables : \E m \in 0..captured : window[u].to = Lsn(m)
      BY DEF DeliveryInv, WithinCaptured
    <3> QED BY <1>1, <3>1, <3>2, <3>3 DEF WithinCaptured, Lsn
  <2>4. WindowsJoin'
    <3>1. \A u \in Tables : /\ window[u].from <= FromLsn(u)
                            /\ wm[u] # None /\ ~IsEmpty(window[u]) =>
                                    wm[u] <= window[u].to
      BY <1>2 DEF DeliveryInv, WindowsJoin
    <3>2. FromLsn(t)' = window[t].to + 1 /\ wm'[t] <= window'[t].to
          /\ window[t].from <= window[t].to + 1
      BY <1>1, <2>1, PositionTypes DEF FromLsn
    <3>3. \A u \in Tables \ {t} : FromLsn(u)' = FromLsn(u) /\ wm'[u] = wm[u]
      BY <2>1 DEF FromLsn
    <3>4. \A u \in Tables : IsEmpty(window[u])' = IsEmpty(window[u])
      BY <1>1 DEF IsEmpty
    <3>5. window[t].from <= FromLsn(t)'
      BY <3>2
    <3> QED BY <1>1, <3>1, <3>2, <3>3, <3>4, <3>5 DEF WindowsJoin
  <2>5. Landed' /\ Applied'
    BY <1>1, <1>2 DEF DeliveryInv, Landed, Applied, InWindow, IsEmpty, Staged, Lsn
  <2>6. ASSUME NEW i \in DOMAIN log, Acknowledged(i)' PROVE i \in applied
    <3>1. CASE Acknowledged(i)
      BY <3>1 DEF DeliveryInv, NoSkippedChange
    <3>2. CASE ~Acknowledged(i)
      <4>1. log[i].table = t /\ i \in staged /\ log[i].op \in Ops
        BY <2>6, <3>2, MarkedStaged, PositionTypes
      <4>2. i \in Staged(t, log[i].op)
        BY <4>1 DEF Staged
      <4> QED BY <1>2, <4>1, <4>2 DEF DeliveryInv, Applied
    <3> QED BY <3>1, <3>2
  <2> QED BY <1>1, <2>3, <2>4, <2>5, <2>6 DEF DeliveryInv, NoSkippedChange
<1> QED BY <1>3, <1>4

\* Stage two: each application discharges one of the six tables.
LEMMA DeliveryStageTwo == ASSUME TypeOK, DeliveryInv, RunStageTwo PROVE DeliveryInv'
<1> USE DEF Step, source, staging, history
<1>1. CASE ApplyOrdersInsert
  <2>1. /\ pc = "ordersInsert" /\ pc' = "ordersUpdate"
        /\ UNCHANGED <<log, captured, wm, window, staged>>
        /\ applied' = applied \cup Staged("orders", "insert")
    BY <1>1 DEF ApplyOrdersInsert, ApplyOrders
  <2> QED BY <2>1, ControlStep DEF HasWindow, HasLanded, HasApplied, StageTwo, Marking
<1>2. CASE ApplyOrdersUpdate
  <2>1. /\ pc = "ordersUpdate" /\ pc' = "detailsInsert"
        /\ UNCHANGED <<log, captured, wm, window, staged>>
        /\ applied' = applied \cup Staged("orders", "update")
    BY <1>2 DEF ApplyOrdersUpdate, ApplyOrders
  <2> QED BY <2>1, ControlStep DEF HasWindow, HasLanded, HasApplied, StageTwo, Marking
<1>3. CASE ApplyDetailsInsert
  <2>1. /\ pc = "detailsInsert" /\ pc' = "detailsUpdate"
        /\ UNCHANGED <<log, captured, wm, window, staged>>
        /\ applied' = applied \cup Staged("details", "insert")
    BY <1>3 DEF ApplyDetailsInsert, ApplyLines
  <2> QED BY <2>1, ControlStep DEF HasWindow, HasLanded, HasApplied, StageTwo, Marking
<1>4. CASE ApplyDetailsUpdate
  <2>1. /\ pc = "detailsUpdate" /\ pc' = "detailsDelete"
        /\ UNCHANGED <<log, captured, wm, window, staged>>
        /\ applied' = applied \cup Staged("details", "update")
    BY <1>4 DEF ApplyDetailsUpdate, ApplyLines
  <2> QED BY <2>1, ControlStep DEF HasWindow, HasLanded, HasApplied, StageTwo, Marking
<1>5. CASE ApplyDetailsDelete
  <2>1. /\ pc = "detailsDelete" /\ pc' = "tombstone"
        /\ UNCHANGED <<log, captured, wm, window, staged>>
        /\ applied' = applied \cup Staged("details", "delete")
    BY <1>5 DEF ApplyDetailsDelete, ApplyLines
  <2> QED BY <2>1, ControlStep DEF HasWindow, HasLanded, HasApplied, StageTwo, Marking
<1>6. CASE TombstoneDeletedOrders
  <2>1. /\ pc = "tombstone" /\ pc' = "markOrders"
        /\ UNCHANGED <<log, captured, wm, window, staged>>
        /\ applied' = applied \cup Staged("orders", "delete")
    BY <1>6 DEF TombstoneDeletedOrders
  <2> QED BY <2>1, ControlStep DEF HasWindow, HasLanded, HasApplied, StageTwo, Marking
<1>7. CASE MarkOrders \/ MarkDetails
  BY <1>7, DeliveryMark DEF MarkOrders, MarkDetails, Marking
<1>8. CASE EndRun
  <2>1. /\ pc = "report" /\ pc' = "idle"
        /\ UNCHANGED <<log, captured, wm, window, staged, applied>>
    BY <1>8 DEF EndRun
  <2> QED BY <2>1, ControlStep DEF HasWindow, HasLanded, HasApplied, StageTwo, Marking
<1> QED BY <1>1, <1>2, <1>3, <1>4, <1>5, <1>6, <1>7, <1>8 DEF RunStageTwo

\* A failed task owes no less than before: it goes back to its start, and a
\* failed run to where nothing is owed.
LEMMA DeliveryFailure ==
    ASSUME TypeOK, DeliveryInv, TaskFails, pc # "idle"
    PROVE  DeliveryInv'
<1>1. UNCHANGED <<log, captured, wm, window, staged, applied>>
  BY DEF TaskFails, source, staging
<1>2. \/ pc' \in {"idle", "clear"}
      \/ pc' = "ordersInsert" /\ pc \in StageTwo
  BY DEF TaskFails, Retry, FailRun, TaskStart, TypeOK
<1> QED BY <1>1, <1>2, ControlStep
        DEF HasWindow, HasLanded, HasApplied, StageTwo, Marking

LEMMA DeliveryStep == TypeOK /\ DeliveryInv /\ [Next]_vars => DeliveryInv'
<1> SUFFICES ASSUME TypeOK, DeliveryInv, [Next]_vars PROVE DeliveryInv'
  OBVIOUS
<1>1. CASE Source
  BY <1>1, DeliverySource
<1>2. CASE Capture
  BY <1>2, DeliveryCapture
<1>3. CASE \E p \in Products : NewVersion(p)
  <2>1. UNCHANGED <<log, captured, wm, pc, window, staged, applied>>
    BY <1>3 DEF NewVersion, source, staging, history
  <2> QED BY <2>1, ControlStep DEF HasWindow, HasLanded, HasApplied
<1>4. CASE StartRun
  <2>1. /\ pc' = "clear"
        /\ UNCHANGED <<log, captured, wm, window, staged, applied>>
    BY <1>4 DEF StartRun, Step, source, staging, history
  <2> QED BY <2>1, ControlStep DEF HasWindow, HasLanded, HasApplied, StageTwo, Marking
<1>5. CASE RunTask
  BY <1>5, DeliveryStageOne, DeliveryStageTwo, DeliveryFailure
  DEF RunTask, Unhealthy
<1>6. CASE Fail
  BY <1>6, DeliveryFailure DEF Fail
<1>7. CASE UNCHANGED vars
  <2>1. UNCHANGED <<log, captured, wm, pc, window, staged, applied>>
    BY <1>7 DEF vars, source, staging, history
  <2> QED BY <2>1, ControlStep DEF HasWindow, HasLanded, HasApplied
<1> QED BY <1>1, <1>2, <1>3, <1>4, <1>5, <1>6, <1>7 DEF Next

\* What every step of a run still covers (DeliveryInv) holds throughout.
THEOREM DeliveryInvariant == Spec => []DeliveryInv
<1> QED BY TypeCorrect, DeliveryInit, DeliveryStep, PTL DEF Spec

\* No watermark ever covers a change that stage two has not applied, however
\* often tasks fail and wherever they are started again.
THEOREM NeverSkips == Spec => []NoSkippedChange
<1>1. DeliveryInv => NoSkippedChange
  BY DEF DeliveryInv
<1> QED BY <1>1, DeliveryInvariant, PTL

-----------------------------------------------------------------------------
(* Refinement: the pipeline is an at-least-once delivery of its log.       *)

Acked == {i \in DOMAIN log : Acknowledged(i)}

\* A step that moves neither the log nor a watermark applies captured changes
\* or is invisible.
LEMMA QuietStep ==
    ASSUME TypeOK, TypeOK', UNCHANGED <<log, wm>>, applied \subseteq applied'
    PROVE  Delivery!Apply
<1>1. Acked' = Acked
  BY DEF Acked, Acknowledged, Lsn
<1>2. applied' \subseteq DOMAIN log
  <2>1. applied' \subseteq 1..captured' /\ captured' \in 0..Len(log)
    BY DEF TypeOK
  <2>2. Len(log) \in Nat /\ DOMAIN log = 1..Len(log)
    BY PositionTypes
  <2>3. ASSUME NEW n \in Nat, captured' \in 0..n PROVE 1..captured' \subseteq 1..n
    BY <2>3
  <2> QED BY <2>1, <2>2, <2>3
<1> QED BY <1>1, <1>2 DEF Delivery!Apply, Acked

\* A commit is a commit: no watermark reaches the new change yet.
LEMMA CommitStep ==
    ASSUME TypeOK, DeliveryInv, Source
    PROVE  Delivery!Commit
<1>1. /\ Len(log) \in Nat /\ Len(log') = Len(log) + 1
      /\ \A i \in 1..Len(log) : log'[i] = log[i]
      /\ UNCHANGED <<captured, wm, applied>>
  BY CommitKeepsLog DEF history
<1>2. TypeOK'
  BY SourceType
<1>3. PICK c : log' = Append(log, c)
  BY DEF Source, InsertOrder, UpdateOrder, DeleteOrder, InsertLine, UpdateLine,
         DeleteLine, Commit
<1>4. PICK n \in Nat : n = Len(log) + 1
  BY <1>1
<1>5. log \in Seq(Changes) /\ log' \in Seq(Changes)
  BY <1>2 DEF TypeOK
<1>6. c = log'[n] /\ DOMAIN log = 1..n - 1 /\ DOMAIN log' = 1..n
  BY <1>1, <1>3, <1>4, <1>5
<1>7. c \in Changes /\ c.table \in Tables
  <2>1. c \in Changes
    BY <1>4, <1>5, <1>6
  <2> QED BY <2>1 DEF Changes
<1>8. ~Acknowledged(n)'
  <2>1. wm[c.table] # None => wm[c.table] \in Nat /\ wm[c.table] <= Lsn(captured)
    BY <1>7, PositionTypes DEF DeliveryInv, WithinCaptured
  <2> QED BY <1>1, <1>4, <1>6, <2>1, PositionTypes DEF Acknowledged, Lsn
<1>9. ASSUME NEW i \in 1..n - 1 PROVE Acknowledged(i)' <=> Acknowledged(i)
  BY <1>1, <1>4 DEF Acknowledged, Lsn
<1>10. Acked' = Acked
  BY <1>4, <1>6, <1>8, <1>9 DEF Acked
<1> QED BY <1>1, <1>3, <1>7, <1>10 DEF Delivery!Commit, Acked

\* Writing a watermark acknowledges the changes of one table up to the last
\* position its window reached, all applied.
LEMMA AcknowledgeStep ==
    ASSUME TypeOK, DeliveryInv, DeliveryInv', NEW t \in Tables,
           NEW here \in Marking, NEW next, WriteWatermark(t, here, next)
    PROVE  Delivery!Acknowledge \/ UNCHANGED Delivery!vars
<1>1. /\ UNCHANGED <<log, captured, window, applied>> /\ pc \in Marking
      /\ wm' = IF IsEmpty(window[t]) THEN wm ELSE [wm EXCEPT ![t] = window[t].to]
  BY DEF WriteWatermark, Step, source, history
<1>2. CASE IsEmpty(window[t])
  BY <1>1, <1>2 DEF Delivery!vars, Acknowledged, Lsn
<1>3. CASE ~IsEmpty(window[t])
  <2>1. /\ wm'[t] = window[t].to /\ \A u \in Tables \ {t} : wm'[u] = wm[u]
        /\ window[t].from < window[t].to
    BY <1>1, <1>3, PositionTypes DEF TypeOK, IsEmpty
  <2>2. PICK n \in 0..captured : window[t].to = Lsn(n)
    BY DEF DeliveryInv, WithinCaptured
  <2>3. n \in DOMAIN log
    BY <2>1, <2>2, PositionTypes DEF Lsn
  <2>4. wm[t] # None => wm[t] <= window[t].to
    BY <1>1, <1>3 DEF DeliveryInv, WindowsJoin, HasWindow, Marking, StageTwo
  <2>5. ASSUME NEW i \in DOMAIN log
        PROVE  Acknowledged(i)' <=> Acknowledged(i) \/ i \in Delivery!Upto(t, n)
    <3>1. i \in Nat /\ log[i].table \in Tables
      BY PositionTypes
    <3>2. CASE log[i].table = t
      BY <1>1, <2>1, <2>2, <2>4, <2>5, <3>1, <3>2, PositionTypes
         DEF Acknowledged, Delivery!Upto, Lsn
    <3>3. CASE log[i].table # t
      BY <1>1, <2>1, <3>1, <3>3 DEF Acknowledged, Delivery!Upto, Lsn
    <3> QED BY <3>2, <3>3
  <2>6. Acked' = Acked \cup Delivery!Upto(t, n)
    BY <1>1, <2>5 DEF Acked, Delivery!Upto
  <2>7. Delivery!Upto(t, n) \subseteq applied
    <3>1. \A i \in DOMAIN log : Acknowledged(i)' => i \in applied
      BY <1>1 DEF DeliveryInv, NoSkippedChange
    <3> QED BY <2>5, <3>1 DEF Delivery!Upto
  <2> QED BY <1>1, <2>3, <2>6, <2>7 DEF Delivery!Acknowledge, Acked
<1> QED BY <1>2, <1>3

LEMMA RefinementInit == Init => Delivery!Init
  BY DEF Init, Delivery!Init

LEMMA RefinementStep ==
    TypeOK /\ TypeOK' /\ DeliveryInv /\ DeliveryInv' /\ [Next]_vars
        => [Delivery!Next]_Delivery!vars
<1> SUFFICES ASSUME TypeOK, TypeOK', DeliveryInv, DeliveryInv', [Next]_vars
             PROVE  Delivery!Next \/ UNCHANGED Delivery!vars
  OBVIOUS
<1> USE DEF Delivery!Next
<1>1. CASE Source
  BY <1>1, CommitStep
<1>2. CASE MarkOrders \/ MarkDetails
  BY <1>2, AcknowledgeStep DEF MarkOrders, MarkDetails, Marking
<1>3. CASE RunStageOne \/ Unhealthy
  <2>1. UNCHANGED <<log, wm, applied>>
    BY <1>3 DEF RunStageOne, ClearStaging, GetOrderWindow, GetDetailWindow,
       GetCdcWindow, LandOrders, LandDetails, Land, SnapshotOrders,
       SnapshotLines, Unhealthy, TaskFails, Step, source, history
  <2> QED BY <2>1, QuietStep
<1>4. CASE RunStageTwo /\ ~MarkOrders /\ ~MarkDetails
  <2>1. UNCHANGED <<log, wm>> /\ applied \subseteq applied'
    BY <1>4 DEF RunStageTwo, ApplyOrdersInsert, ApplyOrdersUpdate,
       ApplyDetailsInsert, ApplyDetailsUpdate, ApplyDetailsDelete, ApplyOrders,
       ApplyLines, TombstoneDeletedOrders, EndRun, Step, source, history
  <2> QED BY <2>1, QuietStep
<1>5. CASE Capture \/ (\E p \in Products : NewVersion(p)) \/ StartRun \/ Fail
           \/ UNCHANGED vars
  <2>1. UNCHANGED <<log, wm, applied>>
    BY <1>5 DEF Capture, NewVersion, StartRun, Fail, TaskFails, Step, vars,
       source, history
  <2> QED BY <2>1, QuietStep
<1> QED BY <1>1, <1>2, <1>3, <1>4, <1>5 DEF Next, RunTask

\* The detailed pipeline - windows, staging, joins, two tasks, retries -
\* implements at-least-once delivery in log order, for every instance.
THEOREM Refinement == Spec => ImplementsDelivery
<1> QED BY TypeCorrect, DeliveryInvariant, RefinementInit, RefinementStep, PTL
        DEF Spec, ImplementsDelivery, Delivery!Spec

-----------------------------------------------------------------------------
(* Deleted orders stay deleted.                                            *)

LEMMA DeletionInit == Init => DeletionInv
  BY DEF Init, DeletionInv, SourceGone, SnapshotGone, WarehouseGone, OrderDeletes

\* A commit never touches an order whose deletion is in the log.
LEMMA DeletionSource ==
    ASSUME TypeOK, DeliveryInv, DeletionInv, Source
    PROVE  DeletionInv'
<1>1. /\ Len(log) \in Nat /\ Len(log') = Len(log) + 1
      /\ \A i \in 1..Len(log) : log'[i] = log[i]
      /\ UNCHANGED <<captured, wm, pc, staged, snapOrders, snapLines, facts>>
  BY CommitKeepsLog DEF staging
<1>2. PICK n \in Nat : n = Len(log) + 1
  BY <1>1
<1>3. DOMAIN log = 1..n - 1 /\ DOMAIN log' = 1..n
  <2>1. log' \in Seq(Changes)
    BY SourceType DEF TypeOK
  <2> QED BY <1>1, <1>2, <2>1, PositionTypes
<1>4. ASSUME NEW i \in 1..n - 1
      PROVE  /\ log'[i] = log[i]
             /\ i \in OrderDeletes' <=> i \in OrderDeletes
             /\ Acknowledged(i)' <=> Acknowledged(i)
  BY <1>1, <1>2, <1>3 DEF OrderDeletes, Acknowledged, Lsn
<1>5. ~Acknowledged(n)' /\ n \notin staged'
  <2>1. log'[n].table \in Tables
    <3>1. log' \in Seq(Changes)
      BY SourceType DEF TypeOK
    <3>2. log'[n] \in Changes
      BY <1>1, <1>2, <3>1
    <3> QED BY <3>2 DEF Changes
  <2>2. wm[log'[n].table] # None =>
            wm[log'[n].table] \in Nat /\ wm[log'[n].table] <= Lsn(captured)
    BY <2>1, PositionTypes DEF DeliveryInv, WithinCaptured
  <2>3. ~Acknowledged(n)'
    BY <1>1, <1>2, <2>1, <2>2, PositionTypes DEF Acknowledged, Lsn
  <2>4. staged \subseteq 1..captured
    BY DEF TypeOK
  <2> QED BY <1>1, <1>2, <2>3, <2>4, PositionTypes
<1>6. SourceGone'
  <2>1. ASSUME NEW i \in 1..n - 1, i \in OrderDeletes
        PROVE  /\ orders'[log[i].order] = None
               /\ \A p \in Products : lines'[<<log[i].order, p>>] = None
    <3> DEFINE x == log[i].order
    <3>1. /\ i \in DOMAIN log /\ x \in Orders
          /\ orders[x] = None /\ \A q \in Products : lines[<<x, q>>] = None
      BY <1>1, <1>2, <1>3, <2>1, LogEntry, PositionTypes DEF DeletionInv, SourceGone
    <3>2. ASSUME NEW o \in Orders, NEW v \in Values,
                 InsertOrder(o, v) \/ UpdateOrder(o, v)
          PROVE  o # x /\ orders' = [orders EXCEPT ![o] = v] /\ lines' = lines
      BY <3>1, <3>2 DEF InsertOrder, UpdateOrder
    <3>3. ASSUME NEW o \in Orders, DeleteOrder(o)
          PROVE  orders' = [orders EXCEPT ![o] = None] /\ lines' = lines
      BY <3>3 DEF DeleteOrder
    <3>4. ASSUME NEW l \in Lines, NEW v \in Values,
                 InsertLine(l, v) \/ UpdateLine(l, v)
          PROVE  (\A p \in Products : l # <<x, p>>) /\ orders' = orders
                 /\ lines' = [lines EXCEPT ![l] = v]
      BY <3>1, <3>4 DEF InsertLine, UpdateLine
    <3>5. ASSUME NEW l \in Lines, DeleteLine(l)
          PROVE  orders' = orders /\ lines' = [lines EXCEPT ![l] = None]
      BY <3>5 DEF DeleteLine
    <3>6. \A p \in Products : <<x, p>> \in Lines
      BY <3>1 DEF Lines
    <3>7. /\ orders \in [Orders -> Values \cup {None}]
          /\ lines \in [Lines -> Values \cup {None}]
      BY DEF TypeOK
    <3> HIDE DEF x
    <3>8. orders'[x] = None
      BY <3>1, <3>2, <3>3, <3>4, <3>5, <3>7 DEF Source
    <3>9. ASSUME NEW p \in Products PROVE lines'[<<x, p>>] = None
      BY <3>1, <3>2, <3>3, <3>4, <3>5, <3>6, <3>7, <3>9 DEF Source
    <3> QED BY <3>8, <3>9 DEF x
  <2>2. ASSUME n \in OrderDeletes'
        PROVE  /\ orders'[log'[n].order] = None
               /\ \A p \in Products : lines'[<<log'[n].order, p>>] = None
    <3>1. log'[n].table = "orders" /\ log'[n].op = "delete"
      BY <2>2 DEF OrderDeletes
    <3>2. ASSUME NEW t, NEW op, NEW o, NEW p, NEW v, Commit(t, op, o, p, v)
          PROVE  log'[n].table = t /\ log'[n].op = op /\ log'[n].order = o
      <4>1. log' = Append(log, [table |-> t, op |-> op, order |-> o,
                                product |-> p, value |-> v])
        BY <3>2 DEF Commit
      <4>2. log \in Seq(Changes)
        BY DEF TypeOK
      <4>3. log'[n] = [table |-> t, op |-> op, order |-> o,
                       product |-> p, value |-> v]
        BY <1>2, <4>1, <4>2
      <4> QED BY <4>3
    <3>3. PICK o \in Orders : DeleteOrder(o)
      BY <3>1, <3>2 DEF Source, InsertOrder, UpdateOrder, InsertLine, UpdateLine,
         DeleteLine
    <3>4. log'[n].order = o
      BY <3>2, <3>3 DEF DeleteOrder
    <3> QED BY <3>3, <3>4 DEF DeleteOrder, TypeOK
  <2>3. ASSUME NEW i \in OrderDeletes'
        PROVE  /\ orders'[log'[i].order] = None
               /\ \A p \in Products : lines'[<<log'[i].order, p>>] = None
    <3>1. i = n \/ i \in 1..n - 1
      BY <1>3 DEF OrderDeletes
    <3> QED BY <1>4, <2>1, <2>2, <2>3, <3>1
  <2> QED BY <2>3 DEF SourceGone
<1>7. \A i \in OrderDeletes' : Acknowledged(i)' \/ i \in staged' =>
            i \in 1..n - 1 /\ i \in OrderDeletes
  BY <1>2, <1>3, <1>4, <1>5 DEF OrderDeletes
<1>8. SnapshotGone'
  BY <1>1, <1>4, <1>7 DEF DeletionInv, SnapshotGone
<1>9. \A o : NotLive(o)' <=> NotLive(o)
  BY <1>1 DEF NotLive
<1>10. WarehouseGone'
  BY <1>1, <1>4, <1>7, <1>9 DEF DeletionInv, WarehouseGone
<1> QED BY <1>6, <1>8, <1>10 DEF DeletionInv

\* A step that moves neither staging, watermarks nor facts, nor enters a part
\* of a run that promises more.
LEMMA DeletionFrame ==
    ASSUME DeletionInv,
           UNCHANGED <<orders, lines, log, wm, staged, snapOrders, snapLines>>,
           UNCHANGED facts,
           pc' \in StageTwo => pc \in StageTwo,
           pc' = "snapLines" => pc \in StageTwo \cup {"snapLines"},
           pc' \in Marking => pc \in Marking
    PROVE  DeletionInv'
<1>1. OrderDeletes' = OrderDeletes
      /\ \A i \in OrderDeletes : Acknowledged(i)' <=> Acknowledged(i)
  BY DEF OrderDeletes, Acknowledged, Lsn
<1>2. \A o : NotLive(o)' <=> NotLive(o)
  BY DEF NotLive
<1> QED BY <1>1, <1>2 DEF DeletionInv, SourceGone, SnapshotGone, WarehouseGone

LEMMA DeletionStageOne ==
    ASSUME TypeOK, DeletionInv, RunStageOne
    PROVE  DeletionInv'
<1> USE DEF Step, source, staging, history
<1>1. /\ UNCHANGED <<orders, lines, log, wm, facts>>
      /\ OrderDeletes' = OrderDeletes
      /\ \A i \in OrderDeletes : Acknowledged(i)' <=> Acknowledged(i)
      /\ \A o : NotLive(o)' <=> NotLive(o)
  <2>1. UNCHANGED <<orders, lines, log, wm, facts>>
    BY DEF RunStageOne, ClearStaging, GetOrderWindow, GetDetailWindow,
       GetCdcWindow, LandOrders, LandDetails, Land, SnapshotOrders, SnapshotLines
  <2> QED BY <2>1 DEF OrderDeletes, Acknowledged, Lsn, NotLive
<1>2. SourceGone'
  BY <1>1 DEF DeletionInv, SourceGone
<1>3. CASE pc' \in {"orderWindow", "detailWindow", "landOrders", "landDetails",
                    "snapOrders"}
  <2>1. SnapshotGone'
    BY <1>3 DEF SnapshotGone, StageTwo
  <2>2. WarehouseGone'
    BY <1>1, <1>3 DEF DeletionInv, WarehouseGone, Marking
  <2> QED BY <1>2, <2>1, <2>2 DEF DeletionInv
<1>4. CASE SnapshotOrders
  <2>1. /\ pc' = "snapLines" /\ staged' = staged
        /\ \A o \in Orders : snapOrders'[o] \in {orders[o], None}
    BY <1>4 DEF SnapshotOrders
  <2>2. \A i \in OrderDeletes : log[i].order \in Orders
    BY LogEntry, PositionTypes DEF OrderDeletes
  <2>3. SnapshotGone'
    BY <1>1, <2>1, <2>2 DEF DeletionInv, SourceGone, SnapshotGone, StageTwo
  <2>4. WarehouseGone'
    BY <1>1, <2>1 DEF DeletionInv, WarehouseGone, Marking
  <2> QED BY <1>2, <2>3, <2>4 DEF DeletionInv
<1>5. CASE SnapshotLines
  <2>1. /\ pc = "snapLines" /\ pc' = "ordersInsert"
        /\ UNCHANGED <<staged, snapOrders>>
        /\ \A l \in Lines : snapLines'[l] \in {lines[l], None}
    BY <1>5 DEF SnapshotLines
  <2>2. \A i \in OrderDeletes : \A p \in Products : <<log[i].order, p>> \in Lines
    BY LogEntry, PositionTypes DEF OrderDeletes, Lines
  <2>3. SnapshotGone'
    BY <1>1, <2>1, <2>2 DEF DeletionInv, SourceGone, SnapshotGone, StageTwo
  <2>4. WarehouseGone'
    BY <1>1, <2>1 DEF DeletionInv, WarehouseGone, Marking
  <2> QED BY <1>2, <2>3, <2>4 DEF DeletionInv
<1> QED BY <1>3, <1>4, <1>5 DEF RunStageOne, ClearStaging, GetOrderWindow,
        GetDetailWindow, GetCdcWindow, LandOrders, LandDetails

\* A batch without lines of an order leaves its rows as they are.
LEMMA WriteKeeps ==
    ASSUME NEW batch, WriteToDw(batch), NEW o,
           \A b \in batch : b.line[1] # o, NotLive(o)
    PROVE  NotLive(o)'
<1>1. PICK w \in Survivors(batch) :
        facts' = [k \in FactKeys |->
                    IF k[1] \in DOMAIN w /\ k[2] = OpenVersion(batch, k[1][2])
                    THEN w[k[1]] ELSE facts[k]]
  BY DEF WriteToDw
<1>2. \A l \in DOMAIN w : l[1] # o
  BY DEF Survivors
<1>3. \A k \in FactKeys : k[1][1] = o => facts'[k] = facts[k]
  BY <1>1, <1>2
<1> QED BY <1>3 DEF NotLive

LEMMA DeletionStageTwo ==
    ASSUME TypeOK, DeliveryInv, DeletionInv, RunStageTwo
    PROVE  DeletionInv'
<1> USE DEF Step, source, staging, history
<1>1. ASSUME NEW batch, WriteToDw(batch), pc \in StageTwo,
             pc' \in StageTwo, pc' \notin Marking,
             UNCHANGED <<orders, lines, log, wm, staged, snapOrders, snapLines>>,
             \A b \in batch :
                /\ b.line[1] \in Orders
                /\ \/ snapOrders[b.line[1]] # None
                   \/ \E p \in Products : snapLines[<<b.line[1], p>>] # None
      PROVE  DeletionInv'
  <2>1. OrderDeletes' = OrderDeletes
        /\ \A i \in OrderDeletes : Acknowledged(i)' <=> Acknowledged(i)
    BY <1>1 DEF OrderDeletes, Acknowledged, Lsn
  <2>2. SourceGone' /\ SnapshotGone'
    BY <1>1, <2>1 DEF DeletionInv, SourceGone, SnapshotGone
  <2>3. ASSUME NEW i \in OrderDeletes, Acknowledged(i)
        PROVE  NotLive(log[i].order)'
    <3> DEFINE x == log[i].order
    <3>1. /\ snapOrders[x] = None
          /\ \A p \in Products : snapLines[<<x, p>>] = None
          /\ NotLive(x)
      BY <1>1, <2>3 DEF DeletionInv, SnapshotGone, WarehouseGone
    <3>2. \A b \in batch : b.line[1] # x
      BY <1>1, <3>1
    <3>3. x' = x
      BY <1>1
    <3> HIDE DEF x
    <3>4. PICK o : o = x
      OBVIOUS
    <3>5. NotLive(o)'
      BY <1>1, <3>1, <3>2, <3>4, WriteKeeps
    <3>6. \A k \in FactKeys : k[1][1] = o => facts'[k] = None \/ facts'[k].deleted
      BY <3>5 DEF NotLive
    <3> QED BY <1>1, <3>4, <3>6 DEF NotLive, x
  <2>4. WarehouseGone'
    <3>1. ASSUME NEW i \in OrderDeletes, Acknowledged(i)
          PROVE  \A k \in FactKeys :
                    k[1][1] = log[i].order => facts'[k] = None \/ facts'[k].deleted
      BY <1>1, <2>3, <3>1 DEF NotLive
    <3> QED BY <1>1, <2>1, <3>1 DEF WarehouseGone, NotLive
  <2> QED BY <2>2, <2>4 DEF DeletionInv
<1>2. ASSUME NEW op \in Ops, NEW here \in StageTwo, NEW next \in StageTwo \ Marking,
             ApplyOrders(op, here, next)
      PROVE  DeletionInv'
  <2>1. \A b \in OrderRows(op) : /\ b.line[1] \in Orders
                                 /\ \E p \in Products : snapLines[<<b.line[1], p>>] # None
    <3> SUFFICES ASSUME NEW b \in OrderRows(op)
                 PROVE  /\ b.line[1] \in Orders
                        /\ \E p \in Products : snapLines[<<b.line[1], p>>] # None
      OBVIOUS
    <3>1. b.line \in Lines /\ snapLines[b.line] # None
      BY DEF OrderRows
    <3>2. b.line[1] \in Orders /\ b.line[2] \in Products
          /\ b.line = <<b.line[1], b.line[2]>>
      BY <3>1 DEF Lines
    <3> QED BY <3>1, <3>2
  <2> QED BY <1>1, <1>2, <2>1 DEF ApplyOrders
<1>3. ASSUME NEW op \in Ops, NEW here \in StageTwo, NEW next \in StageTwo \ Marking,
             ApplyLines(op, here, next)
      PROVE  DeletionInv'
  <2>1. \A b \in LineRows(op) : b.line[1] \in Orders /\ snapOrders[b.line[1]] # None
    BY StagedPositions, LogEntry DEF LineRows, LineOf
  <2> QED BY <1>1, <1>3, <2>1 DEF ApplyLines
<1>4. CASE TombstoneDeletedOrders
  <2>1. /\ UNCHANGED <<orders, lines, log, wm, staged, snapOrders, snapLines>>
        /\ pc = "tombstone" /\ pc' = "markOrders"
        /\ facts' = [k \in FactKeys |->
                IF /\ k[1][1] \in {log[i].order : i \in Staged("orders", "delete")}
                   /\ facts[k] # None
                THEN [facts[k] EXCEPT !.deleted = TRUE] ELSE facts[k]]
    BY <1>4 DEF TombstoneDeletedOrders
  <2>2. OrderDeletes' = OrderDeletes
        /\ \A i \in OrderDeletes : Acknowledged(i)' <=> Acknowledged(i)
    BY <2>1 DEF OrderDeletes, Acknowledged, Lsn
  <2>3. SourceGone' /\ SnapshotGone'
    BY <2>1, <2>2 DEF DeletionInv, SourceGone, SnapshotGone, StageTwo
  <2>4. \A k \in FactKeys : facts[k] # None => facts[k] \in Rows
    BY DEF TypeOK
  <2>5. ASSUME NEW i \in OrderDeletes, Acknowledged(i) \/ i \in staged,
               NEW k \in FactKeys, k[1][1] = log[i].order
        PROVE  facts'[k] = None \/ facts'[k].deleted
    <3>1. CASE i \in staged
      <4>1. i \in Staged("orders", "delete")
        BY <3>1 DEF Staged, OrderDeletes
      <4> QED BY <2>1, <2>4, <2>5, <4>1 DEF Rows
    <3>2. CASE Acknowledged(i)
      <4>1. facts[k] = None \/ facts[k].deleted
        BY <2>5, <3>2 DEF DeletionInv, WarehouseGone, NotLive
      <4> QED BY <2>1, <2>4, <4>1 DEF Rows
    <3> QED BY <2>5, <3>1, <3>2
  <2>6. WarehouseGone'
    BY <2>1, <2>2, <2>5 DEF WarehouseGone, NotLive
  <2> QED BY <2>3, <2>6 DEF DeletionInv
<1>5. ASSUME NEW t \in Tables, NEW here \in Marking, NEW next \in Marking,
             WriteWatermark(t, here, next)
      PROVE  DeletionInv'
  <2>1. /\ UNCHANGED <<orders, lines, log, staged, snapOrders, snapLines, facts>>
        /\ pc \in Marking /\ pc' \in Marking /\ Marking \subseteq StageTwo
    BY <1>5 DEF WriteWatermark, Marking, StageTwo
  <2>2. \A i \in OrderDeletes : i \in DOMAIN log
    BY DEF OrderDeletes
  <2>3. \A i \in OrderDeletes : Acknowledged(i)' => Acknowledged(i) \/ i \in staged
    BY <1>5, <2>2, MarkedStaged
  <2>4. OrderDeletes' = OrderDeletes /\ (\A o : NotLive(o)' <=> NotLive(o))
    BY <2>1 DEF OrderDeletes, NotLive
  <2>5. SourceGone' /\ SnapshotGone'
    BY <2>1, <2>3, <2>4 DEF DeletionInv, SourceGone, SnapshotGone
  <2>6. WarehouseGone'
    BY <2>1, <2>3, <2>4 DEF DeletionInv, WarehouseGone
  <2> QED BY <2>5, <2>6 DEF DeletionInv
<1>6. CASE EndRun
  BY <1>6, DeletionFrame DEF EndRun, StageTwo, Marking
<1> QED BY <1>2, <1>3, <1>4, <1>5, <1>6
        DEF RunStageTwo, ApplyOrdersInsert, ApplyOrdersUpdate, ApplyDetailsInsert,
            ApplyDetailsUpdate, ApplyDetailsDelete, MarkOrders, MarkDetails,
            StageTwo, Marking

LEMMA DeletionStep ==
    TypeOK /\ DeliveryInv /\ DeletionInv /\ [Next]_vars => DeletionInv'
<1> SUFFICES ASSUME TypeOK, DeliveryInv, DeletionInv, [Next]_vars
             PROVE  DeletionInv'
  OBVIOUS
<1>1. CASE Source
  BY <1>1, DeletionSource
<1>2. CASE Capture \/ (\E p \in Products : NewVersion(p)) \/ UNCHANGED vars
  BY <1>2, DeletionFrame DEF Capture, NewVersion, vars, source, staging, history
<1>3. CASE StartRun
  BY <1>3, DeletionFrame DEF StartRun, Step, StageTwo, Marking, source, staging
<1>4. ASSUME TaskFails, pc # "idle"
      PROVE  DeletionInv'
  <2>1. pc' \in {"idle", "clear"} \/ (pc' = "ordersInsert" /\ pc \in StageTwo)
    BY <1>4 DEF TaskFails, Retry, FailRun, TaskStart, TypeOK
  <2> QED BY <1>4, <2>1, DeletionFrame DEF TaskFails, StageTwo, Marking, source, staging
<1>5. CASE RunTask
  BY <1>4, <1>5, DeletionStageOne, DeletionStageTwo DEF RunTask, Unhealthy
<1>6. CASE Fail
  BY <1>4, <1>6 DEF Fail
<1> QED BY <1>1, <1>2, <1>3, <1>5, <1>6 DEF Next

\* What source, snapshot and warehouse still say of a deleted order.
THEOREM DeletionInvariant == Spec => []DeletionInv
<1> QED BY TypeCorrect, DeliveryInvariant, DeletionInit, DeletionStep, PTL DEF Spec

\* Once an order's deletion is acknowledged, no row of it is live again, under
\* any product key, at any step of any later run or retry.
THEOREM DeletedOrdersStayDeleted == Spec => []DeletedOrderGone
<1>1. DeletionInv => DeletedOrderGone
  BY DEF DeletionInv, WarehouseGone, OrderDeletes, DeletedOrderGone
<1> QED BY <1>1, DeletionInvariant, PTL
=============================================================================
