-------------------------- MODULE FactRepairProofs --------------------------
(***************************************************************************)
(* Proof that a seed that ran alone repairs whatever came before it, for   *)
(* any orders, products and values, any number of commits, runs, seeds,    *)
(* failures and retries, and change tables that expire: FactPipeline's     *)
(* convergence, but for the changes that are lost, from the state a seed   *)
(* leaves behind.                                                          *)
(***************************************************************************)
EXTENDS FactSeedProofs, FactConvergenceProofs

USE DEF Tables, Ops

-----------------------------------------------------------------------------
(* What a seed's snapshot holds while it is alone.                         *)

\* A commit never touches an order whose deletion is in the log.
LEMMA SourceGoneCommit ==
    ASSUME TypeOK, SourceGone, NEW c \in Changes, CommitShape(c)
    PROVE  SourceGone'
<1>0. PICK n : n = Len(log) + 1
  OBVIOUS
<1>1. /\ log'[n] = c /\ DOMAIN log' = DOMAIN log \cup {n}
      /\ \A i \in DOMAIN log : log'[i] = log[i]
  BY <1>0, LogGrows DEF CommitShape
<1>2. c.order \in Orders /\ c.table \in Tables /\ c.op \in Ops
  BY DEF Changes
<1>3. SUFFICES ASSUME NEW i \in OrderDeletes', NEW o, o = log'[i].order
               PROVE  orders'[o] = None /\ \A p \in Products : lines'[<<o, p>>] = None
  BY DEF SourceGone
<1>4. CASE i = n
  <2>1. c.table = "orders" /\ c.op = "delete" /\ o = c.order
    BY <1>1, <1>3, <1>4 DEF OrderDeletes
  <2> QED BY <1>2, <2>1 DEF CommitShape, TypeOK
<1>5. CASE i \in DOMAIN log
  <2>1. i \in OrderDeletes /\ log[i].order = o /\ o \in Orders
    BY <1>1, <1>3, <1>5, LogEntry, PositionTypes DEF OrderDeletes
  <2>2. orders[o] = None /\ \A p \in Products : lines[<<o, p>>] = None
    BY <2>1 DEF SourceGone
  <2>3. c.order # o
    BY <1>5, <2>1, <2>2 DEF CommitShape
  <2>4. orders'[o] = orders[o]
    BY <1>2, <2>1, <2>3 DEF CommitShape, TypeOK
  <2>5. \A p \in Products : <<o, p>> \in Lines
    BY <2>1 DEF Lines
  <2>6. \A p \in Products : lines'[<<o, p>>] = lines[<<o, p>>]
    BY <2>3, <2>5 DEF CommitShape, TypeOK
  <2> QED BY <2>2, <2>4, <2>6
<1> QED BY <1>1, <1>3, <1>4, <1>5 DEF OrderDeletes

\* Where the source stands still, what its log says of it does too.
LEMMA SourceGoneFrame ==
    ASSUME SourceGone, UNCHANGED <<orders, lines, log>>
    PROVE  SourceGone' /\ OrderDeletes' = OrderDeletes
BY DEF SourceGone, OrderDeletes

\* A commit lies past the base of every seed.
LEMMA SeedInvCommit ==
    ASSUME TypeOK, SeedTypeOK, SeedInv, Source, SeedWaits
    PROVE  SeedInv'
<1>1. PICK c \in Changes : CommitShape(c)
  BY SourceShape
<1>2. UNCHANGED <<captured, wm, pc, window, staged, snapOrders, snapLines, version, facts>>
  BY CommitKeepsLog DEF staging
<1>3. SourceInv' /\ SourceGone'
  BY <1>1, SourceCommit, SourceGoneCommit DEF SeedInv
<1>4. PICK n : n = Len(log) + 1
  OBVIOUS
<1>5. /\ log'[n] = c /\ DOMAIN log' = DOMAIN log \cup {n}
      /\ \A i \in DOMAIN log : log'[i] = log[i] /\ i \in Nat /\ i <= Len(log)
      /\ \A o : OrderChanges(o)' =
              IF c.table = "orders" /\ c.order = o
              THEN OrderChanges(o) \cup {n} ELSE OrderChanges(o)
      /\ \A l : LineChanges(l)' =
              IF c.table = "details" /\ <<c.order, c.product>> = l
              THEN LineChanges(l) \cup {n} ELSE LineChanges(l)
  BY <1>1, <1>4, LogGrows DEF CommitShape
<1>6. c.order \in Orders /\ c.table \in Tables
  BY DEF Changes
<1>7. KnownOrders'
  <2>1. ASSUME NEW o \in Orders, snapOrders[o] # None, orders'[o] = None
        PROVE  \E i \in DOMAIN log' : log'[i].order = o
    <3>1. CASE orders[o] # None
      <4>1. c.order = o
        BY <1>1, <1>6, <2>1, <3>1 DEF CommitShape, TypeOK
      <4> QED BY <1>5, <4>1
    <3>2. CASE orders[o] = None
      BY <1>5, <2>1, <3>2 DEF SeedInv, KnownOrders
    <3> QED BY <3>1, <3>2
  <2> QED BY <1>2, <2>1 DEF KnownOrders
<1>8. /\ UNCHANGED <<seedPc, seedBase, seedVersion>>
      /\ apart' => apart \/ seedPc = "idle"
  BY DEF SeedWaits, Watch
<1>9. ~(n <= seedBase)
  <2>1. Len(log) \in Nat /\ seedBase \in 0..Len(log)
    BY PositionTypes DEF SeedTypeOK
  <2>2. PICK m \in Nat : m = seedBase /\ m <= Len(log)
    BY <2>1
  <2> QED BY <1>4, <2>1, <2>2
<1>10. SeedSnapshots'
  <2>1. ASSUME NEW o \in Orders, \A i \in OrderChanges(o)' : i <= seedBase
        PROVE  /\ \A i \in OrderChanges(o) : i <= seedBase
               /\ orders'[o] = orders[o]
    <3>1. ~(c.table = "orders" /\ c.order = o)
      BY <1>5, <1>9, <2>1
    <3> QED BY <1>1, <1>5, <1>6, <2>1, <3>1 DEF CommitShape, TypeOK
  <2>2. ASSUME NEW l \in Lines, \A i \in LineChanges(l)' : i <= seedBase
        PROVE  /\ \A i \in LineChanges(l) : i <= seedBase
               /\ lines'[l] = lines[l]
    <3>1. ~(c.table = "details" /\ <<c.order, c.product>> = l)
      BY <1>5, <1>9, <2>2
    <3> QED BY <1>1, <1>5, <1>6, <2>2, <3>1 DEF CommitShape, TypeOK
  <2>3. \A i \in OrderDeletes' : i <= seedBase =>
            i \in OrderDeletes /\ log'[i].order = log[i].order
    BY <1>5, <1>9 DEF OrderDeletes
  <2>4. seedPc = "idle" => seedPc \notin {"seedLines"} \cup SeedStageTwo
    BY DEF SeedStageTwo
  <2> QED BY <1>2, <1>8, <2>1, <2>2, <2>3, <2>4 DEF SeedInv, SeedSnapshots
<1>11. SeedRows'
  BY <1>2, <1>8 DEF SeedInv, SeedRows, SnapshotJoin
<1> QED BY <1>3, <1>7, <1>10, <1>11 DEF SeedInv

\* Nor does anything else beside a seed touch what it goes by while it is alone.
LEMMA SeedInvBeside ==
    ASSUME TypeOK, SeedTypeOK, SeedInv, SeedWaits, UNCHANGED <<orders, lines, log>>,
           \A o \in Orders : snapOrders'[o] # None => snapOrders[o] # None \/ orders[o] # None,
           \A o \in Orders : (\A i \in DOMAIN log : log[i].order # o) =>
                \A k \in FactKeys : k[1][1] = o /\ facts[k] = None => facts'[k] = None,
           \A p \in Products : version[p] <= version'[p] /\ version'[p] \in Nat,
           seedPc # "idle" /\ apart' => UNCHANGED <<snapOrders, snapLines, facts>>
    PROVE  SeedInv'
<1>1. /\ UNCHANGED <<seedPc, seedBase, seedVersion>>
      /\ apart' => apart \/ seedPc = "idle"
  BY DEF SeedWaits, Watch
<1>2. SourceInv' /\ SourceGone' /\ OrderDeletes' = OrderDeletes
  BY SourceFrame, SourceGoneFrame DEF SeedInv
<1>3. KnownOrders'
  BY DEF SeedInv, KnownOrders
<1>4. /\ \A o : OrderChanges(o)' = OrderChanges(o)
      /\ \A l : LineChanges(l)' = LineChanges(l)
  BY DEF OrderChanges, LineChanges, LineOf
<1>5. seedPc = "idle" => seedPc \notin {"seedLines", "truncate", "write"} \cup SeedStageTwo
  BY DEF SeedStageTwo
<1>6. SeedSnapshots'
  BY <1>1, <1>2, <1>4, <1>5 DEF SeedInv, SeedSnapshots
<1>7. \A p \in Products : seedVersion[p] \in Nat /\ version[p] \in Nat
  BY BoundsAssumption DEF SeedTypeOK, TypeOK
<1>8. SeedRows'
  <2>1. SUFFICES ASSUME apart', seedPc \in {"truncate", "write"}
                 PROVE  SeedRows'
    BY <1>1 DEF SeedRows
  <2>2. apart /\ UNCHANGED <<snapOrders, snapLines, facts>>
    BY <1>1, <2>1
  <2>3. SnapshotJoin' = SnapshotJoin
    BY <2>2 DEF SnapshotJoin
  <2>4. ASSUME NEW p \in Products PROVE seedVersion[p] <= version'[p]
    <3>1. seedVersion[p] <= version[p]
      BY <2>1, <2>2 DEF SeedInv, SeedRows
    <3> QED BY <1>7, <3>1
  <2> QED BY <1>1, <2>1, <2>2, <2>3, <2>4 DEF SeedInv, SeedRows
<1> QED BY <1>2, <1>3, <1>6, <1>8 DEF SeedInv

\* A step of the incremental DAG moves between two places of which one at least
\* is in a run, and what it writes it writes so.
LEMMA IncrementalParts ==
    ASSUME Incremental
    PROVE  /\ pc # "idle" \/ pc' # "idle"
           /\ ApplyStep \/ TombstoneDeletedOrders \/ UNCHANGED <<version, facts>>
           /\ SnapshotOrders \/ UNCHANGED snapOrders
<1> USE DEF Step, staging
<1>1. CASE ReadOrderWindow \/ ReadDetailWindow
  BY <1>1 DEF ReadOrderWindow, ReadDetailWindow, ReadWindow
<1>2. CASE ReadOrders \/ ReadDetails
  BY <1>2 DEF ReadOrders, ReadDetails, LandOrders, LandDetails, Land
<1>3. CASE ReadExpired
  BY <1>3 DEF ReadExpired, TaskFails
<1>4. CASE RunByHand
  BY <1>4 DEF RunByHand
<1>5. CASE StartRun \/ ClearStaging \/ SnapshotOrders \/ SnapshotLines
  BY <1>5 DEF StartRun, ClearStaging, SnapshotOrders, SnapshotLines
<1>6. CASE Unhealthy \/ Fail
  BY <1>6 DEF Unhealthy, Fail, TaskFails
<1>7. CASE MarkOrders \/ MarkDetails \/ EndRun
  BY <1>7 DEF MarkOrders, MarkDetails, WriteWatermark, EndRun
<1>8. CASE TombstoneDeletedOrders
  BY <1>8 DEF TombstoneDeletedOrders
<1>9. CASE ApplyStep
  BY <1>9 DEF ApplyStep, ApplyOrdersInsert, ApplyOrdersUpdate, ApplyDetailsInsert,
     ApplyDetailsUpdate, ApplyDetailsDelete, ApplyOrders, ApplyLines
<1> QED BY <1>1, <1>2, <1>3, <1>4, <1>5, <1>6, <1>7, <1>8, <1>9
        DEF Incremental, RunStageTwo, ApplyStep

\* So no seed is alone beside it.
LEMMA IncrementalOverlaps ==
    ASSUME OverlapMixes, Incremental, SeedWaits, seedPc # "idle"
    PROVE  ~apart'
<1>1. apart' = (seedPc' = "idle" \/ (apart /\ pc' = "idle")) /\ seedPc' = seedPc
  BY DEF SeedWaits, Watch
<1>2. pc # "idle" \/ pc' # "idle"
  BY IncrementalParts
<1> QED BY <1>1, <1>2 DEF OverlapMixes

LEMMA SeedInvIncremental ==
    ASSUME TypeOK, SeedTypeOK, OverlapMixes, SeedInv, Incremental
    PROVE  SeedInv'
<1>1. SeedWaits /\ UNCHANGED <<orders, lines, log>>
  BY IncrementalTypes
<1>2. ~(seedPc # "idle" /\ apart')
  BY <1>1, IncrementalOverlaps
<1>3. \A o \in Orders : snapOrders'[o] # None => snapOrders[o] # None \/ orders[o] # None
  BY IncrementalParts DEF SnapshotOrders
<1>4. /\ \A o \in Orders : (\A i \in DOMAIN log : log[i].order # o) =>
            \A k \in FactKeys : k[1][1] = o /\ facts[k] = None => facts'[k] = None
      /\ \A p \in Products : version[p] <= version'[p] /\ version'[p] \in Nat
  <2>1. CASE ApplyStep
    BY <2>1, ApplyKeeps DEF Spared
  <2>2. CASE TombstoneDeletedOrders
    BY <2>2, VersionFrame DEF TombstoneDeletedOrders
  <2>3. CASE UNCHANGED <<version, facts>>
    BY <2>3, VersionFrame
  <2> QED BY <2>1, <2>2, <2>3, IncrementalParts
<1> QED BY <1>1, <1>2, <1>3, <1>4, SeedInvBeside

LEMMA SeedInvSurroundings ==
    ASSUME TypeOK, SeedTypeOK, OverlapMixes, SeedInv, Surroundings
    PROVE  SeedInv'
<1>1. SeedWaits
  BY DEF Surroundings
<1>2. CASE Source
  BY <1>1, <1>2, SeedInvCommit
<1>3. \A p \in Products : version[p] \in Nat
  BY BoundsAssumption DEF TypeOK
<1>4. CASE Capture \/ \E p \in Products : NewVersion(p)
  <2>1. UNCHANGED <<orders, lines, log, snapOrders, snapLines, facts>>
    BY <1>4 DEF Capture, NewVersion, source, staging
  <2>2. \A p \in Products : version[p] <= version'[p] /\ version'[p] \in Nat
    BY <1>3, <1>4 DEF Capture, NewVersion, TypeOK
  <2> QED BY <1>1, <2>1, <2>2, SeedInvBeside
<1> QED BY <1>2, <1>4 DEF Surroundings

LEMMA SeedInvSeed ==
    ASSUME TypeOK, SeedTypeOK, SeedInv, Seed
    PROVE  SeedInv'
<1> USE DEF SeedStageTwo, staging
<1>1. ASSUME UNCHANGED <<orders, lines, log>>
      PROVE  /\ SourceGone' /\ OrderDeletes' = OrderDeletes
             /\ \A o : OrderChanges(o)' = OrderChanges(o)
             /\ \A l : LineChanges(l)' = LineChanges(l)
             /\ facts' = facts => SourceInv'
             /\ UNCHANGED <<snapOrders, snapLines>> => KnownOrders' /\ SnapshotJoin' = SnapshotJoin
  <2>1. SourceGone' /\ OrderDeletes' = OrderDeletes
    BY <1>1, SourceGoneFrame DEF SeedInv
  <2>2. /\ \A o : OrderChanges(o)' = OrderChanges(o)
        /\ \A l : LineChanges(l)' = LineChanges(l)
    BY <1>1 DEF OrderChanges, LineChanges, LineOf
  <2>3. facts' = facts => SourceInv'
    BY <1>1, SourceFrame DEF SeedInv
  <2>4. UNCHANGED <<snapOrders, snapLines>> => KnownOrders' /\ SnapshotJoin' = SnapshotJoin
    BY <1>1 DEF SeedInv, KnownOrders, SnapshotJoin
  <2> QED BY <2>1, <2>2, <2>3, <2>4
\* Steps on which the snapshots, and what is said of them, stay.
<1>2. ASSUME UNCHANGED <<orders, lines, log, snapOrders, snapLines, seedBase>>,
             seedPc \in SeedStageTwo, Watch
      PROVE  SeedSnapshots' /\ KnownOrders' /\ (apart' => apart \/ seedPc' = "idle")
  <2>1. apart' => apart \/ seedPc' = "idle"
    BY <1>2 DEF Watch
  <2> QED BY <1>1, <1>2, <2>1 DEF SeedInv, SeedSnapshots
<1>3. ASSUME UNCHANGED <<orders, lines, log, snapOrders, snapLines, facts>>,
             Watch,
             \/ seedPc' \notin {"seedLines"} \cup SeedStageTwo
             \/ seedPc' = "transform" /\ seedPc \in SeedStageTwo /\ seedBase' = seedBase
      PROVE  SeedInv'
  <2>1. SourceInv' /\ SourceGone' /\ KnownOrders'
    BY <1>1, <1>3
  <2>2. SeedSnapshots'
    BY <1>2, <1>3 DEF SeedSnapshots
  <2>3. SeedRows'
    BY <1>3 DEF SeedRows
  <2> QED BY <2>1, <2>2, <2>3 DEF SeedInv
<1>4. CASE StartSeed
  BY <1>3, <1>4 DEF StartSeed, SeedStep, source
<1>5. CASE SeedClear
  BY <1>3, <1>5 DEF SeedClear, SeedStep, source
<1>6. CASE SeedReadChanges
  BY <1>3, <1>6 DEF SeedReadChanges, SeedStep, source
<1>7. CASE EndSeed
  BY <1>3, <1>7 DEF EndSeed, SeedStep, source
<1>8. CASE SeedFail \/ SeedRaises
  <2>1. /\ UNCHANGED <<orders, lines, log, snapOrders, snapLines, facts>> /\ Watch
        /\ \/ seedPc' \in {"idle", "seedClear"}
           \/ seedPc' = "transform" /\ seedPc \in SeedStageTwo /\ seedBase' = seedBase
    BY <1>8 DEF SeedFail, SeedRaises, SeedTaskFails, SeedRetry, SeedFailRun, SeedTaskStart,
       SeedTypeOK, source
  <2> QED BY <1>3, <2>1
<1>9. CASE SeedSnapshotOrders
  <2>1. /\ UNCHANGED <<orders, lines, log, facts>>
        /\ seedPc' = "seedLines" /\ snapOrders' = orders
    BY <1>9 DEF SeedSnapshotOrders, SeedStep, source
  <2>2. KnownOrders'
    BY <2>1 DEF KnownOrders
  <2>3. SeedSnapshots'
    BY <1>1, <2>1 DEF SeedInv, SourceGone, SeedSnapshots
  <2>4. SeedRows'
    BY <2>1 DEF SeedRows
  <2> QED BY <1>1, <2>1, <2>2, <2>3, <2>4 DEF SeedInv
<1>10. CASE SeedSnapshotLines
  <2>1. /\ UNCHANGED <<orders, lines, log, facts, snapOrders, seedBase>> /\ Watch
        /\ seedPc = "seedLines" /\ seedPc' = "transform" /\ snapLines' = lines
    BY <1>10 DEF SeedSnapshotLines, SeedStep, source, seedHistory
  <2>2. KnownOrders'
    BY <2>1 DEF SeedInv, KnownOrders
  <2>3. apart' => apart
    BY <2>1 DEF Watch
  <2>4. SeedSnapshots'
    BY <1>1, <2>1, <2>3 DEF SeedInv, SeedSnapshots
  <2>5. SeedRows'
    BY <2>1 DEF SeedRows
  <2> QED BY <1>1, <2>1, <2>2, <2>4, <2>5 DEF SeedInv
<1>11. CASE SeedTransform
  <2>1. /\ UNCHANGED <<orders, lines, log, facts, snapOrders, snapLines, seedBase>> /\ Watch
        /\ seedPc = "transform" /\ seedPc' = "truncate" /\ seedVersion' = version'
        /\ version' = [p \in Products |->
                IF version[p] = 0 /\ \E l \in SnapshotJoin : l[2] = p THEN 1 ELSE version[p]]
    BY <1>11 DEF SeedTransform, SeedStep, source, seedHistory
  <2>2. SnapshotJoin' = SnapshotJoin /\ \A p \in Products : version[p] \in Nat
    BY <1>1, <2>1, BoundsAssumption DEF TypeOK
  <2>3. SeedRows'
    BY <2>1, <2>2 DEF SeedRows
  <2> QED BY <1>1, <1>2, <2>1, <2>3 DEF SeedInv
<1>12. CASE SeedTruncate
  <2>1. /\ UNCHANGED <<orders, lines, log, snapOrders, snapLines, seedBase, version, seedVersion>>
        /\ Watch /\ seedPc = "truncate" /\ seedPc' = "write"
        /\ facts' = [k \in FactKeys |-> None]
    BY <1>12 DEF SeedTruncate, SeedStep, source, seedHistory
  <2>2. SourceInv'
    BY <2>1, SourceFrame DEF SeedInv
  <2>3. apart' => apart
    BY <2>1 DEF Watch
  <2>4. SnapshotJoin' = SnapshotJoin
    BY <1>1, <2>1
  <2>5. SeedRows'
    BY <2>1, <2>3, <2>4 DEF SeedInv, SeedRows
  <2> QED BY <1>1, <1>2, <2>1, <2>2, <2>5 DEF SeedInv
<1>13. CASE SeedWrite
  <2>1. /\ UNCHANGED <<orders, lines, log, snapOrders, snapLines, seedBase>> /\ Watch
        /\ seedPc = "write" /\ seedPc' = "seedReport"
        /\ \A k \in FactKeys : facts'[k] = facts[k] \/ k[1] \in SnapshotJoin
    BY <1>13 DEF SeedWrite, SeedStep, source
  <2>2. \A o \in Orders : orders[o] = None /\ (\A i \in DOMAIN log : log[i].order # o) =>
                snapOrders[o] = None
    BY DEF SeedInv, KnownOrders
  <2>3. SourceInv'
    BY <2>1, <2>2, SourceFrame DEF SeedInv, SnapshotJoin
  <2>4. SeedRows'
    BY <2>1 DEF SeedRows
  <2> QED BY <1>1, <1>2, <2>1, <2>3, <2>4 DEF SeedInv
<1> QED BY <1>4, <1>5, <1>6, <1>7, <1>8, <1>9, <1>10, <1>11, <1>12, <1>13 DEF Seed

LEMMA SeedInvStep ==
    TypeOK /\ SeedTypeOK /\ SeedDeliveryInv /\ SeedInv /\ [SeedNext]_allVars => SeedInv'
<1> SUFFICES ASSUME TypeOK, SeedTypeOK, SeedDeliveryInv, SeedInv, [SeedNext]_allVars
             PROVE  SeedInv'
  OBVIOUS
<1>1. OverlapMixes
  BY DEF SeedDeliveryInv
<1>2. CASE UNCHANGED allVars
  <2>1. UNCHANGED <<orders, lines, log, snapOrders, snapLines, version, facts, seedPc, seedBase,
                    seedVersion, apart>>
    BY <1>2 DEF allVars, seedVars, seedHistory, vars, source, staging
  <2>2. SourceInv' /\ SourceGone' /\ OrderDeletes' = OrderDeletes
    BY <2>1, SourceFrame, SourceGoneFrame DEF SeedInv
  <2>3. /\ \A o : OrderChanges(o)' = OrderChanges(o)
        /\ \A l : LineChanges(l)' = LineChanges(l)
    BY <2>1 DEF OrderChanges, LineChanges, LineOf
  <2>4. KnownOrders' /\ SeedSnapshots' /\ SeedRows'
    BY <2>1, <2>2, <2>3 DEF SeedInv, KnownOrders, SeedSnapshots, SeedRows, SnapshotJoin
  <2> QED BY <2>2, <2>4 DEF SeedInv
<1> QED BY <1>1, <1>2, SeedInvIncremental, SeedInvSurroundings, SeedInvSeed DEF SeedNext

-----------------------------------------------------------------------------
(* What a run holds, but for what is lost.                                 *)

\* What stage two has in hand of a line none of whose changes is lost.
LEMMA HeldHolds ==
    ASSUME TypeOK, WithinCaptured, HeldInv, pc \in StageTwo, NEW l \in Lines \ coalesced,
           Whole(LineChanges(l))
    PROVE  /\ LineHeld(l)
           /\ Whole(OrderChanges(l[1])) => OrderHeld(l)
<1>1. ASSUME NEW S \in SUBSET DOMAIN log, \A i, j \in S : log[i].table = log[j].table, Whole(S)
      PROVE  Gapless(S)
  <2>1. SUFFICES ASSUME NEW i \in staged \cap S, NEW m \in S, i <= m,
                        Acknowledged(m) \/ \E k \in staged \cap S : m <= k
                 PROVE  m \in staged
    BY DEF Gapless
  <2>2. /\ m \in DOMAIN log /\ m \in Nat /\ 1 <= m /\ captured \in Nat /\ m \notin lost
        /\ log[m].table = log[i].table
        /\ \A k \in staged : k \in Nat /\ k <= captured
    BY <1>1, <2>1, PositionTypes DEF Whole, TypeOK
  <2>3. m \in 1..captured
    BY <2>1, <2>2, AcknowledgedCaptured
  <2>4. pc \notin {"idle", "clear"}
    BY DEF StageTwo
  <2>5. Acknowledged(m) \/ \E k \in staged : log[k].table = log[i].table /\ m <= k
    BY <1>1, <2>1
  <2> QED BY <2>1, <2>2, <2>3, <2>4, <2>5 DEF HeldInv, NoGaps
<1>2. /\ LineChanges(l) \in SUBSET DOMAIN log
      /\ \A i, j \in LineChanges(l) : log[i].table = log[j].table
      /\ OrderChanges(l[1]) \in SUBSET DOMAIN log
      /\ \A i, j \in OrderChanges(l[1]) : log[i].table = log[j].table
  BY DEF LineChanges, OrderChanges
<1>3. Gapless(LineChanges(l)) /\ (Whole(OrderChanges(l[1])) => Gapless(OrderChanges(l[1])))
  BY <1>1, <1>2
<1>4. HasLanded("details")
  BY DEF HasLanded
<1> QED BY <1>3, <1>4 DEF LineHeld, OrderHeld, HeldInv, SnapshotsHeld, MixedUpKnown

\* A watermark passes only what is lost, or applied.
MarksHeld == \A i \in DOMAIN log : Acknowledged(i)' =>
                Acknowledged(i) \/ i \in lost \/ (i \in staged /\ pc \in Marking)

\* A step that leaves staging and windows alone, and stays in the run.
LEMMA StagedFrame ==
    ASSUME TypeOK, WithinCaptured, HeldInv, UNCHANGED <<log, window, staged>>,
           captured' \in captured..Len(log),
           lost \subseteq lost', coalesced \subseteq coalesced', MarksHeld,
           pc' \notin {"idle", "clear"} =>
                /\ pc \notin {"idle", "clear"}
                /\ \A t \in Tables : HasLanded(t) => HasLanded(t)'
                /\ HasLanded("details")' => HasLanded("details")
                /\ pc' = "landDetails" => pc = "landDetails"
                /\ pc' \in StageOne \/ (pc' = "ordersInsert" /\ attempt' = 0) =>
                     wm' = wm /\ (pc \in StageOne \/ (pc = "ordersInsert" /\ attempt = 0))
    PROVE  StagedByRun' /\ NoGaps' /\ MixedUpKnown'
<1>1. captured \in Nat /\ \A i \in staged : i \in DOMAIN log /\ log[i].table \in Tables
                                            /\ i \in Nat /\ i <= captured
  BY PositionTypes DEF TypeOK
<1>2. StagedByRun'
  <2>1. SUFFICES ASSUME pc' \notin {"idle", "clear"}, NEW i \in staged
                 PROVE  /\ HasLanded(log[i].table)'
                        /\ pc' \in StageOne \/ (pc' = "ordersInsert" /\ attempt' = 0) => ~Acknowledged(i)'
    BY DEF StagedByRun, HasLanded
  <2>2. PICK t \in Tables : t = log[i].table
    BY <1>1
  <2>3. HasLanded(t)'
    BY <2>1, <2>2 DEF HeldInv, StagedByRun
  <2>4. wm' = wm => (Acknowledged(i)' <=> Acknowledged(i))
    BY DEF Acknowledged, Lsn
  <2> QED BY <2>1, <2>2, <2>3, <2>4 DEF HeldInv, StagedByRun, HasLanded
<1>3. NoGaps'
  <2>1. SUFFICES ASSUME pc' \notin {"idle", "clear"}, NEW i \in staged, NEW m \in 1..captured',
                        log'[m].table = log[i].table, i <= m,
                        \/ Acknowledged(m)'
                        \/ \E k \in staged : log[k].table = log[i].table /\ m <= k
                        \/ ~IsEmpty(window[log[i].table]) /\ Lsn(m) <= window[log[i].table].to,
                        m \notin staged, m \notin lost
                 PROVE  FALSE
    BY DEF NoGaps, IsEmpty, Lsn
  <2>2. pc \notin {"idle", "clear"} /\ m \in Nat /\ 1 <= m
    BY <2>1
  <2>3. PICK t \in Tables : t = log[i].table
    BY <1>1
  <2>4. CASE Acknowledged(m)'
    <3>1. m \in DOMAIN log
      BY <2>1, PositionTypes
    <3>2. Acknowledged(m)
      BY <2>1, <2>4, <3>1 DEF MarksHeld
    <3> QED BY <2>1, <2>2, <3>1, <3>2, AcknowledgedCaptured DEF HeldInv, NoGaps
  <2>5. ASSUME NEW k \in staged, log[k].table = log[i].table, m <= k PROVE FALSE
    <3>1. m \in 1..captured
      BY <1>1, <2>2, <2>5
    <3> QED BY <2>1, <2>2, <2>5, <3>1 DEF HeldInv, NoGaps
  <2>6. CASE ~IsEmpty(window[t]) /\ Lsn(m) <= window[t].to
    <3>1. PICK n \in 0..captured : window[t].to = Lsn(n)
      BY DEF WithinCaptured
    <3>2. m \in 1..captured
      BY <1>1, <2>2, <2>6, <3>1 DEF Lsn
    <3> QED BY <2>1, <2>2, <2>3, <2>6, <3>2 DEF HeldInv, NoGaps
  <2> QED BY <2>1, <2>3, <2>4, <2>5, <2>6
<1>4. MixedUpKnown'
  <2>1. \A t : StagedIn(t)' = StagedIn(t)
    BY DEF StagedIn
  <2>2. /\ UndeterminedLines(StagedIn("details"))' = UndeterminedLines(StagedIn("details"))
        /\ UndeterminedOrders(StagedIn("orders"))' = UndeterminedOrders(StagedIn("orders"))
    BY <2>1 DEF UndeterminedLines, UndeterminedOrders, LineOf
  <2>3. pc' \in {"idle", "clear"} => pc' # "landDetails" /\ ~HasLanded("details")'
    BY DEF HasLanded, StageTwo
  <2> QED BY <2>1, <2>2, <2>3 DEF HeldInv, MixedUpKnown, LineOf
<1> QED BY <1>2, <1>3, <1>4

\* A step that leaves the snapshots alone.
LEMMA SnapshotsFrame ==
    ASSUME HeldInv, UNCHANGED <<orders, lines, log, staged, snapOrders, snapLines>>,
           lost \subseteq lost', MarksHeld,
           pc' \in StageTwo => pc \in StageTwo,
           pc' = "snapLines" => pc \in StageTwo \cup {"snapLines"}
    PROVE  SnapshotsHeld'
<1>1. /\ \A o : OrderChanges(o)' = OrderChanges(o)
      /\ \A l : LineChanges(l)' = LineChanges(l)
      /\ Affected' = Affected /\ OrderDeletes' = OrderDeletes
  BY DEF OrderChanges, LineChanges, LineOf, Affected, Staged, OrderDeletes
<1>2. ASSUME NEW S \in SUBSET DOMAIN log, \A i \in S : Acknowledged(i)' \/ i \in staged,
             S \cap lost' = {}
      PROVE  Read(S) /\ Whole(S)
  BY <1>2 DEF Read, Whole, MarksHeld
<1>3. \A o : Read(OrderChanges(o))' /\ Whole(OrderChanges(o))' =>
                Read(OrderChanges(o)) /\ Whole(OrderChanges(o))
  <2>1. \A o : OrderChanges(o) \in SUBSET DOMAIN log
    BY DEF OrderChanges
  <2> QED BY <1>1, <1>2, <2>1 DEF Read, Whole
<1>4. \A l : Read(LineChanges(l))' /\ Whole(LineChanges(l))' =>
                Read(LineChanges(l)) /\ Whole(LineChanges(l))
  <2>1. \A l : LineChanges(l) \in SUBSET DOMAIN log
    BY DEF LineChanges
  <2> QED BY <1>1, <1>2, <2>1 DEF Read, Whole
<1>5. \A i \in OrderDeletes \ lost' : /\ i \in OrderDeletes \ lost
                                      /\ Acknowledged(i)' => Acknowledged(i) \/ i \in staged
  BY DEF OrderDeletes, MarksHeld
<1> QED BY <1>1, <1>3, <1>4, <1>5 DEF HeldInv, SnapshotsHeld

\* A step that revives no dead row.
LEMMA DeletesFrame ==
    ASSUME HeldInv, UNCHANGED log, lost \subseteq lost', MarksHeld,
           \A o : NotLive(o) => NotLive(o)',
           pc' \in Marking => pc \in Marking /\ staged' = staged
    PROVE  DeletesHeld'
<1>1. OrderDeletes' = OrderDeletes
  BY DEF OrderDeletes
<1>2. SUFFICES ASSUME NEW i \in OrderDeletes, i \notin lost,
                      Acknowledged(i)' \/ (i \in staged' /\ pc' \in Marking)
               PROVE  NotLive(log[i].order)'
  BY <1>1 DEF DeletesHeld, NotLive
<1>3. Acknowledged(i) \/ (i \in staged /\ pc \in Marking)
  BY <1>2 DEF MarksHeld, OrderDeletes
<1>4. PICK o : o = log[i].order
  OBVIOUS
<1>5. NotLive(o)'
  BY <1>2, <1>3, <1>4 DEF HeldInv, DeletesHeld
<1> QED BY <1>4, <1>5 DEF NotLive

\* Lines, one by one.
LEMMA LinesFrame ==
    ASSUME HeldInv, UNCHANGED log, lost \subseteq lost', coalesced \subseteq coalesced',
           \A l \in Lines \ coalesced' : Whole(LineChanges(l)) =>
                /\ GoneLine(l) => GoneLine(l)'
                /\ Whole(OrderChanges(l[1])) => (PresentLine(l) => PresentLine(l)')
    PROVE  LinesHeld'
<1>1. /\ \A o : OrderChanges(o)' = OrderChanges(o)
      /\ \A l : LineChanges(l)' = LineChanges(l)
  BY DEF OrderChanges, LineChanges, LineOf
<1>2. /\ \A l : Whole(LineChanges(l))' => Whole(LineChanges(l))
      /\ \A l : Whole(OrderChanges(l[1]))' => Whole(OrderChanges(l[1]))
  BY <1>1 DEF Whole
<1> QED BY <1>2 DEF HeldInv, LinesHeld

\* Where no watermark moves.
LEMMA MarksStill == ASSUME UNCHANGED <<log, wm>> PROVE MarksHeld
BY ChangesFrame DEF MarksHeld

-----------------------------------------------------------------------------
(* Stage two.                                                              *)

LEMMA HeldApplied ==
    ASSUME TypeOK, TypeOK', WithinCaptured, SourceInv, SourceGone, HeldInv, ApplyStep, lost' = lost
    PROVE  HeldInv'
<1>1. /\ UNCHANGED <<orders, lines, log, captured, wm, window, staged,
                     snapOrders, snapLines, coalesced, attempt>>
      /\ pc \in StageTwo \ Marking /\ pc' \in StageTwo \ Marking
      /\ KeysOpened'
      /\ \A o : Spared(o) => \A k \in FactKeys : k[1][1] = o => facts'[k] = facts[k]
  BY ApplyKeeps DEF HeldInv
<1>2. pc' # "ordersInsert"
  BY DEF ApplyStep, ApplyOrdersInsert, ApplyOrdersUpdate, ApplyDetailsInsert,
     ApplyDetailsUpdate, ApplyDetailsDelete, ApplyOrders, ApplyLines, Step
<1>3. /\ pc \notin {"idle", "clear", "landDetails"} /\ pc' \notin {"landDetails", "snapLines"}
      /\ pc' \notin StageOne
      /\ \A t : HasLanded(t) /\ HasLanded(t)'
  BY <1>1 DEF StageOne, StageTwo, HasLanded
<1>4. MarksHeld /\ captured' \in captured..Len(log)
  BY <1>1, MarksStill, PositionTypes
<1>5. StagedByRun' /\ NoGaps' /\ MixedUpKnown'
  BY <1>1, <1>2, <1>3, <1>4, StagedFrame
<1>6. SnapshotsHeld'
  BY <1>1, <1>3, <1>4, SnapshotsFrame
<1>7. DeletesHeld'
  <2>1. SUFFICES ASSUME NEW i \in OrderDeletes, i \notin lost, Acknowledged(i)
                 PROVE  NotLive(log[i].order)'
    <3>1. OrderDeletes' = OrderDeletes /\ \A i : Acknowledged(i)' <=> Acknowledged(i)
      BY <1>1, ChangesFrame DEF OrderDeletes
    <3> QED BY <1>1, <2>1, <3>1 DEF DeletesHeld, NotLive
  <2>2. PICK o : o = log[i].order
    OBVIOUS
  <2>3. NotLive(o)
    BY <2>1, <2>2 DEF HeldInv, DeletesHeld
  <2>4. Spared(o)
    BY <1>1, <2>1, <2>2 DEF HeldInv, SnapshotsHeld, Spared
  <2>5. NotLive(o)'
    BY <1>1, <2>3, <2>4 DEF NotLive
  <2> QED BY <1>1, <2>2, <2>5 DEF NotLive
<1>8. ASSUME NEW l \in Lines \ coalesced, Whole(LineChanges(l))
      PROVE  /\ GoneLine(l) => GoneLine(l)'
             /\ Whole(OrderChanges(l[1])) => (PresentLine(l) => PresentLine(l)')
  <2>1. LineHeld(l) /\ (Whole(OrderChanges(l[1])) => OrderHeld(l))
    BY <1>1, <1>8, HeldHolds
  <2> QED BY <2>1, LineApplied DEF HeldInv
<1>9. LinesHeld'
  BY <1>1, <1>8, LinesFrame
<1> QED BY <1>1, <1>5, <1>6, <1>7, <1>9 DEF HeldInv

LEMMA HeldTombstoned ==
    ASSUME TypeOK, TypeOK', WithinCaptured, SourceInv, SourceGone, HeldInv,
           TombstoneDeletedOrders, lost' = lost
    PROVE  HeldInv'
<1>1. /\ UNCHANGED <<orders, lines, log, captured, wm, window, attempt, staged,
                     snapOrders, snapLines, version, coalesced>>
      /\ pc = "tombstone" /\ pc' = "markOrders"
  BY DEF TombstoneDeletedOrders, Step, Within, source, staging
<1>2. /\ pc \notin {"idle", "clear", "landDetails"} /\ pc \in StageTwo
      /\ pc' \notin {"landDetails", "snapLines", "ordersInsert"} /\ pc' \in StageTwo
      /\ pc' \notin StageOne
      /\ \A t : HasLanded(t) /\ HasLanded(t)'
  BY <1>1 DEF StageOne, StageTwo, HasLanded
<1>3. MarksHeld /\ captured' \in captured..Len(log)
  BY <1>1, MarksStill, PositionTypes
<1>4. StagedByRun' /\ NoGaps' /\ MixedUpKnown'
  BY <1>1, <1>2, <1>3, StagedFrame
<1>5. SnapshotsHeld'
  BY <1>1, <1>2, <1>3, SnapshotsFrame
<1>6. DeletesHeld'
  <2> DEFINE gone == {log[i].order : i \in Staged("orders", "delete")}
  <2>1. facts' = [k \in FactKeys |->
                        IF k[1][1] \in gone /\ facts[k] # None
                        THEN [facts[k] EXCEPT !.deleted = TRUE] ELSE facts[k]]
    BY DEF TombstoneDeletedOrders
  <2>2. SUFFICES ASSUME NEW i \in OrderDeletes, i \notin lost, Acknowledged(i) \/ i \in staged
                 PROVE  NotLive(log[i].order)'
    <3>1. OrderDeletes' = OrderDeletes /\ \A i : Acknowledged(i)' <=> Acknowledged(i)
      BY <1>1, ChangesFrame DEF OrderDeletes
    <3> QED BY <1>1, <2>2, <3>1 DEF DeletesHeld, NotLive
  <2>3. PICK o : o = log[i].order
    OBVIOUS
  <2>4. NotLive(o) \/ o \in gone
    BY <2>2, <2>3 DEF HeldInv, DeletesHeld, OrderDeletes, Staged
  <2>5. ASSUME NEW k \in FactKeys, k[1][1] = o PROVE facts'[k] = None \/ facts'[k].deleted
    <3>1. facts[k] = None \/ facts[k] \in Rows
      BY DEF TypeOK
    <3>2. \A r \in Rows : [r EXCEPT !.deleted = TRUE].deleted = TRUE
      BY DEF Rows
    <3>3. CASE k[1][1] \in gone /\ facts[k] # None
      <4>1. facts'[k] = [facts[k] EXCEPT !.deleted = TRUE]
        BY <2>1, <3>3
      <4>2. facts'[k].deleted = TRUE
        BY <3>1, <3>2, <3>3, <4>1
      <4> QED BY <4>2
    <3>4. CASE ~(k[1][1] \in gone /\ facts[k] # None)
      <4>1. facts'[k] = facts[k]
        BY <2>1, <3>4
      <4> QED BY <2>4, <2>5, <3>4, <4>1 DEF NotLive
    <3> QED BY <3>3, <3>4
  <2>6. NotLive(o)'
    BY <2>5 DEF NotLive
  <2> QED BY <1>1, <2>3, <2>6 DEF NotLive
<1>7. LinesHeld'
  BY <1>1, LineTombstoned, LinesFrame
<1>8. KeysOpened'
  BY TombstonedKeys DEF HeldInv
<1> QED BY <1>4, <1>5, <1>6, <1>7, <1>8 DEF HeldInv

\* What a watermark passes is staged, or lost; and it never goes back.
LEMMA HeldMarks ==
    ASSUME TypeOK, WindowsStart, WithinCaptured, WindowsCover, NEW t \in Tables, NEW here \in Marking,
           NEW next \in Marking, WriteWatermark(t, here, next)
    PROVE  MarksHeld
<1>1. /\ UNCHANGED <<log, captured>> /\ pc \in Marking
      /\ wm' = IF IsEmpty(window[t]) THEN wm ELSE [wm EXCEPT ![t] = window[t].to]
  BY DEF WriteWatermark, Step, source
<1>2. PICK n \in 0..captured : window[t].to = Lsn(n)
  BY DEF WithinCaptured
<1>3. n \in Nat /\ n <= captured /\ captured \in Nat
  BY PositionTypes
<1>4. HasWindow(t) /\ HasLanded(t)
  BY <1>1 DEF HasWindow, HasLanded, Marking, StageTwo
<1>5. SUFFICES ASSUME NEW i \in DOMAIN log, Acknowledged(i)', ~Acknowledged(i)
               PROVE  i \in lost \/ i \in staged
  BY <1>1 DEF MarksHeld
<1>6. i \in Nat /\ 1 <= i /\ log[i].table \in Tables
  BY PositionTypes
<1>7. \A u \in Tables : wm'[u] = wm[u] \/ (u = t /\ ~IsEmpty(window[t]) /\ wm'[u] = Lsn(n))
  BY <1>1, <1>2 DEF TypeOK
<1>8. log[i].table = t /\ ~IsEmpty(window[t]) /\ Lsn(i) <= Lsn(n)
  BY <1>1, <1>5, <1>6, <1>7 DEF Acknowledged, Lsn
<1>9. i \in 1..captured
  BY <1>3, <1>6, <1>8 DEF Lsn
<1>10. Passed(i)
  BY <1>2, <1>4, <1>8, <1>9 DEF WindowsCover
<1> QED BY <1>5, <1>10 DEF Passed

LEMMA HeldMarked ==
    ASSUME TypeOK, TypeOK', WindowsStart, WithinCaptured, WindowsCover, HeldInv,
           NEW t \in Tables, NEW here \in Marking, NEW next \in Marking,
           WriteWatermark(t, here, next), lost' = lost
    PROVE  HeldInv'
<1>1. /\ UNCHANGED <<orders, lines, log, captured, window, attempt, staged, snapOrders, snapLines,
                     version, facts, coalesced>>
      /\ pc \in Marking /\ pc' \in Marking
  BY DEF WriteWatermark, Step, Within, source, staging, history
<1>2. /\ pc \notin {"idle", "clear", "landDetails"} /\ pc \in StageTwo
      /\ pc' \notin {"landDetails", "snapLines", "ordersInsert"} /\ pc' \in StageTwo
      /\ pc' \notin StageOne
      /\ \A u : HasLanded(u) /\ HasLanded(u)'
  BY <1>1 DEF StageOne, StageTwo, HasLanded, Marking
<1>3. MarksHeld /\ captured' \in captured..Len(log)
  BY <1>1, HeldMarks, PositionTypes
<1>4. StagedByRun' /\ NoGaps' /\ MixedUpKnown'
  BY <1>1, <1>2, <1>3, StagedFrame
<1>5. SnapshotsHeld'
  BY <1>1, <1>2, <1>3, SnapshotsFrame
<1>6. DeletesHeld'
  BY <1>1, <1>3, DeletesFrame DEF NotLive
<1>7. ASSUME NEW l \in Lines \ coalesced, Whole(LineChanges(l))
      PROVE  /\ GoneLine(l) => GoneLine(l)'
             /\ Whole(OrderChanges(l[1])) => (PresentLine(l) => PresentLine(l)')
  <2>1. \A i \in LineChanges(l) : Acknowledged(i)' => Acknowledged(i) \/ i \in staged
    BY <1>3, <1>7 DEF MarksHeld, Whole, LineChanges
  <2>2. Whole(OrderChanges(l[1])) =>
            \A i \in OrderChanges(l[1]) : Acknowledged(i)' => Acknowledged(i) \/ i \in staged
    BY <1>3 DEF MarksHeld, Whole, OrderChanges
  <2> QED BY <2>1, <2>2, LineMark
<1>8. LinesHeld'
  BY <1>1, <1>7, LinesFrame
<1>9. KeysOpened'
  BY <1>1, KeysFrame, VersionFrame DEF HeldInv
<1> QED BY <1>4, <1>5, <1>6, <1>8, <1>9 DEF HeldInv

\* A run begins, ends, fails, or a task of it starts again.
LEMMA HeldControl ==
    ASSUME TypeOK, TypeOK', WithinCaptured, SourceInv, HeldInv, lost' = lost,
           UNCHANGED <<orders, lines, log, captured, wm, window, staged, snapOrders, snapLines,
                       version, facts>>,
           coalesced \subseteq coalesced',
           \/ pc \in StageTwo /\ pc' = "ordersInsert" /\ attempt' # 0
           \/ pc \in StageTwo /\ pc' = "idle" /\ (pc = "report" \/ HalfReapplied \subseteq coalesced')
           \/ pc \notin StageTwo /\ pc' \in {"idle", "clear"}
    PROVE  HeldInv'
<1>1. /\ pc' \notin {"landDetails", "snapLines"} \cup Marking
      /\ pc' \in StageTwo <=> pc' = "ordersInsert"
      /\ pc' \notin {"idle", "clear"} => pc \in StageTwo /\ pc' = "ordersInsert" /\ attempt' # 0
      /\ pc' = "ordersInsert" => pc' \notin StageOne
  BY DEF StageOne, StageTwo, Marking
<1>2. /\ pc \in StageTwo => /\ pc \notin {"idle", "clear"}
                            /\ \A t : HasLanded(t)
      /\ pc' = "ordersInsert" => \A t : HasLanded(t)'
  BY DEF HasLanded, StageTwo
<1>3. MarksHeld /\ captured' \in captured..Len(log)
  BY MarksStill, PositionTypes
<1>4. StagedByRun' /\ NoGaps' /\ MixedUpKnown'
  BY <1>1, <1>2, <1>3, StagedFrame
<1>5. SnapshotsHeld'
  BY <1>1, <1>3, SnapshotsFrame
<1>6. DeletesHeld'
  BY <1>1, <1>3, DeletesFrame DEF NotLive
<1>7. ASSUME NEW l \in Lines \ coalesced', Whole(LineChanges(l))
      PROVE  /\ GoneLine(l) => GoneLine(l)'
             /\ Whole(OrderChanges(l[1])) => (PresentLine(l) => PresentLine(l)')
  <2>1. CASE pc \in StageTwo /\ pc' = "ordersInsert"
    BY <2>1, LineRetry
  <2>2. CASE pc \in StageTwo /\ pc' = "idle" /\ (pc = "report" \/ HalfReapplied \subseteq coalesced')
    <3>1. LineHeld(l) /\ (Whole(OrderChanges(l[1])) => OrderHeld(l))
      BY <1>7, <2>2, HeldHolds
    <3> QED BY <1>7, <2>2, <3>1, LineLeavesStageTwo DEF LineHeld, OrderHeld
  <2>3. CASE pc \notin StageTwo /\ pc' \notin StageTwo
    BY <2>3, LineOutsideStageTwo
  <2> QED BY <1>1, <2>1, <2>2, <2>3
<1>8. LinesHeld'
  BY <1>7, LinesFrame
<1>9. KeysOpened'
  BY KeysFrame, VersionFrame DEF HeldInv
<1> QED BY <1>4, <1>5, <1>6, <1>8, <1>9 DEF HeldInv

LEMMA HeldFails ==
    ASSUME TypeOK, TypeOK', WithinCaptured, SourceInv, HeldInv, TaskFails, pc # "idle", lost' = lost
    PROVE  HeldInv'
<1>1. /\ UNCHANGED <<orders, lines, log, captured, wm, window, staged, snapOrders, snapLines,
                     version, facts>>
      /\ Retry \/ FailRun
  BY DEF TaskFails, source, staging
<1>2. pc \in StageOne => pc \notin StageTwo
  BY DEF StageOne, StageTwo
<1>3. CASE Retry
  <2>1. attempt' # 0 /\ coalesced' = coalesced
    BY <1>3 DEF Retry, TypeOK
  <2>2. \/ pc \in StageTwo /\ pc' = "ordersInsert"
        \/ pc \notin StageTwo /\ pc' = "clear"
    BY <1>2, <1>3 DEF Retry, TaskStart, TypeOK
  <2> QED BY <1>1, <2>1, <2>2, HeldControl
<1>4. CASE FailRun
  BY <1>1, <1>4, HeldControl DEF FailRun
<1> QED BY <1>1, <1>3, <1>4

LEMMA HeldStageTwo ==
    ASSUME TypeOK, TypeOK', WindowsStart, WithinCaptured, WindowsCover, SourceInv, SourceGone, HeldInv,
           RunStageTwo, lost' = lost
    PROVE  HeldInv'
<1>1. CASE MarkOrders \/ MarkDetails
  BY <1>1, HeldMarked DEF MarkOrders, MarkDetails, Marking
<1>2. CASE EndRun
  BY <1>2, HeldControl DEF EndRun, Step, source, staging, history, StageTwo
<1> QED BY <1>1, <1>2, HeldApplied, HeldTombstoned DEF RunStageTwo, ApplyStep

-----------------------------------------------------------------------------
(* Stage one.                                                              *)

\* What staging holds is in the log.
LEMMA StagedEntries ==
    ASSUME TypeOK, NEW i \in staged
    PROVE  i \in DOMAIN log /\ log[i].table \in Tables /\ log[i].order \in Orders
<1>1. i \in 1..captured
  BY DEF TypeOK
<1>2. i \in DOMAIN log
  BY <1>1, CapturedLogged
<1> QED BY <1>2, PositionTypes, LogEntry

\* A watermark passes the changes of its table in their order.
LEMMA AcknowledgedEarlier ==
    ASSUME TypeOK, NEW i \in DOMAIN log, NEW m \in DOMAIN log,
           log[m].table = log[i].table, i <= m, Acknowledged(m)
    PROVE  Acknowledged(i)
<1>1. i \in Nat /\ m \in Nat /\ log[i].table \in Tables
  BY PositionTypes
<1>2. PICK w : w = wm[log[i].table]
  OBVIOUS
<1>3. w # None /\ Lsn(m) <= w /\ w \in Nat
  BY <1>1, <1>2, PositionTypes DEF Acknowledged
<1> QED BY <1>1, <1>2, <1>3 DEF Acknowledged, Lsn

\* A window read in this run holds nothing that was acknowledged before it.
LEMMA ReadUnread ==
    ASSUME TypeOK, WindowsStart, pc \in StageOne, NEW t \in Tables, HasWindow(t),
           NEW i \in InWindow(t)
    PROVE  ~Acknowledged(i)
<1> SUFFICES ASSUME Acknowledged(i) PROVE FALSE
  OBVIOUS
<1>1. log[i].table = t /\ window[t].from <= Lsn(i) /\ wm[t] # None /\ Lsn(i) <= wm[t]
  BY DEF InWindow, Acknowledged
<1>2. window[t].from = wm[t] + 1
  BY <1>1 DEF WindowsStart, FromLsn
<1>3. wm[t] \in Nat /\ i \in Nat
  BY <1>1, PositionTypes DEF InWindow
<1>4. Lsn(i) \in Nat
  BY <1>3 DEF Lsn
<1> QED BY <1>1, <1>2, <1>3, <1>4

\* Before anything has landed.
LEMMA HeldEmpty ==
    ASSUME TypeOK, TypeOK', HeldInv, staged' = {},
           UNCHANGED <<orders, lines, log, captured, wm, version, facts, coalesced>>,
           lost \subseteq lost', pc \notin StageTwo,
           pc' \in {"orderWindow", "detailWindow", "landOrders"}
    PROVE  HeldInv'
<1>1. /\ pc' \notin StageTwo \cup Marking \cup {"snapLines", "landDetails"}
      /\ ~HasLanded("details")'
  BY DEF StageTwo, Marking, HasLanded
<1>2. StagedByRun' /\ NoGaps' /\ SnapshotsHeld' /\ MixedUpKnown'
  BY <1>1 DEF StagedByRun, NoGaps, SnapshotsHeld, MixedUpKnown
<1>3. DeletesHeld'
  BY <1>1, MarksStill, DeletesFrame DEF NotLive
<1>4. LinesHeld'
  BY <1>1, LineOutsideStageTwo, LinesFrame
<1>5. KeysOpened'
  BY KeysFrame, VersionFrame DEF HeldInv
<1> QED BY <1>2, <1>3, <1>4, <1>5 DEF HeldInv

LEMMA HeldReadWindow ==
    ASSUME TypeOK, TypeOK', HeldInv, ReadOrderWindow \/ ReadDetailWindow
    PROVE  HeldInv'
<1>1. /\ UNCHANGED <<orders, lines, log, captured, wm, staged, version, facts, coalesced>>
      /\ pc \in {"orderWindow", "detailWindow"} /\ pc' \in {"detailWindow", "landOrders"}
      /\ lost \subseteq lost'
  BY DEF ReadOrderWindow, ReadDetailWindow, ReadWindow, Step, source, staging, history
<1>2. pc \notin StageTwo
  BY <1>1 DEF StageTwo
<1>3. staged = {}
  <2>1. \A t \in Tables : ~HasLanded(t)
    BY <1>1 DEF HasLanded, StageTwo
  <2>2. \A i \in staged : log[i].table \in Tables /\ i \in DOMAIN log
    BY StagedEntries
  <2>3. \A i \in staged : HasLanded(log[i].table)
    BY <1>1 DEF HeldInv, StagedByRun
  <2> QED BY <2>1, <2>2, <2>3 DEF HasLanded
<1> QED BY <1>1, <1>2, <1>3, HeldEmpty

\* The changes of a window land, all unacknowledged: of what they are lost no
\* longer, or determined again, nothing is due.
LEMMA HeldLands ==
    ASSUME TypeOK, TypeOK', WindowsStart, WithinCaptured, HeldInv, NEW t \in Tables,
           UNCHANGED <<orders, lines, log, captured, wm, window, version, facts>>,
           staged' = staged \cup InWindow(t), lost' = lost \ InWindow(t),
           \/ t = "orders"  /\ pc = "landOrders" /\ pc' = "landDetails"
           \/ t = "details" /\ pc = "landDetails" /\ pc' = "snapOrders",
           \A l \in coalesced \ coalesced' : \E i \in InWindow(t) : i \in LineChanges(l),
           MixedUpKnown'
    PROVE  HeldInv'
<1>1. /\ pc \notin {"idle", "clear"} /\ pc \in StageOne /\ pc \notin StageTwo
      /\ pc' \in StageOne /\ pc' \notin StageTwo \cup Marking \cup {"snapLines"}
      /\ HasWindow(t) /\ ~HasLanded(t) /\ HasLanded(t)'
      /\ \A u : HasLanded(u) => HasLanded(u)'
  BY DEF StageOne, StageTwo, Marking, HasWindow, HasLanded
<1>2. /\ \A i : Acknowledged(i)' <=> Acknowledged(i)
      /\ \A o : OrderChanges(o)' = OrderChanges(o)
      /\ \A l : LineChanges(l)' = LineChanges(l)
      /\ OrderDeletes' = OrderDeletes
  BY ChangesFrame DEF OrderDeletes
<1>3. /\ \A i \in InWindow(t) : ~Acknowledged(i) /\ i \in DOMAIN log /\ log[i].table = t
      /\ \A i \in staged : ~Acknowledged(i) /\ log[i].table \in Tables \ {t}
                           /\ HasLanded(log[i].table) /\ i \in DOMAIN log
  <2>1. \A i \in InWindow(t) : ~Acknowledged(i)
    BY <1>1, ReadUnread
  <2>2. \A i \in staged : log[i].table \in Tables /\ i \in DOMAIN log
    BY StagedEntries
  <2>3. \A i \in staged : ~Acknowledged(i) /\ HasLanded(log[i].table)
    BY <1>1 DEF HeldInv, StagedByRun
  <2>4. \A i \in staged : log[i].table # t
    BY <1>1, <2>3
  <2> QED BY <2>1, <2>2, <2>3, <2>4, PositionTypes DEF InWindow
<1>4. StagedByRun'
  <2>1. SUFFICES ASSUME NEW i \in staged' PROVE HasLanded(log[i].table)' /\ ~Acknowledged(i)
    BY <1>1, <1>2 DEF StagedByRun, HasLanded
  <2>2. PICK u : u = log[i].table
    OBVIOUS
  <2>3. HasLanded(u)'
    BY <1>1, <1>3, <2>1, <2>2
  <2> QED BY <1>3, <2>1, <2>2, <2>3 DEF HasLanded
<1>5. NoGaps'
  <2>1. SUFFICES ASSUME NEW i \in staged', NEW m \in 1..captured,
                        log[m].table = log[i].table, i <= m,
                        \/ Acknowledged(m)
                        \/ \E k \in staged' : log[k].table = log[i].table /\ m <= k
                        \/ ~IsEmpty(window[log[i].table]) /\ Lsn(m) <= window[log[i].table].to
                 PROVE  m \in staged' \/ m \in lost'
    BY <1>2 DEF NoGaps, IsEmpty, Lsn
  <2>2. /\ i \in DOMAIN log /\ m \in DOMAIN log /\ i \in Nat /\ m \in Nat
        /\ \A k \in staged' : k \in DOMAIN log /\ k \in Nat
    BY <1>3, PositionTypes
  <2>3. CASE i \in staged
    <3>1. log[i].table # t
      BY <1>3, <2>3
    <3>2. m \notin InWindow(t)
      BY <1>3, <2>1, <3>1
    <3>3. \A k \in staged' : log[k].table = log[i].table => k \in staged
      BY <1>3, <3>1
    <3>4. m \in staged \/ m \in lost
      BY <1>1, <2>1, <2>3, <3>3 DEF HeldInv, NoGaps
    <3> QED BY <3>2, <3>4
  <2>4. CASE i \in InWindow(t)
    <3>1. log[i].table = t /\ ~IsEmpty(window[t]) /\ window[t].from <= Lsn(i)
      BY <2>4 DEF InWindow
    <3>2. ~Acknowledged(m)
      BY <1>3, <2>1, <2>2, <2>4, AcknowledgedEarlier
    <3>3. window[t].from \in Nat /\ window[t].to \in Nat
      BY DEF TypeOK
    <3>4. window[t].from <= Lsn(m)
      BY <2>1, <2>2, <3>1, <3>3 DEF Lsn
    <3>5. Lsn(m) <= window[t].to
      <4>1. ASSUME NEW k \in staged', log[k].table = log[i].table, m <= k
            PROVE  Lsn(m) <= window[t].to
        <5>1. k \in InWindow(t)
          BY <1>3, <3>1, <4>1
        <5>2. Lsn(k) <= window[t].to
          BY <5>1 DEF InWindow
        <5> QED BY <2>2, <3>3, <4>1, <5>2 DEF Lsn
      <4> QED BY <2>1, <3>1, <3>2, <4>1
    <3> QED BY <2>1, <3>1, <3>4, <3>5 DEF InWindow
  <2> QED BY <2>1, <2>3, <2>4
<1>6. SnapshotsHeld'
  BY <1>1 DEF SnapshotsHeld
<1>7. DeletesHeld'
  <2>1. SUFFICES ASSUME NEW i \in OrderDeletes, i \notin lost', Acknowledged(i)
                 PROVE  NotLive(log[i].order)
    BY <1>1, <1>2 DEF DeletesHeld, NotLive
  <2>2. i \notin lost
    BY <1>3, <2>1
  <2> QED BY <2>1, <2>2 DEF HeldInv, DeletesHeld
<1>8. LinesHeld'
  <2>1. SUFFICES ASSUME NEW l \in Lines \ coalesced', LineChanges(l) \cap lost' = {}
                 PROVE  /\ GoneLine(l)'
                        /\ OrderChanges(l[1]) \cap lost' = {} => PresentLine(l)'
    BY <1>2 DEF LinesHeld, Whole
  <2>2. CASE \E i \in LineChanges(l) : ~Acknowledged(i)
    BY <1>1, <2>2, LineOutsideStageTwo
  <2>3. CASE \A i \in LineChanges(l) : Acknowledged(i)
    <3>1. l \notin coalesced /\ Whole(LineChanges(l))
      BY <1>3, <2>1, <2>3 DEF Whole
    <3>2. GoneLine(l)' /\ (Whole(OrderChanges(l[1])) => PresentLine(l)')
      BY <1>1, <2>1, <3>1, LineOutsideStageTwo DEF HeldInv, LinesHeld
    <3>3. OrderChanges(l[1]) \cap lost' = {} =>
            Whole(OrderChanges(l[1])) \/ \E i \in OrderChanges(l[1]) : ~Acknowledged(i)
      BY <1>3 DEF Whole
    <3> QED BY <1>1, <3>2, <3>3, LineOutsideStageTwo
  <2> QED BY <2>2, <2>3
<1>9. KeysOpened'
  BY KeysFrame, VersionFrame DEF HeldInv
<1> QED BY <1>4, <1>5, <1>6, <1>7, <1>8, <1>9 DEF HeldInv

LEMMA HeldReads ==
    ASSUME TypeOK, TypeOK', WindowsStart, WithinCaptured, HeldInv, ReadOrders \/ ReadDetails
    PROVE  HeldInv'
<1>1. UNCHANGED <<orders, lines, log, captured, wm, window, version, facts>>
  BY DEF ReadOrders, ReadDetails, LandOrders, LandDetails, Land, Step, source
<1>2. /\ \A u : StagedIn(u)' = {i \in staged' : log[i].table = u}
      /\ \A i : LineOf(i)' = LineOf(i)
      /\ \A S : /\ UndeterminedLines(S)' = UndeterminedLines(S)
                /\ UndeterminedOrders(S)' = UndeterminedOrders(S)
  BY <1>1 DEF StagedIn, LineOf, UndeterminedLines, UndeterminedOrders
<1>3. \A u \in Tables : \A i \in InWindow(u) : log[i].table = u /\ i \in DOMAIN log
  BY PositionTypes DEF InWindow
<1>4. \A i \in staged : log[i].table \in Tables /\ i \in DOMAIN log
  BY StagedEntries
<1>5. CASE ReadOrders
  <2>1. /\ pc = "landOrders" /\ pc' = "landDetails"
        /\ staged' = staged \cup InWindow("orders") /\ lost' = lost \ InWindow("orders")
        /\ coalesced' = coalesced \cup UndeterminedOrders(InWindow("orders"))
    BY <1>5 DEF ReadOrders, LandOrders, Land, Step
  <2>2. staged = {}
    <3>1. \A u \in Tables : ~HasLanded(u)
      BY <2>1 DEF HasLanded, StageTwo
    <3>2. \A i \in staged : HasLanded(log[i].table)
      BY <2>1 DEF HeldInv, StagedByRun
    <3> QED BY <1>4, <3>1, <3>2
  <2>3. StagedIn("orders")' = InWindow("orders")
    BY <1>2, <1>3, <2>1, <2>2
  <2>4. ~HasLanded("details")'
    BY <2>1 DEF HasLanded, StageTwo
  <2>5. UndeterminedOrders(StagedIn("orders"))' \subseteq coalesced'
    BY <1>1, <2>1, <2>3 DEF UndeterminedOrders
  <2>6. MixedUpKnown'
    BY <2>4, <2>5 DEF MixedUpKnown
  <2> QED BY <1>1, <2>1, <2>6, HeldLands
<1>6. CASE ReadDetails
  <2>1. /\ pc = "landDetails" /\ pc' = "snapOrders"
        /\ staged' = staged \cup InWindow("details") /\ lost' = lost \ InWindow("details")
        /\ coalesced' = (coalesced \ {LineOf(i) : i \in InWindow("details")})
                            \cup UndeterminedLines(InWindow("details"))
    BY <1>6 DEF ReadDetails, LandDetails, Land, Step
  <2>2. \A i \in staged : log[i].table = "orders"
    <3>1. ~HasLanded("details")
      BY <2>1 DEF HasLanded, StageTwo
    <3>2. \A i \in staged : HasLanded(log[i].table)
      BY <2>1 DEF HeldInv, StagedByRun
    <3> QED BY <1>4, <3>1, <3>2
  <2>3. /\ StagedIn("details")' = InWindow("details")
        /\ StagedIn("orders")' = StagedIn("orders")
    BY <1>2, <1>3, <2>1, <2>2 DEF StagedIn
  <2>4. UndeterminedOrders(StagedIn("orders")) \subseteq coalesced
    BY <2>1 DEF HeldInv, MixedUpKnown
  <2>5. /\ UndeterminedLines(StagedIn("details"))' = UndeterminedLines(InWindow("details"))
        /\ UndeterminedOrders(StagedIn("orders"))' = UndeterminedOrders(StagedIn("orders"))
    BY <1>1, <2>3 DEF UndeterminedOrders, UndeterminedLines, LineOf
  <2>6. ASSUME NEW l \in Lines \ coalesced'
        PROVE  /\ l \notin UndeterminedLines(StagedIn("details"))'
               /\ l \in UndeterminedOrders(StagedIn("orders"))' =>
                        \E i \in StagedIn("details")' : LineOf(i)' = l
    <3>1. l \notin UndeterminedLines(InWindow("details"))
      BY <2>1, <2>6
    <3>2. ASSUME l \in coalesced PROVE \E i \in InWindow("details") : LineOf(i) = l
      BY <2>1, <2>6, <3>2
    <3> QED BY <1>2, <2>3, <2>4, <2>5, <3>1, <3>2
  <2>7. MixedUpKnown'
    BY <2>1, <2>6 DEF MixedUpKnown
  <2>8. ASSUME NEW l \in coalesced \ coalesced'
        PROVE  \E i \in InWindow("details") : i \in LineChanges(l)
    <3>1. PICK i \in InWindow("details") : LineOf(i) = l
      BY <2>1, <2>8
    <3> QED BY <1>3, <3>1 DEF LineChanges
  <2> QED BY <1>1, <2>1, <2>7, <2>8, HeldLands
<1> QED BY <1>5, <1>6

LEMMA HeldSnapshots ==
    ASSUME TypeOK, TypeOK', WithinCaptured, SourceGone, HeldInv, SnapshotOrders \/ SnapshotLines,
           lost' = lost
    PROVE  HeldInv'
<1>1. /\ UNCHANGED <<orders, lines, log, captured, wm, window, staged, version, facts, coalesced>>
      /\ pc \in {"snapOrders", "snapLines"} /\ pc' \in {"snapLines", "ordersInsert"}
  BY DEF SnapshotOrders, SnapshotLines, Step, source, history
<1>2. /\ pc \notin {"idle", "clear", "landDetails"} \cup StageTwo /\ pc \in StageOne
      /\ pc' \notin {"landDetails"} \cup Marking
      /\ \A t : HasLanded(t) /\ HasLanded(t)'
  BY <1>1 DEF StageOne, StageTwo, HasLanded, Marking
<1>3. MarksHeld /\ captured' \in captured..Len(log)
  BY <1>1, MarksStill, PositionTypes
<1>4. StagedByRun' /\ NoGaps' /\ MixedUpKnown'
  BY <1>1, <1>2, <1>3, StagedFrame
<1>5. /\ \A i : Acknowledged(i)' <=> Acknowledged(i)
      /\ \A o : OrderChanges(o)' = OrderChanges(o)
      /\ \A l : LineChanges(l)' = LineChanges(l)
      /\ OrderDeletes' = OrderDeletes /\ Affected' = Affected
  BY <1>1, ChangesFrame DEF OrderDeletes, Affected, Staged
<1>6. \A i \in OrderDeletes : log[i].order \in Orders /\ log'[i].order = log[i].order
  BY <1>1, LogEntry, PositionTypes DEF OrderDeletes
<1>7. \A o \in Affected : o \in Orders
  BY StagedEntries DEF Affected
<1>8. CASE SnapshotOrders
  <2>1. /\ pc' = "snapLines" /\ pc' \notin StageTwo
        /\ snapOrders' = [o \in Orders |-> IF o \in Affected THEN orders[o] ELSE None]
    BY <1>8 DEF SnapshotOrders, Step, StageTwo
  <2>2. \A i \in OrderDeletes : snapOrders'[log[i].order] = None
    BY <1>6, <2>1 DEF SourceGone
  <2>3. SnapshotsHeld'
    BY <1>1, <1>5, <1>7, <2>1, <2>2 DEF SnapshotsHeld
  <2>4. LinesHeld'
    BY <1>1, <1>2, <2>1, LineOutsideStageTwo, LinesFrame
  <2> QED BY <1>1, <1>2, <1>3, <1>4, <2>3, <2>4, DeletesFrame, KeysFrame, VersionFrame
          DEF HeldInv, NotLive
<1>9. CASE SnapshotLines
  <2>1. /\ pc = "snapLines" /\ pc' = "ordersInsert" /\ snapOrders' = snapOrders
        /\ snapLines' = [l \in Lines |-> IF l[1] \in Affected THEN lines[l] ELSE None]
    BY <1>9 DEF SnapshotLines, Step
  <2>2. /\ \A o \in Affected :
            /\ orders[o] # None => snapOrders[o] # None
            /\ Read(OrderChanges(o)) /\ Whole(OrderChanges(o)) => snapOrders[o] = orders[o]
        /\ \A i \in OrderDeletes \ lost :
            Acknowledged(i) \/ i \in staged => snapOrders[log[i].order] = None
    BY <2>1 DEF HeldInv, SnapshotsHeld
  <2>3. ASSUME NEW i \in OrderDeletes, NEW p \in Products
        PROVE  snapLines'[<<log[i].order, p>>] = None
    <3>1. PICK o \in Orders : o = log[i].order
      BY <1>6
    <3>2. <<o, p>> \in Lines /\ lines[<<o, p>>] = None
      BY <3>1 DEF Lines, SourceGone
    <3> QED BY <2>1, <3>1, <3>2
  <2>4. \A o : Read(OrderChanges(o))' /\ Whole(OrderChanges(o))' =>
                    Read(OrderChanges(o)) /\ Whole(OrderChanges(o))
    BY <1>1, <1>5 DEF Read, Whole
  <2>5. SnapshotsHeld'
    BY <1>1, <1>5, <2>1, <2>2, <2>3, <2>4 DEF SnapshotsHeld
  <2>6. \A i \in staged : ~Acknowledged(i)
    BY <1>2 DEF HeldInv, StagedByRun
  <2>7. LinesHeld'
    BY <1>1, <1>2, <2>1, <2>6, LineEntersStageTwo, LinesFrame
  <2> QED BY <1>1, <1>2, <1>3, <1>4, <2>5, <2>7, DeletesFrame, KeysFrame, VersionFrame
          DEF HeldInv, NotLive
<1> QED BY <1>8, <1>9

\* Stage two by hand: nothing staged is acknowledged yet, and what its windows
\* pass of later changes is lost.
LEMMA HeldByHand ==
    ASSUME TypeOK, TypeOK', HeldInv, RunByHand
    PROVE  HeldInv'
<1>1. /\ UNCHANGED <<orders, lines, log, captured, wm, staged, snapOrders, snapLines,
                     version, facts, coalesced>>
      /\ pc = "ordersInsert" /\ pc' = pc /\ attempt = 0
      /\ lost' = lost \cup Unread("orders") \cup Unread("details")
  BY DEF RunByHand, Step, source, staging, history
<1>2. /\ pc \notin {"idle", "clear", "snapLines"} \cup Marking /\ pc \in StageTwo
      /\ \A t : HasLanded(t)' <=> HasLanded(t)
      /\ lost \subseteq lost'
  BY <1>1 DEF StageTwo, HasLanded, Marking
<1>3. MarksHeld /\ \A i : Acknowledged(i)' <=> Acknowledged(i)
  BY <1>1, MarksStill, ChangesFrame
<1>4. \A i \in staged : HasLanded(log[i].table) /\ ~Acknowledged(i) /\ i \in DOMAIN log
  BY <1>1, <1>2, PositionTypes DEF HeldInv, StagedByRun, TypeOK
<1>5. StagedByRun'
  <2>1. SUFFICES ASSUME NEW i \in staged PROVE HasLanded(log[i].table)'
    BY <1>1, <1>3, <1>4 DEF StagedByRun, HasLanded
  <2> QED BY <1>1, <1>4 DEF HasLanded
<1>6. NoGaps'
  <2>1. SUFFICES ASSUME NEW i \in staged, NEW m \in 1..captured, log[m].table = log[i].table, i <= m
                 PROVE  m \in staged \/ m \in lost'
    BY <1>1 DEF NoGaps
  <2>2. m \in DOMAIN log /\ log[m].table \in Tables
    BY PositionTypes
  <2>3. ~Acknowledged(m)
    BY <1>4, <2>1, <2>2, AcknowledgedEarlier
  <2> QED BY <1>1, <2>2, <2>3 DEF Unread
<1>7. SnapshotsHeld'
  BY <1>1, <1>2, <1>3, SnapshotsFrame
<1>8. MixedUpKnown'
  BY <1>1, <1>2 DEF HeldInv, MixedUpKnown, StagedIn, UndeterminedLines, UndeterminedOrders, LineOf
<1>9. LinesHeld'
  BY <1>1, <1>2, LineRetry, LinesFrame
<1> QED BY <1>1, <1>2, <1>3, <1>5, <1>6, <1>7, <1>8, <1>9, DeletesFrame, KeysFrame, VersionFrame
        DEF HeldInv, NotLive

-----------------------------------------------------------------------------
(* The incremental DAG, and what surrounds it.                             *)

LEMMA HeldIncremental ==
    ASSUME TypeOK, SeedTypeOK, WindowsStart, SeedDeliveryInv, SeedInv, ~mixed => HeldInv,
           Incremental, ~mixed'
    PROVE  HeldInv'
<1>1. TypeOK' /\ SeedWaits /\ UNCHANGED <<orders, lines, log>>
  BY IncrementalTypes
<1>2. ~mixed
  BY <1>1 DEF SeedWaits, Watch
<1>3. HeldInv /\ WithinCaptured /\ WindowsCover /\ SourceInv /\ SourceGone
  BY <1>2 DEF SeedDeliveryInv, SeedInv
<1>4. CASE ReadExpired
  <2>1. TaskFails /\ pc # "idle" /\ lost' = lost
    BY <1>4 DEF ReadExpired
  <2> QED BY <1>1, <1>3, <2>1, HeldFails
<1>5. CASE lost' = lost /\ StartRun
  <2>1. /\ UNCHANGED <<orders, lines, log, captured, wm, window, staged, snapOrders, snapLines,
                       version, facts, coalesced>>
        /\ pc \notin StageTwo /\ pc' = "clear"
    BY <1>5 DEF StartRun, Step, source, staging, history, StageTwo
  <2> QED BY <1>1, <1>3, <1>5, <2>1, HeldControl
<1>6. CASE lost' = lost /\ ClearStaging
  <2>1. /\ UNCHANGED <<orders, lines, log, captured, wm, version, facts, coalesced>>
        /\ staged' = {} /\ pc \notin StageTwo /\ pc' = "orderWindow"
    BY <1>6 DEF ClearStaging, Step, source, history, StageTwo
  <2> QED BY <1>1, <1>3, <1>6, <2>1, HeldEmpty
<1>7. CASE lost' = lost /\ (Unhealthy \/ Fail)
  <2>1. TaskFails /\ pc # "idle"
    BY <1>7 DEF Unhealthy, Fail
  <2> QED BY <1>1, <1>3, <1>7, <2>1, HeldFails
<1>8. CASE lost' = lost /\ (SnapshotOrders \/ SnapshotLines)
  BY <1>1, <1>3, <1>8, HeldSnapshots
<1>9. CASE lost' = lost /\ RunStageTwo
  BY <1>1, <1>3, <1>9, HeldStageTwo
<1>10. CASE ReadOrderWindow \/ ReadDetailWindow
  BY <1>1, <1>3, <1>10, HeldReadWindow
<1>11. CASE ReadOrders \/ ReadDetails
  BY <1>1, <1>3, <1>11, HeldReads
<1>12. CASE RunByHand
  BY <1>1, <1>3, <1>12, HeldByHand
<1> QED BY <1>4, <1>5, <1>6, <1>7, <1>8, <1>9, <1>10, <1>11, <1>12 DEF Incremental

\* Neither the capture nor the dimension load touches what a run holds.
LEMMA HeldBeside ==
    ASSUME TypeOK, WithinCaptured, HeldInv,
           UNCHANGED <<orders, lines, log, wm, pc, attempt, window, staged, snapOrders, snapLines,
                       facts, coalesced, lost>>,
           captured' \in captured..Len(log),
           \A p \in Products : version[p] <= version'[p] /\ version'[p] \in Nat
    PROVE  HeldInv'
<1>1. MarksHeld /\ \A t : HasLanded(t)' <=> HasLanded(t)
  BY MarksStill DEF HasLanded
<1>2. StagedByRun' /\ NoGaps' /\ MixedUpKnown'
  BY <1>1, StagedFrame
<1>3. SnapshotsHeld'
  BY <1>1, SnapshotsFrame
<1>4. DeletesHeld'
  BY <1>1, DeletesFrame DEF NotLive
<1>5. LinesHeld'
  <2>1. CASE pc \in StageTwo
    BY <2>1, LineRetry, LinesFrame
  <2>2. CASE pc \notin StageTwo
    BY <2>2, LineOutsideStageTwo, LinesFrame
  <2> QED BY <2>1, <2>2
<1> QED BY <1>2, <1>3, <1>4, <1>5, KeysFrame DEF HeldInv

\* A commit: the change is not staged, not acknowledged, and not lost.
LEMMA HeldCommit ==
    ASSUME TypeOK, SeedTypeOK, WithinCaptured, SourceInv, HeldInv, Source, lost' = lost
    PROVE  HeldInv'
<1>1. PICK c \in Changes : CommitShape(c)
  BY SourceShape
<1>2. UNCHANGED <<captured, wm, pc, attempt, window, staged, snapOrders, snapLines, version, facts,
                  coalesced>>
  BY CommitKeepsLog DEF staging, history
<1>3. PICK n : n = Len(log) + 1
  OBVIOUS
<1>4. /\ log'[n] = c /\ DOMAIN log' = DOMAIN log \cup {n}
      /\ \A i \in DOMAIN log : log'[i] = log[i]
      /\ \A o : OrderChanges(o)' =
              IF c.table = "orders" /\ c.order = o
              THEN OrderChanges(o) \cup {n} ELSE OrderChanges(o)
      /\ \A l : LineChanges(l)' =
              IF c.table = "details" /\ <<c.order, c.product>> = l
              THEN LineChanges(l) \cup {n} ELSE LineChanges(l)
  BY <1>1, <1>3, LogGrows DEF CommitShape
<1>5. /\ ~Acknowledged(n)' /\ n \notin staged
      /\ \A i \in DOMAIN log : Acknowledged(i)' <=> Acknowledged(i)
      /\ staged \subseteq DOMAIN log
  BY <1>1, <1>2, <1>3, CommitUnread
<1>6. 1..captured \subseteq DOMAIN log
  BY PositionTypes
<1>7. StagedByRun'
  BY <1>2, <1>4, <1>5 DEF HeldInv, StagedByRun, HasLanded
<1>8. NoGaps'
  BY <1>2, <1>4, <1>5, <1>6 DEF HeldInv, NoGaps, IsEmpty, Lsn
<1>9. Affected' = Affected
  BY <1>2, <1>4, <1>5 DEF Affected, Staged
<1>10. c.order \in Orders /\ c.table \in Tables
  BY DEF Changes
<1>11. ASSUME NEW o \in Affected
       PROVE  /\ orders'[o] # None => orders[o] # None
              /\ Read(OrderChanges(o))' /\ Whole(OrderChanges(o))' =>
                    Read(OrderChanges(o)) /\ Whole(OrderChanges(o)) /\ orders'[o] = orders[o]
  <2>1. PICK i \in staged : log[i].order = o /\ o \in Orders
    BY StagedEntries DEF Affected
  <2>2. orders'[o] # None => orders[o] # None
    BY <1>1, <1>5, <1>10, <2>1 DEF CommitShape, TypeOK
  <2>3. CASE c.table = "orders" /\ c.order = o
    <3>1. ~Read(OrderChanges(o))'
      BY <1>2, <1>4, <1>5, <2>3 DEF Read
    <3> QED BY <2>2, <3>1
  <2>4. CASE ~(c.table = "orders" /\ c.order = o)
    <3>1. orders'[o] = orders[o]
      BY <1>1, <1>10, <2>1, <2>4 DEF CommitShape, TypeOK
    <3>2. OrderChanges(o)' = OrderChanges(o)
      BY <1>4, <2>4
    <3>3. Read(OrderChanges(o))' => Read(OrderChanges(o))
      BY <1>2, <1>5, <3>2 DEF Read, OrderChanges
    <3> QED BY <2>2, <3>1, <3>2, <3>3 DEF Whole
  <2> QED BY <2>3, <2>4
<1>12. ASSUME NEW l \in Lines, Read(LineChanges(l))', Whole(LineChanges(l))'
       PROVE  Read(LineChanges(l)) /\ Whole(LineChanges(l)) /\ lines'[l] = lines[l]
  <2>1. ~(c.table = "details" /\ <<c.order, c.product>> = l)
    BY <1>2, <1>4, <1>5, <1>12 DEF Read
  <2>2. LineChanges(l)' = LineChanges(l)
    BY <1>4, <2>1
  <2>3. lines'[l] = lines[l]
    BY <1>1, <1>10, <2>1 DEF CommitShape, TypeOK
  <2> QED BY <1>2, <1>5, <1>12, <2>2, <2>3 DEF Read, Whole, LineChanges
<1>13. \A i \in OrderDeletes' : Acknowledged(i)' \/ i \in staged =>
            /\ i \in OrderDeletes /\ log'[i].order = log[i].order
            /\ Acknowledged(i)' <=> Acknowledged(i)
  BY <1>4, <1>5 DEF OrderDeletes
<1>14. SnapshotsHeld'
  BY <1>2, <1>9, <1>11, <1>12, <1>13 DEF HeldInv, SnapshotsHeld
<1>15. DeletesHeld'
  BY <1>2, <1>13 DEF HeldInv, DeletesHeld, NotLive
<1>16. MixedUpKnown'
  <2>1. ASSUME NEW t \in Tables
        PROVE  /\ StagedIn(t)' = StagedIn(t)
               /\ UndeterminedLines(StagedIn(t))' = UndeterminedLines(StagedIn(t))
               /\ UndeterminedOrders(StagedIn(t))' = UndeterminedOrders(StagedIn(t))
    <3>1. PICK S : S = StagedIn(t)
      OBVIOUS
    <3>2. StagedIn(t)' = S /\ \A i \in S : log'[i] = log[i]
      BY <1>2, <1>4, <1>5, <3>1 DEF StagedIn
    <3>3. /\ UndeterminedLines(S)' = UndeterminedLines(S)
          /\ UndeterminedOrders(S)' = UndeterminedOrders(S)
      BY <3>2, UndeterminedKept
    <3>4. /\ UndeterminedLines(StagedIn(t))' = UndeterminedLines(S)'
          /\ UndeterminedOrders(StagedIn(t))' = UndeterminedOrders(S)'
      BY <3>2 DEF UndeterminedLines, UndeterminedOrders
    <3> QED BY <3>1, <3>2, <3>3, <3>4
  <2>2. \A i \in StagedIn("details") : LineOf(i)' = LineOf(i)
    BY <1>4, <1>5 DEF StagedIn, LineOf
  <2> QED BY <1>2, <2>1, <2>2 DEF HeldInv, MixedUpKnown, HasLanded
<1>17. LinesHeld'
  <2>1. \A l \in Lines : /\ Whole(LineChanges(l))' => Whole(LineChanges(l))
                         /\ Whole(OrderChanges(l[1]))' => Whole(OrderChanges(l[1]))
    BY <1>4 DEF Whole
  <2>2. \A l \in Lines : /\ GoneLine(l) => GoneLine(l)'
                         /\ PresentLine(l) => PresentLine(l)'
    BY <1>1, <1>2, LineCommit
  <2> QED BY <1>2, <2>1, <2>2 DEF HeldInv, LinesHeld
<1>18. KeysOpened'
  BY <1>2, KeysFrame, VersionFrame DEF HeldInv
<1> QED BY <1>7, <1>8, <1>14, <1>15, <1>16, <1>17, <1>18 DEF HeldInv

LEMMA HeldSurroundings ==
    ASSUME TypeOK, SeedTypeOK, SeedDeliveryInv, SeedInv, ~mixed => HeldInv, Surroundings, ~mixed'
    PROVE  HeldInv'
<1>1. SeedWaits /\ lost' = lost
  BY DEF Surroundings
<1>2. HeldInv /\ WithinCaptured /\ SourceInv
  BY <1>1 DEF SeedWaits, Watch, SeedDeliveryInv, SeedInv
<1>3. CASE Source
  BY <1>1, <1>2, <1>3, HeldCommit
<1>4. captured \in Nat /\ Len(log) \in Nat /\ captured <= Len(log)
  BY PositionTypes
<1>5. CASE Capture
  <2>1. captured' \in captured..Len(log)
    BY <1>4, <1>5 DEF Capture
  <2>2. UNCHANGED <<orders, lines, log, wm, pc, attempt, window, staged, snapOrders, snapLines,
                    version, facts, coalesced>>
    BY <1>5 DEF Capture, source, staging, history
  <2> QED BY <1>1, <1>2, <2>1, <2>2, HeldBeside, VersionFrame
<1>6. ASSUME NEW p \in Products, NewVersion(p) PROVE HeldInv'
  <2>1. \A q \in Products : version[q] \in Nat
    BY BoundsAssumption DEF TypeOK
  <2>2. \A q \in Products : version[q] <= version'[q] /\ version'[q] \in Nat
    BY <1>6, <2>1 DEF NewVersion, TypeOK
  <2>3. UNCHANGED <<orders, lines, log, wm, pc, attempt, window, staged, snapOrders, snapLines,
                    facts, coalesced, captured>>
    BY <1>6 DEF NewVersion, source, staging, history
  <2> QED BY <1>1, <1>2, <1>4, <2>2, <2>3, HeldBeside
<1> QED BY <1>3, <1>5, <1>6 DEF Surroundings

-----------------------------------------------------------------------------
(* The seed.                                                               *)

\* While no run is active, only the facts and the rows of deleted orders count.
LEMMA HeldIdle ==
    ASSUME pc' = "idle", DeletesHeld', KeysOpened', LinesHeld'
    PROVE  HeldInv'
BY DEF HeldInv, StagedByRun, NoGaps, SnapshotsHeld, MixedUpKnown, HasLanded, StageTwo

\* A seed that was alone writes the source as it is, up to what is acknowledged.
LEMMA HeldRebuilt ==
    ASSUME TypeOK, SeedTypeOK, SeedDeliveryInv, SeedInv, SeedWrite, apart, pc = "idle"
    PROVE  HeldInv'
<1>1. /\ UNCHANGED <<orders, lines, log, captured, wm, pc, snapOrders, snapLines, version>>
      /\ seedPc = "write" /\ coalesced' = {} /\ lost' = {}
      /\ facts' = [k \in FactKeys |->
            IF k[1] \in SnapshotJoin /\ k[2] = seedVersion[k[1][2]]
            THEN [freight |-> snapOrders[k[1][1]], qty |-> snapLines[k[1]], deleted |-> FALSE]
            ELSE facts[k]]
  BY DEF SeedWrite, SeedStep, source, staging
<1>2. seedPc \in SeedStageTwo
  BY <1>1 DEF SeedStageTwo
<1>3. /\ \A i : Acknowledged(i)' <=> Acknowledged(i)
      /\ \A o : OrderChanges(o)' = OrderChanges(o)
      /\ \A l : LineChanges(l)' = LineChanges(l)
      /\ OrderDeletes' = OrderDeletes
  BY <1>1, ChangesFrame DEF OrderDeletes
<1>4. \A i \in DOMAIN log : Acknowledged(i) => i <= seedBase
  BY <1>2 DEF SeedDeliveryInv, SeedCovers
<1>5. /\ \A k \in FactKeys : facts[k] = None
      /\ \A p \in Products : /\ seedVersion[p] <= version[p] /\ seedVersion[p] \in 0..MaxVersions
                             /\ (\E l \in SnapshotJoin : l[2] = p) => seedVersion[p] > 0
  BY <1>1 DEF SeedInv, SeedRows, SeedTypeOK
<1>6. ASSUME NEW l \in Lines, NEW n \in 1..MaxVersions
      PROVE  facts'[<<l, n>>] = IF l \in SnapshotJoin /\ n = seedVersion[l[2]]
                                THEN [freight |-> snapOrders[l[1]], qty |-> snapLines[l],
                                      deleted |-> FALSE]
                                ELSE None
  <2>1. <<l, n>> \in FactKeys
    BY DEF FactKeys
  <2> QED BY <1>1, <1>5, <2>1
<1>7. ASSUME NEW l \in Lines
      PROVE  /\ l \notin SnapshotJoin => RowsOf(l)' = {}
             /\ l \in SnapshotJoin =>
                    /\ RowsOf(l)' = {seedVersion[l[2]]} /\ seedVersion[l[2]] \in 1..MaxVersions
                    /\ facts'[<<l, seedVersion[l[2]]>>] =
                            [freight |-> snapOrders[l[1]], qty |-> snapLines[l], deleted |-> FALSE]
  <2>1. l[1] \in Orders /\ l[2] \in Products
    BY DEF Lines
  <2>2. CASE l \notin SnapshotJoin
    BY <1>6, <2>2 DEF RowsOf
  <2>3. CASE l \in SnapshotJoin
    <3>1. seedVersion[l[2]] \in 1..MaxVersions
      BY <1>5, <2>1, <2>3, BoundsAssumption
    <3>2. snapOrders[l[1]] \in Values /\ snapLines[l] \in Values
      BY <2>1, <2>3 DEF SnapshotJoin, TypeOK
    <3>3. [freight |-> snapOrders[l[1]], qty |-> snapLines[l], deleted |-> FALSE] \in Rows
      BY <3>2 DEF Rows
    <3>4. [freight |-> snapOrders[l[1]], qty |-> snapLines[l], deleted |-> FALSE] # None
      BY <3>3, NoneAssumption
    <3> QED BY <1>6, <2>3, <3>1, <3>4 DEF RowsOf
  <2> QED BY <2>2, <2>3
<1>8. \A l \in Lines : seedVersion[l[2]] <= version'[l[2]] /\ seedVersion[l[2]] \in Nat
  BY <1>1, <1>5, BoundsAssumption DEF Lines
<1>9. KeysOpened'
  <2>1. SUFFICES ASSUME NEW l \in Lines
                 PROVE  /\ \A n \in RowsOf(l)' : n <= version'[l[2]]
                        /\ RowsOf(l)' # {} => \E n \in RowsOf(l)' : IsLast(n, RowsOf(l)')
    BY DEF KeysOpened, IsLast
  <2>2. PICK n : n = seedVersion[l[2]]
    OBVIOUS
  <2>3. n <= version'[l[2]] /\ n \in Nat
    BY <1>8, <2>2
  <2>4. RowsOf(l)' = {} \/ RowsOf(l)' = {n}
    BY <1>7, <2>2
  <2> QED BY <2>3, <2>4 DEF IsLast
<1>10. DeletesHeld'
  <2>1. SUFFICES ASSUME NEW i \in OrderDeletes, Acknowledged(i)
                 PROVE  NotLive(log[i].order)'
    BY <1>1, <1>3 DEF DeletesHeld, NotLive, Marking
  <2>2. PICK o : o = log[i].order
    OBVIOUS
  <2>3. snapOrders[o] = None
    BY <1>2, <1>4, <2>1, <2>2 DEF SeedInv, SeedSnapshots, OrderDeletes
  <2>4. ASSUME NEW k \in FactKeys, k[1][1] = o PROVE facts'[k] = None
    BY <1>1, <1>5, <2>3, <2>4 DEF SnapshotJoin
  <2>5. NotLive(o)'
    BY <2>4 DEF NotLive
  <2> QED BY <1>1, <2>2, <2>5 DEF NotLive
<1>11. ASSUME NEW l \in Lines, \A i \in LineChanges(l) : Acknowledged(i)
       PROVE  snapLines[l] = lines[l]
  <2>1. \A i \in LineChanges(l) : i <= seedBase
    BY <1>4, <1>11 DEF LineChanges
  <2> QED BY <1>2, <2>1 DEF SeedInv, SeedSnapshots
<1>12. pc' \notin StageTwo
  BY <1>1 DEF StageTwo
<1>13. ASSUME NEW l \in Lines, lines[l] = None, GoneDue(l)'
       PROVE  RowsOf(l)' = {}
  <2>1. \A i \in LineChanges(l) : Acknowledged(i)
    BY <1>3, <1>12, <1>13 DEF GoneDue, Settled
  <2>2. l \notin SnapshotJoin
    BY <1>11, <1>13, <2>1 DEF SnapshotJoin
  <2> QED BY <1>7, <2>2
<1>14. ASSUME NEW l \in Lines, lines[l] # None, PresentDue(l)'
       PROVE  NewestIs(l, {SourceRow(l)})'
  <2>1. /\ \A i \in LineChanges(l) : Acknowledged(i)
        /\ \A i \in OrderChanges(l[1]) : Acknowledged(i)
    BY <1>3, <1>12, <1>14 DEF PresentDue, Settled
  <2>2. l[1] \in Orders /\ orders[l[1]] # None
    BY <1>14 DEF Lines, SeedInv, SourceInv, LastChangeHolds
  <2>3. \A i \in OrderChanges(l[1]) : i <= seedBase
    BY <1>4, <2>1 DEF OrderChanges
  <2>4. snapOrders[l[1]] = orders[l[1]]
    BY <1>2, <2>2, <2>3 DEF SeedInv, SeedSnapshots
  <2>5. snapLines[l] = lines[l]
    BY <1>11, <2>1
  <2>6. l \in SnapshotJoin
    BY <1>14, <2>2, <2>4, <2>5 DEF SnapshotJoin
  <2>7. PICK n : n = seedVersion[l[2]]
    OBVIOUS
  <2>8. RowsOf(l)' = {n} /\ n \in Nat /\ facts'[<<l, n>>] = SourceRow(l)
    BY <1>7, <1>8, <2>4, <2>5, <2>6, <2>7 DEF SourceRow
  <2>9. SourceRow(l)' = SourceRow(l)
    BY <1>1 DEF SourceRow
  <2> QED BY <2>8, <2>9 DEF NewestIs, IsLast
<1>15. LinesHeld'
  BY <1>1, <1>13, <1>14 DEF LinesHeld, GoneLine, PresentLine
<1> QED BY <1>1, <1>9, <1>10, <1>15, HeldIdle

LEMMA HeldSeed ==
    ASSUME TypeOK, SeedTypeOK, SeedDeliveryInv, SeedInv, ~mixed => HeldInv, Seed, ~mixed'
    PROVE  HeldInv'
<1>1. /\ UNCHANGED <<orders, lines, log, captured, wm, pc, window>> /\ Watch
      /\ seedPc # "idle" \/ seedPc' # "idle"
  BY DEF Seed, StartSeed, SeedClear, SeedReadChanges, SeedSnapshotOrders, SeedSnapshotLines,
     SeedTransform, SeedTruncate, SeedWrite, EndSeed, SeedFail, SeedRaises, SeedTaskFails,
     SeedStep, source
<1>2. pc = "idle" /\ (seedPc # "write" => (mixed => mixed'))
  BY <1>1, SeedAlone DEF SeedTypeOK, source
<1>3. CASE SeedWrite /\ apart
  BY <1>2, <1>3, HeldRebuilt
<1>4. CASE ~(SeedWrite /\ apart)
  <2>1. ~SeedTruncate
    BY <1>1 DEF SeedTruncate, SeedStep, Watch
  <2>2. ~SeedWrite
    BY <1>1, <1>4 DEF SeedWrite, SeedStep, Watch
  <2>3. UNCHANGED <<facts, coalesced, lost>>
    BY <2>1, <2>2 DEF Seed, StartSeed, SeedClear, SeedReadChanges, SeedSnapshotOrders,
       SeedSnapshotLines, SeedTransform, EndSeed, SeedFail, SeedRaises, SeedTaskFails, history,
       seedHistory
  <2>4. ~(seedPc = "write" /\ seedPc' = "seedReport")
    BY <2>2 DEF Seed, StartSeed, SeedClear, SeedReadChanges, SeedSnapshotOrders, SeedSnapshotLines,
       SeedTransform, SeedTruncate, EndSeed, SeedFail, SeedRaises, SeedTaskFails, SeedRetry,
       SeedFailRun, SeedTaskStart, SeedStep
  <2>5. HeldInv
    BY <1>1, <2>4 DEF Watch
  <2>6. \A p \in Products : version[p] \in Nat
    BY BoundsAssumption DEF TypeOK
  <2>7. \A p \in Products : version[p] <= version'[p] /\ version'[p] \in Nat
    <3>1. CASE SeedTransform
      BY <2>6, <3>1 DEF SeedTransform
    <3>2. CASE ~SeedTransform
      <4>1. version' = version
        BY <2>2, <3>2 DEF Seed, StartSeed, SeedClear, SeedReadChanges, SeedSnapshotOrders,
           SeedSnapshotLines, SeedTruncate, EndSeed, SeedFail, SeedRaises, SeedTaskFails
      <4> QED BY <2>6, <4>1
    <3> QED BY <3>1, <3>2
  <2>8. KeysOpened'
    BY <2>3, <2>5, <2>7, KeysFrame DEF HeldInv
  <2>9. pc \notin StageTwo /\ pc' \notin StageTwo \cup Marking
    BY <1>1, <1>2 DEF StageTwo, Marking
  <2>10. DeletesHeld'
    BY <1>1, <2>3, <2>5, <2>9, MarksStill, DeletesFrame DEF NotLive
  <2>11. LinesHeld'
    BY <1>1, <2>3, <2>5, <2>9, LineOutsideStageTwo, LinesFrame
  <2> QED BY <1>1, <1>2, <2>8, <2>10, <2>11, HeldIdle
<1> QED BY <1>3, <1>4

-----------------------------------------------------------------------------
(* Together.                                                               *)

LEMMA RepairInit == SeedInit => SeedRepairInv
<1> SUFFICES ASSUME SeedInit PROVE SeedInv /\ HeldInv
  BY DEF SeedRepairInv
<1>1. /\ Init /\ log = <<>> /\ DOMAIN log = {} /\ pc = "idle" /\ seedPc = "idle"
      /\ \A o \in Orders : snapOrders[o] = None
  BY DEF SeedInit, Init
<1>2. SourceInv /\ ConvergenceInv
  BY <1>1, SourceInit, ConvergenceInit
<1>3. OrderDeletes = {}
  BY <1>1 DEF OrderDeletes
<1>4. SeedInv
  BY <1>1, <1>2, <1>3 DEF SeedInv, SourceGone, KnownOrders, SeedSnapshots, SeedRows, SeedStageTwo
<1>5. DeletesHeld /\ KeysOpened /\ LinesHeld
  BY <1>2, <1>3 DEF ConvergenceInv, LinesConverge, DeletesHeld, LinesHeld
<1>6. StagedByRun /\ NoGaps /\ SnapshotsHeld /\ MixedUpKnown
  BY <1>1 DEF StagedByRun, NoGaps, SnapshotsHeld, MixedUpKnown, HasLanded, StageTwo
<1> QED BY <1>4, <1>5, <1>6 DEF HeldInv

LEMMA HeldStutters ==
    ASSUME TypeOK, WithinCaptured, HeldInv, UNCHANGED allVars
    PROVE  HeldInv'
<1>1. UNCHANGED <<orders, lines, log, captured, wm, pc, attempt, window, staged, snapOrders,
                  snapLines, version, facts, coalesced, lost>>
  BY DEF allVars, seedVars, seedHistory, vars, source, staging, history
<1> QED BY <1>1, HeldBeside, VersionFrame, PositionTypes

LEMMA RepairStep ==
    /\ TypeOK /\ SeedTypeOK /\ WindowsStart /\ SeedDeliveryInv /\ SeedRepairInv
    /\ [SeedNext]_allVars
    => SeedRepairInv'
<1> SUFFICES ASSUME TypeOK, SeedTypeOK, WindowsStart, SeedDeliveryInv, SeedRepairInv,
                    [SeedNext]_allVars
             PROVE  SeedRepairInv'
  OBVIOUS
<1>1. SeedInv /\ (~mixed => HeldInv)
  BY DEF SeedRepairInv
<1>2. SeedInv'
  BY <1>1, SeedInvStep
<1>3. ASSUME ~mixed' PROVE HeldInv'
  <2>1. CASE UNCHANGED allVars
    <3>1. mixed' = mixed
      BY <2>1 DEF allVars, seedVars
    <3> QED BY <1>1, <1>3, <2>1, <3>1, HeldStutters DEF SeedDeliveryInv
  <2> QED BY <1>1, <1>3, <2>1, HeldIncremental, HeldSurroundings, HeldSeed DEF SeedNext
<1> QED BY <1>2, <1>3 DEF SeedRepairInv

\* What a seed that is alone will write, and what the runs hold unless the two
\* DAGs have mixed things up, at every step.
THEOREM SeedRepairInvariant == SeedSpec => []SeedRepairInv
<1> QED BY SeedTypeCorrect, SeedWindowsStart, SeedDeliveryInvariant, RepairInit, RepairStep,
           PTL DEF SeedSpec

\* A seed that ran alone repairs what came before it: once the changes after it
\* are acknowledged too, the newest row of every line of which nothing is lost,
\* and that no window mixed up, is the source's (staging_to_dw_facts.py,
\* initial_load).
THEOREM SeedsRepair == SeedSpec => []SeedRepairs
<1>1. ASSUME TypeOK, SeedTypeOK, SeedRepairInv PROVE SeedRepairs
  <2> SUFFICES ASSUME Quiescent, ~mixed, NEW l \in Lines \ (coalesced \cup LostLines)
               PROVE  NewestAgrees(l)
    BY DEF SeedRepairs
  <2>1. pc \notin StageTwo /\ \A i \in DOMAIN log : Acknowledged(i)
    BY DEF Quiescent, StageTwo
  <2>2. /\ \A i \in LineChanges(l) : Acknowledged(i)
        /\ \A i \in OrderChanges(l[1]) : Acknowledged(i)
    BY <2>1 DEF LineChanges, OrderChanges
  <2>3. SourceInv /\ HeldInv
    BY <1>1 DEF SeedRepairInv, SeedInv
  <2>4. \A i \in lost : ~(log[i].order = l[1] /\ log[i].product \in {None, l[2]})
    BY DEF LostLines
  <2>5. Whole(LineChanges(l))
    <3>1. l = <<l[1], l[2]>>
      BY DEF Lines
    <3>2. \A i \in LineChanges(l) : log[i].order = l[1] /\ log[i].product = l[2]
      BY <3>1 DEF LineChanges, LineOf
    <3> QED BY <2>4, <3>2 DEF Whole
  <2>6. Whole(OrderChanges(l[1]))
    <3>1. \A i \in OrderChanges(l[1]) : log[i].order = l[1] /\ log[i].product = None
      BY <2>3 DEF OrderChanges, SourceInv, OrdersNameNoProduct
    <3> QED BY <2>4, <3>1 DEF Whole
  <2>7. GoneLine(l) /\ PresentLine(l)
    BY <2>3, <2>5, <2>6 DEF HeldInv, LinesHeld
  <2>8. ASSUME NEW i \in OrderChanges(l[1]), log[i].op = "delete"
        PROVE  NotLive(l[1])
    <3>1. i \in OrderDeletes \ lost /\ log[i].order = l[1] /\ Acknowledged(i)
      BY <2>2, <2>6, <2>8 DEF OrderChanges, OrderDeletes, Whole
    <3> QED BY <2>3, <3>1 DEF HeldInv, DeletesHeld
  <2> QED BY <1>1, <2>1, <2>2, <2>3, <2>7, <2>8, LineAgrees DEF HeldInv
<1> QED BY <1>1, SeedTypeCorrect, SeedRepairInvariant, PTL
=============================================================================
