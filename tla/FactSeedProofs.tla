--------------------------- MODULE FactSeedProofs ---------------------------
(***************************************************************************)
(* Proofs about FactSeed: the incremental and the seed DAG side by side,   *)
(* over change tables that expire, for any orders, products and values,    *)
(* any number of commits, runs, seeds, failures and retries.               *)
(***************************************************************************)
EXTENDS FactSeed, FactPipelineProofs

-----------------------------------------------------------------------------
(* Types.                                                                  *)

LEMMA SeedTypeInit == SeedInit => SeedTypeOK
<1> SUFFICES ASSUME SeedInit PROVE SeedTypeOK
  OBVIOUS
<1>1. Len(log) = 0 /\ captured = 0
  BY DEF SeedInit, Init
<1>2. NoVersion \in [Products -> 0..MaxVersions]
  BY BoundsAssumption DEF NoVersion
<1>3. 0 \in 0..SeedRetries /\ 0 \in 0..MaxSeeds /\ 0 \in 0..0
  BY SeedBoundsAssumption
<1>4. apart \in BOOLEAN /\ mixed \in BOOLEAN
  BY DEF SeedInit
<1> QED BY <1>1, <1>2, <1>3, <1>4 DEF SeedInit, SeedTypeOK

\* What the cleanup can have dropped is captured.
LEMMA CleanedTypes ==
    ASSUME TypeOK, SeedTypeOK, cleaned' \in CleanedNow
    PROVE  cleaned' \in 0..captured /\ LowLsn(cleaned') \in Nat
<1>1. cleaned \in Nat /\ captured \in Nat
  BY PositionTypes DEF SeedTypeOK
<1>2. cleaned' \in 0..captured
  BY <1>1 DEF CleanedNow
<1>3. PICK n \in Nat : n = cleaned'
  BY <1>1, <1>2
<1>4. 2 * n + 1 \in Nat
  OBVIOUS
<1> QED BY <1>2, <1>3, <1>4 DEF LowLsn, Lsn

LEMMA WindowTypes ==
    ASSUME TypeOK, NEW t \in Tables, NEW n \in Nat
    PROVE  RetainedFrom(t, n) \in Nat /\ Lsn(captured) \in Nat
<1>1. wm[t] \in Nat \cup {None} /\ captured \in Nat
  BY PositionTypes
<1> QED BY <1>1 DEF RetainedFrom, LowLsn, FromLsn, Lsn, MinLsn

\* Whatever the incremental DAG or its surroundings do beside a seed.
LEMMA SeedWaitsTypes ==
    ASSUME TypeOK, SeedTypeOK, SeedWaits, Len(log') \in Nat, Len(log) <= Len(log'),
           cleaned' \in 0..captured', lost' \subseteq 1..captured'
    PROVE  SeedTypeOK'
<1>1. Len(log) \in Nat
  BY PositionTypes
<1>2. apart' \in BOOLEAN /\ mixed' \in BOOLEAN
  BY DEF SeedWaits, Watch, SeedTypeOK
<1> QED BY <1>1, <1>2 DEF SeedWaits, SeedTypeOK

LEMMA IncrementalTypes ==
    ASSUME TypeOK, SeedTypeOK, Incremental
    PROVE  /\ TypeOK' /\ SeedTypeOK'
           /\ UNCHANGED <<orders, lines, log, captured>> /\ SeedWaits
<1> USE DEF Tables
<1>1. Len(log) \in Nat /\ captured \in Nat /\ Len(log) <= Len(log) /\ lost \subseteq 1..captured
      /\ cleaned \in 0..captured
  BY PositionTypes DEF SeedTypeOK
<1>2. ASSUME NEW t \in Tables, NEW here, NEW next \in StageOne, ReadWindow(t, here, next)
      PROVE  /\ TypeOK' /\ SeedTypeOK' /\ SeedWaits
             /\ UNCHANGED <<orders, lines, log, captured>>
  <2>1. Step(here, next) /\ Within /\ SeedWaits /\ cleaned' \in CleanedNow
    BY <1>2 DEF ReadWindow
  <2>2. cleaned' \in 0..captured /\ RetainedFrom(t, cleaned') \in Nat /\ Lsn(captured) \in Nat
    BY <2>1, CleanedTypes, WindowTypes
  <2>3. window' \in [Tables -> [from: Nat, to: Nat]]
    BY <1>2, <2>2 DEF ReadWindow, TypeOK
  <2>4. UNCHANGED <<orders, lines, log, captured>>
    BY <2>1 DEF Step, source
  <2>5. lost' \subseteq 1..captured
    BY <1>1, <1>2 DEF ReadWindow, Unread
  <2>6. TypeOK'
    BY <1>2, <2>1, <2>3, StepType DEF ReadWindow, staging, history, TypeOK, StageOne, StageTwo
  <2>7. SeedTypeOK'
    BY <1>1, <2>1, <2>2, <2>4, <2>5, SeedWaitsTypes
  <2> QED BY <2>1, <2>4, <2>5, <2>6, <2>7
<1>3. CASE ReadOrderWindow \/ ReadDetailWindow
  BY <1>2, <1>3 DEF ReadOrderWindow, ReadDetailWindow, StageOne
<1>4. CASE RunByHand
  <2>1. Step("ordersInsert", "ordersInsert") /\ SeedWaits /\ cleaned' \in CleanedNow
    BY <1>4 DEF RunByHand
  <2>2. cleaned' \in 0..captured /\ Lsn(captured) \in Nat
        /\ \A t \in Tables : RetainedFrom(t, cleaned') \in Nat
    BY <2>1, CleanedTypes, WindowTypes
  <2>3. window' \in [Tables -> [from: Nat, to: Nat]]
    BY <1>4, <2>2 DEF RunByHand
  <2>4. UNCHANGED <<orders, lines, log, captured, failures>> /\ attempt' = Retries
        /\ pc' = "ordersInsert"
    BY <1>4, <2>1 DEF RunByHand, Step, source
  <2>5. lost' \subseteq 1..captured
    BY <1>1, <1>4 DEF RunByHand, Unread
  <2>6. TypeOK'
    BY <1>4, <2>3, <2>4, BoundsAssumption DEF RunByHand, staging, history, TypeOK, StageTwo
  <2>7. SeedTypeOK'
    BY <1>1, <2>1, <2>2, <2>4, <2>5, SeedWaitsTypes
  <2> QED BY <2>1, <2>4, <2>5, <2>6, <2>7
<1>5. ASSUME UNCHANGED <<orders, lines, log, captured>>, SeedWaits, lost' \subseteq lost,
             cleaned' \in 0..captured
      PROVE  SeedTypeOK'
  BY <1>1, <1>5, SeedWaitsTypes
<1>6. CASE ReadOrders \/ ReadDetails
  <2>1. RunStageOne /\ SeedWaits /\ lost' \subseteq lost /\ cleaned' \in CleanedNow
    BY <1>6 DEF ReadOrders, ReadDetails, RunStageOne
  <2>2. UNCHANGED <<orders, lines, log, captured>>
    BY <1>6 DEF ReadOrders, ReadDetails, LandOrders, LandDetails, Step, source
  <2> QED BY <1>5, <2>1, <2>2, CleanedTypes, StageOneType
<1>7. CASE ReadExpired
  <2>1. TaskFails /\ SeedWaits /\ lost' = lost /\ cleaned' \in CleanedNow /\ failures' = failures
    BY <1>7 DEF ReadExpired
  <2>2. failures' \in 0..MaxFailures
    BY <2>1 DEF TypeOK
  <2>3. UNCHANGED <<orders, lines, log, captured>>
    BY <2>1 DEF TaskFails, source
  <2> QED BY <1>5, <2>1, <2>2, <2>3, CleanedTypes, FailureType
<1>8. CASE /\ \/ StartRun \/ ClearStaging \/ SnapshotOrders \/ SnapshotLines
              \/ RunStageTwo \/ Unhealthy \/ Fail
           /\ UNCHANGED <<cleaned, lost>> /\ SeedWaits
  <2>1. [Next]_vars
    BY <1>8 DEF Next, RunTask, RunStageOne
  <2>2. TypeOK'
    BY <2>1, TypeStep
  <2>3. UNCHANGED <<orders, lines, log, captured>>
    BY <1>8 DEF StartRun, ClearStaging, SnapshotOrders, SnapshotLines, RunStageTwo, Unhealthy, Fail,
       ApplyOrdersInsert, ApplyOrdersUpdate, ApplyDetailsInsert, ApplyDetailsUpdate,
       ApplyDetailsDelete, ApplyOrders, ApplyLines, TombstoneDeletedOrders, MarkOrders,
       MarkDetails, WriteWatermark, EndRun, TaskFails, Step, source
  <2> QED BY <1>1, <1>5, <1>8, <2>2, <2>3
<1> QED BY <1>3, <1>4, <1>6, <1>7, <1>8 DEF Incremental

LEMMA SurroundingsTypes ==
    ASSUME TypeOK, SeedTypeOK, Surroundings
    PROVE  TypeOK' /\ SeedTypeOK'
<1>1. [Next]_vars /\ SeedWaits /\ UNCHANGED <<cleaned, lost>>
  BY DEF Surroundings, Next
<1>2. TypeOK'
  BY <1>1, TypeStep
<1>3. Len(log) \in Nat /\ captured \in Nat /\ lost \subseteq 1..captured /\ cleaned \in 0..captured
  BY PositionTypes DEF SeedTypeOK
<1>4. Len(log') \in Nat /\ Len(log) <= Len(log') /\ captured' \in Nat /\ captured <= captured'
  <2>1. CASE Source
    BY <1>3, <2>1, CommitKeepsLog
  <2>2. CASE Capture
    BY <1>3, <2>2 DEF Capture, source
  <2>3. CASE \E p \in Products : NewVersion(p)
    BY <1>3, <2>3 DEF NewVersion, source
  <2> QED BY <2>1, <2>2, <2>3 DEF Surroundings
<1>5. 1..captured \subseteq 1..captured' /\ 0..captured \subseteq 0..captured'
  BY <1>3, <1>4
<1> QED BY <1>1, <1>2, <1>3, <1>4, <1>5, SeedWaitsTypes

\* A step of the seed leaves the source, the capture and the other DAG alone.
LEMMA SeedStepTypes ==
    ASSUME TypeOK, SeedTypeOK, UNCHANGED <<source, captured, wm, pc, attempt, window>>, Watch,
           failures' \in 0..MaxFailures,
           staged' \subseteq 1..captured,
           snapOrders' \in [Orders -> Values \cup {None}],
           snapLines' \in [Lines -> Values \cup {None}],
           version' \in [Products -> 0..MaxVersions],
           facts' \in [FactKeys -> Rows \cup {None}],
           applied' \subseteq 1..captured, coalesced' \subseteq Lines,
           seedPc' \in {"idle"} \cup SeedStageOne \cup SeedStageTwo,
           seedAttempt' \in 0..SeedRetries, seeds' \in 0..MaxSeeds,
           seedVersion' \in [Products -> 0..MaxVersions],
           cleaned' \in 0..captured, seedBase' \in 0..Len(log), base' \in 0..Len(log),
           lost' \subseteq 1..captured
    PROVE  TypeOK' /\ SeedTypeOK'
<1>1. apart' \in BOOLEAN /\ mixed' \in BOOLEAN
  BY DEF Watch, SeedTypeOK
<1>2. TypeOK'
  BY DEF TypeOK, source
<1>3. SeedTypeOK'
  BY <1>1 DEF SeedTypeOK, source
<1> QED BY <1>2, <1>3

LEMMA SeedTypes == ASSUME TypeOK, SeedTypeOK, Seed PROVE TypeOK' /\ SeedTypeOK'
<1> USE DEF SeedStageOne, SeedStageTwo
<1>1. /\ Len(log) \in Nat /\ captured \in Nat
      /\ cleaned \in 0..captured /\ cleaned' \in CleanedNow => cleaned' \in 0..captured
      /\ NoVersion \in [Products -> 0..MaxVersions]
      /\ 0 \in 0..SeedRetries /\ 0 \in 0..Len(log) /\ Len(log) \in 0..Len(log)
  BY PositionTypes, CleanedTypes, BoundsAssumption, SeedBoundsAssumption DEF SeedTypeOK, NoVersion
<1>2. ASSUME NEW here, NEW next, SeedStep(here, next)
      PROVE  /\ UNCHANGED <<source, captured, wm, pc, attempt, window>> /\ Watch
             /\ failures' \in 0..MaxFailures
             /\ seedPc = here /\ seedPc' = next
  BY <1>2 DEF SeedStep, TypeOK
<1>3. CASE StartSeed
  <2>1. SeedStep("idle", "seedClear")
        /\ UNCHANGED <<staging, version, facts, history, seedVersion, cleaned, seedHistory>>
        /\ seedAttempt' = 0 /\ seeds' = seeds + 1 /\ seeds < MaxSeeds
    BY <1>3 DEF StartSeed
  <2>2. seeds' \in 0..MaxSeeds
    BY <2>1, SeedBoundsAssumption DEF SeedTypeOK
  <2> QED BY <1>1, <1>2, <2>1, <2>2, SeedStepTypes
          DEF TypeOK, SeedTypeOK, staging, history, seedHistory
<1>4. CASE SeedClear
  <2>1. SeedStep("seedClear", "seedChanges") /\ SeedWithin /\ staged' = {}
        /\ UNCHANGED <<snapOrders, snapLines, version, facts, history, seedVersion, cleaned,
                       seedHistory>>
    BY <1>4 DEF SeedClear
  <2> QED BY <1>1, <1>2, <2>1, SeedStepTypes DEF TypeOK, SeedTypeOK, SeedWithin, history, seedHistory
<1>5. CASE SeedReadChanges
  <2>1. SeedStep("seedChanges", "seedOrders") /\ SeedWithin
        /\ staged' \subseteq staged \cup 1..captured /\ cleaned' \in CleanedNow
        /\ UNCHANGED <<snapOrders, snapLines, version, facts, history, seedVersion, seedHistory>>
    BY <1>5 DEF SeedReadChanges
  <2> QED BY <1>1, <1>2, <2>1, SeedStepTypes DEF TypeOK, SeedTypeOK, SeedWithin, history, seedHistory
<1>6. CASE SeedSnapshotOrders
  <2>1. SeedStep("seedOrders", "seedLines") /\ SeedWithin /\ seedBase' = Len(log)
        /\ snapOrders' = orders /\ snapLines' = [l \in Lines |-> None]
        /\ UNCHANGED <<staged, version, facts, history, seedVersion, cleaned, base, lost>>
    BY <1>6 DEF SeedSnapshotOrders
  <2> QED BY <1>1, <1>2, <2>1, SeedStepTypes DEF TypeOK, SeedTypeOK, SeedWithin, history
<1>7. CASE SeedSnapshotLines
  <2>1. SeedStep("seedLines", "transform") /\ SeedFresh /\ snapLines' = lines
        /\ UNCHANGED <<staged, snapOrders, version, facts, history, seedVersion, cleaned,
                       seedHistory>>
    BY <1>7 DEF SeedSnapshotLines
  <2> QED BY <1>1, <1>2, <2>1, SeedStepTypes DEF TypeOK, SeedTypeOK, SeedFresh, history, seedHistory
<1>8. CASE SeedTransform
  <2>1. SeedStep("transform", "truncate") /\ SeedWithin /\ seedVersion' = version'
        /\ version' = [p \in Products |->
            IF version[p] = 0 /\ \E l \in SnapshotJoin : l[2] = p THEN 1 ELSE version[p]]
        /\ UNCHANGED <<staging, facts, history, cleaned, seedHistory>>
    BY <1>8 DEF SeedTransform
  <2>2. version' \in [Products -> 0..MaxVersions]
    BY <2>1, BoundsAssumption DEF TypeOK
  <2> QED BY <1>1, <1>2, <2>1, <2>2, SeedStepTypes
          DEF TypeOK, SeedTypeOK, SeedWithin, staging, history, seedHistory
<1>9. CASE SeedTruncate
  <2>1. SeedStep("truncate", "write") /\ SeedWithin /\ applied' = {}
        /\ facts' = [k \in FactKeys |-> None]
        /\ UNCHANGED <<staging, version, coalesced, seedVersion, cleaned, seedHistory>>
    BY <1>9 DEF SeedTruncate
  <2> QED BY <1>1, <1>2, <2>1, SeedStepTypes DEF TypeOK, SeedTypeOK, SeedWithin, staging, seedHistory
<1>10. CASE SeedWrite
  <2>1. SeedStep("write", "seedReport") /\ SeedWithin /\ seedVersion' = NoVersion
        /\ UNCHANGED <<staging, version, applied, cleaned, seedBase>>
        /\ base' \in {base, seedBase} /\ coalesced' \in {coalesced, {}} /\ lost' \in {lost, {}}
    BY <1>10 DEF SeedWrite
  <2>2. facts' = [k \in FactKeys |->
            IF k[1] \in SnapshotJoin /\ k[2] = seedVersion[k[1][2]]
            THEN [freight |-> snapOrders[k[1][1]], qty |-> snapLines[k[1]], deleted |-> FALSE]
            ELSE facts[k]]
    BY <1>10 DEF SeedWrite
  <2>3. \A l \in SnapshotJoin : snapOrders[l[1]] \in Values /\ snapLines[l] \in Values
    BY DEF SnapshotJoin, Lines, TypeOK
  <2>4. facts' \in [FactKeys -> Rows \cup {None}]
    <3>1. facts \in [FactKeys -> Rows \cup {None}]
      BY DEF TypeOK
    <3>2. \A l \in SnapshotJoin :
            [freight |-> snapOrders[l[1]], qty |-> snapLines[l], deleted |-> FALSE] \in Rows
      BY <2>3 DEF Rows
    <3> QED BY <2>2, <3>1, <3>2
  <2> QED BY <1>1, <1>2, <2>1, <2>4, SeedStepTypes DEF TypeOK, SeedTypeOK, SeedWithin, staging
<1>11. CASE EndSeed
  <2>1. SeedStep("seedReport", "idle") /\ SeedFresh /\ seedBase' = 0
        /\ UNCHANGED <<staging, version, facts, history, seedVersion, cleaned, base, lost>>
    BY <1>11 DEF EndSeed
  <2> QED BY <1>1, <1>2, <2>1, SeedStepTypes DEF TypeOK, SeedTypeOK, SeedFresh, staging, history
<1>12. CASE SeedFail \/ SeedRaises
  <2>1. SeedTaskFails /\ (cleaned' = cleaned \/ cleaned' \in CleanedNow)
        /\ failures' \in 0..MaxFailures
    BY <1>12, BoundsAssumption DEF SeedFail, SeedRaises, TypeOK
  <2>2. /\ UNCHANGED <<source, captured, wm, pc, attempt, window, staging, version, facts,
                       history, seeds, base, lost>>
        /\ Watch /\ seedVersion' = NoVersion
    BY <2>1 DEF SeedTaskFails
  <2>3. /\ seedPc' \in {"idle", "seedClear", "transform"} /\ seedBase' \in {seedBase, 0}
        /\ seedAttempt' \in 0..SeedRetries
    BY <2>1, SeedBoundsAssumption
       DEF SeedTaskFails, SeedRetry, SeedFailRun, SeedTaskStart, SeedTypeOK
  <2> QED BY <1>1, <2>1, <2>2, <2>3, SeedStepTypes DEF TypeOK, SeedTypeOK, staging, history
<1> QED BY <1>3, <1>4, <1>5, <1>6, <1>7, <1>8, <1>9, <1>10, <1>11, <1>12 DEF Seed

LEMMA SeedTypeStep ==
    TypeOK /\ SeedTypeOK /\ [SeedNext]_allVars => TypeOK' /\ SeedTypeOK'
<1> SUFFICES ASSUME TypeOK, SeedTypeOK, [SeedNext]_allVars PROVE TypeOK' /\ SeedTypeOK'
  OBVIOUS
<1>1. CASE UNCHANGED allVars
  <2>1. [Next]_vars
    BY <1>1 DEF allVars
  <2>2. TypeOK'
    BY <2>1, TypeStep
  <2> QED BY <1>1, <2>2 DEF allVars, seedVars, seedHistory, vars, source, SeedTypeOK
<1> QED BY <1>1, IncrementalTypes, SurroundingsTypes, SeedTypes DEF SeedNext

\* Every state of the two DAGs together is well typed.
THEOREM SeedTypeCorrect == SeedSpec => [](TypeOK /\ SeedTypeOK)
<1>1. SeedInit => TypeOK /\ SeedTypeOK
  BY TypeInit, SeedTypeInit DEF SeedInit
<1> QED BY <1>1, SeedTypeStep, PTL DEF SeedSpec

-----------------------------------------------------------------------------
(* Where windows begin.                                                    *)

LEMMA CapturedLogged == ASSUME TypeOK PROVE \A i \in 1..captured : i \in DOMAIN log
BY PositionTypes

LEMMA PcParts == ASSUME TypeOK PROVE pc \in StageOne \/ pc \in StageTwo \/ pc = "idle"
BY DEF TypeOK

LEMMA WindowsStartInit == SeedInit => WindowsStart
BY DEF SeedInit, Init, WindowsStart, HasWindow, StageTwo

\* A window is kept, watermarks move in stage two.
LEMMA WindowsStartKeeps ==
    ASSUME WindowsStart, UNCHANGED <<wm, window>>,
           \/ pc' = pc
           \/ pc' = "ordersInsert" /\ pc \in StageTwo \cup {"snapLines"}
           \/ \A t \in Tables : ~HasWindow(t)'
           \/ pc \in {"landOrders", "landDetails", "snapOrders"}
    PROVE  WindowsStart'
<1>1. SUFFICES ASSUME NEW t \in Tables, HasWindow(t)', wm'[t] # None
               PROVE  /\ pc' \in StageOne => window'[t].from = FromLsn(t)'
                      /\ ~IsEmpty(window[t])' => wm'[t] <= window'[t].to
  BY DEF WindowsStart
<1>2. HasWindow(t) /\ (pc' \in StageOne => pc \in StageOne)
  BY <1>1 DEF HasWindow, StageOne, StageTwo
<1> QED BY <1>1, <1>2 DEF WindowsStart, FromLsn, IsEmpty

\* A window just read, where there is a watermark.
LEMMA RetainedAtWatermark ==
    ASSUME TypeOK, NEW t \in Tables, NEW n, wm[t] # None,
           NEW w, w = [from |-> RetainedFrom(t, n), to |-> Lsn(captured)]
    PROVE  w.from = FromLsn(t) /\ (~IsEmpty(w) => wm[t] <= w.to)
<1>1. wm[t] \in Nat /\ Lsn(captured) \in Nat
  BY PositionTypes DEF Lsn
<1>2. RetainedFrom(t, n) = wm[t] + 1 /\ FromLsn(t) = wm[t] + 1
  BY DEF RetainedFrom, FromLsn
<1> QED BY <1>1, <1>2 DEF IsEmpty

LEMMA WindowsStartStep ==
    TypeOK /\ WindowsStart /\ [SeedNext]_allVars => WindowsStart'
<1> SUFFICES ASSUME TypeOK, WindowsStart, [SeedNext]_allVars PROVE WindowsStart'
  OBVIOUS
<1> USE DEF Step, source, staging, history
<1>1. CASE UNCHANGED allVars \/ Surroundings \/ Seed
  <2>1. UNCHANGED <<wm, window, pc>>
    BY <1>1 DEF allVars, vars, Surroundings, Source, InsertOrder, UpdateOrder, DeleteOrder,
       InsertLine, UpdateLine, DeleteLine, Commit, Capture, NewVersion,
       Seed, StartSeed, SeedClear, SeedReadChanges, SeedSnapshotOrders, SeedSnapshotLines,
       SeedTransform, SeedTruncate, SeedWrite, EndSeed, SeedFail, SeedRaises, SeedTaskFails,
       SeedStep
  <2> QED BY <2>1, WindowsStartKeeps
<1>2. ASSUME NEW t \in Tables, NEW here, NEW next, ReadWindow(t, here, next),
             \/ t = "orders"  /\ here = "orderWindow" /\ next = "detailWindow"
             \/ t = "details" /\ here = "detailWindow" /\ next = "landOrders"
      PROVE  WindowsStart'
  <2>1. /\ wm' = wm /\ pc = here /\ pc' = next
        /\ window' = [window EXCEPT ![t] = [from |-> RetainedFrom(t, cleaned'),
                                            to   |-> Lsn(captured)]]
    BY <1>2 DEF ReadWindow
  <2>2. SUFFICES ASSUME NEW u \in Tables, HasWindow(u)', wm[u] # None
                 PROVE  /\ window'[u].from = FromLsn(u)
                        /\ ~IsEmpty(window'[u]) => wm[u] <= window'[u].to
    BY <2>1 DEF WindowsStart, FromLsn, IsEmpty
  <2>3. CASE u = t
    <3>1. window'[u] = [from |-> RetainedFrom(t, cleaned'), to |-> Lsn(captured)]
      BY <2>1, <2>3 DEF TypeOK
    <3> QED BY <2>2, <2>3, <3>1, RetainedAtWatermark
  <2>4. CASE u # t
    <3>1. pc \in StageOne /\ HasWindow(u) /\ window'[u] = window[u]
      BY <1>2, <2>1, <2>2, <2>4 DEF HasWindow, StageOne, StageTwo, Tables, TypeOK
    <3> QED BY <2>1, <2>2, <3>1 DEF WindowsStart, IsEmpty
  <2> QED BY <2>3, <2>4
<1>3. CASE ReadOrderWindow \/ ReadDetailWindow
  BY <1>2, <1>3 DEF ReadOrderWindow, ReadDetailWindow, Tables
<1>4. CASE ReadOrders \/ ReadDetails
  <2>1. UNCHANGED <<wm, window>> /\ pc \in {"landOrders", "landDetails"}
    BY <1>4 DEF ReadOrders, ReadDetails, LandOrders, LandDetails, Land
  <2> QED BY <2>1, WindowsStartKeeps
<1>5. CASE ReadExpired \/ Unhealthy \/ Fail
  <2>1. /\ UNCHANGED <<wm, window>> /\ pc' \in {"idle", "clear", "ordersInsert"}
        /\ pc' = "ordersInsert" => pc \in StageTwo
    BY <1>5, PcParts DEF ReadExpired, Unhealthy, Fail, TaskFails, Retry, FailRun, TaskStart
  <2> QED BY <2>1, WindowsStartKeeps DEF HasWindow, StageTwo
<1>6. CASE RunByHand
  <2>1. pc' \in StageTwo /\ wm' = wm
    BY <1>6 DEF RunByHand, StageTwo
  <2>2. SUFFICES ASSUME NEW u \in Tables, wm[u] # None
                 PROVE  ~IsEmpty(window'[u]) => wm[u] <= window'[u].to
    BY <2>1 DEF WindowsStart, StageOne, StageTwo, IsEmpty
  <2>3. window'[u] = [from |-> RetainedFrom(u, cleaned'), to |-> Lsn(captured)]
    BY <1>6 DEF RunByHand
  <2> QED BY <2>2, <2>3, RetainedAtWatermark
<1>7. ASSUME NEW t \in Tables, NEW here \in Marking, NEW next \in Marking,
             WriteWatermark(t, here, next)
      PROVE  WindowsStart'
  <2>1. /\ window' = window /\ pc = here /\ pc' = next
        /\ wm' = IF IsEmpty(window[t]) THEN wm ELSE [wm EXCEPT ![t] = window[t].to]
    BY <1>7 DEF WriteWatermark
  <2>2. \A u \in Tables : HasWindow(u) /\ pc' \notin StageOne
    BY <1>7, <2>1 DEF HasWindow, Marking, StageTwo, StageOne
  <2>3. SUFFICES ASSUME NEW u \in Tables, wm'[u] # None, ~IsEmpty(window[u])
                 PROVE  wm'[u] <= window[u].to
    BY <2>1, <2>2 DEF WindowsStart, IsEmpty
  <2>4. CASE u = t
    <3>1. wm'[u] = window[u].to /\ window[u].to \in Nat
      BY <2>1, <2>3, <2>4, PositionTypes DEF TypeOK
    <3> QED BY <3>1
  <2>5. CASE u # t
    <3>1. wm'[u] = wm[u]
      BY <2>1, <2>5 DEF TypeOK
    <3> QED BY <2>2, <2>3, <3>1 DEF WindowsStart
  <2> QED BY <2>4, <2>5
<1>8. CASE MarkOrders \/ MarkDetails
  BY <1>7, <1>8 DEF MarkOrders, MarkDetails, Marking, Tables
<1>9. CASE /\ \/ ApplyOrdersInsert \/ ApplyOrdersUpdate
              \/ ApplyDetailsInsert \/ ApplyDetailsUpdate \/ ApplyDetailsDelete
              \/ TombstoneDeletedOrders \/ EndRun
  <2>1. /\ UNCHANGED <<wm, window>> /\ pc \in StageTwo
        /\ pc' \in StageTwo \cup {"idle"}
    BY <1>9 DEF ApplyOrdersInsert, ApplyOrdersUpdate, ApplyDetailsInsert,
       ApplyDetailsUpdate, ApplyDetailsDelete, ApplyOrders, ApplyLines, TombstoneDeletedOrders,
       EndRun, StageTwo
  <2>2. \A t \in Tables : /\ HasWindow(t)' => HasWindow(t)
                          /\ pc' \notin StageOne
    BY <2>1 DEF HasWindow, StageTwo, StageOne
  <2> QED BY <2>1, <2>2 DEF WindowsStart, IsEmpty
<1>10. CASE StartRun \/ ClearStaging \/ SnapshotOrders \/ SnapshotLines
  <2>1. /\ UNCHANGED <<wm, window>>
        /\ \/ pc' \in {"clear", "orderWindow"}
           \/ pc = "snapOrders"
           \/ pc' = "ordersInsert" /\ pc = "snapLines"
    BY <1>10 DEF StartRun, ClearStaging, SnapshotOrders, SnapshotLines
  <2>2. UNCHANGED <<wm, window>>
    BY <2>1
  <2>3. CASE pc = "snapOrders" \/ (pc' = "ordersInsert" /\ pc = "snapLines")
    BY <2>2, <2>3, WindowsStartKeeps
  <2>4. CASE pc' \in {"clear", "orderWindow"}
    <3>1. \A t \in Tables : ~HasWindow(t)'
      BY <2>4 DEF HasWindow, StageTwo
    <3> QED BY <3>1 DEF WindowsStart
  <2> QED BY <2>1, <2>3, <2>4
<1> QED BY <1>1, <1>3, <1>4, <1>5, <1>6, <1>8, <1>9, <1>10 DEF SeedNext, Incremental, RunStageTwo

LEMMA SeedWindowsStart == SeedSpec => []WindowsStart
<1> QED BY WindowsStartInit, WindowsStartStep, SeedTypeCorrect, PTL DEF SeedSpec

-----------------------------------------------------------------------------
(* What acknowledged changes are accounted for by.                         *)

LEMMA SeedDeliveryInit == SeedInit => SeedDeliveryInv
<1> SUFFICES ASSUME SeedInit PROVE SeedDeliveryInv
  OBVIOUS
<1>1. DeliveryInv
  BY DeliveryInit DEF SeedInit
<1>2. pc = "idle" /\ seedPc = "idle" /\ log = <<>>
  BY DEF SeedInit, Init
<1>3. OverlapMixes /\ SeedCovers /\ WindowsCover /\ MissedOnlyIfLost
  BY <1>2 DEF OverlapMixes, SeedCovers, WindowsCover, MissedOnlyIfLost, SeedStageTwo,
              HasWindow, StageTwo
<1> QED BY <1>1, <1>3 DEF DeliveryInv, SeedDeliveryInv

\* Steps of the incremental DAG and its surroundings are watched, and no
\* watermark moves while that DAG is idle.
LEMMA WaitsKeeps ==
    ASSUME OverlapMixes, SeedCovers, SeedWaits,
           pc = "idle" => \A i \in DOMAIN log' : Acknowledged(i)' => i \in DOMAIN log /\ Acknowledged(i)
    PROVE  OverlapMixes' /\ SeedCovers' /\ (mixed => mixed')
<1>1. /\ seedPc' = seedPc /\ seedBase' = seedBase
      /\ apart' = (seedPc = "idle" \/ (apart /\ pc' = "idle"))
      /\ mixed' = (mixed \/ ~apart')
  BY DEF SeedWaits, Watch
<1>2. OverlapMixes' /\ (mixed => mixed')
  BY <1>1 DEF OverlapMixes
<1>3. SeedCovers'
  <2>1. SUFFICES ASSUME apart', seedPc \in {"seedLines"} \cup SeedStageTwo,
                        NEW i \in DOMAIN log', Acknowledged(i)'
                 PROVE  i <= seedBase
    BY <1>1 DEF SeedCovers
  <2>2. seedPc # "idle"
    BY <2>1 DEF SeedStageTwo
  <2>3. apart /\ pc = "idle"
    BY <1>1, <2>1, <2>2 DEF OverlapMixes
  <2> QED BY <2>1, <2>3 DEF SeedCovers
<1> QED BY <1>2, <1>3

\* A step that moves neither watermarks nor windows, and is not past a
\* window, a landing or an application that has not happened.
LEMMA SeedControlStep ==
    ASSUME TypeOK, SeedDeliveryInv,
           UNCHANGED <<log, captured, wm, window, staged, base>>,
           applied \subseteq applied', lost \subseteq lost', mixed => mixed',
           \A t \in Tables : HasWindow(t)' => HasWindow(t),
           \A t \in Tables : HasLanded(t)' => HasLanded(t),
           \A t \in Tables, op \in Ops :
                HasApplied(t, op)' => HasApplied(t, op) \/ Staged(t, op) \subseteq applied'
    PROVE  /\ WithinCaptured' /\ MissedOnlyIfLost'
           /\ ~mixed' => WindowsCover' /\ Applied'
<1>1. WithinCaptured'
  BY DEF SeedDeliveryInv, WithinCaptured, Lsn
<1>2. \A i \in DOMAIN log : Passed(i) => Passed(i)'
  BY DEF Passed, Acknowledged, Lsn
<1>3. MissedOnlyIfLost'
  BY DEF SeedDeliveryInv, MissedOnlyIfLost, Acknowledged, Lsn
<1>4. ASSUME ~mixed' PROVE WindowsCover' /\ Applied'
  <2>1. WindowsCover /\ Applied
    BY <1>4 DEF SeedDeliveryInv
  <2>2. \A t \in Tables : /\ IsEmpty(window[t])' <=> IsEmpty(window[t])
                          /\ window'[t] = window[t]
    BY DEF IsEmpty
  <2>3. WindowsCover'
    BY <1>2, <2>1, <2>2, CapturedLogged DEF WindowsCover, Lsn
  <2>4. \A t \in Tables, op \in Ops : Staged(t, op)' = Staged(t, op)
    BY DEF Staged
  <2>5. Applied'
    BY <2>1, <2>4 DEF Applied
  <2> QED BY <2>3, <2>5
<1> QED BY <1>1, <1>3, <1>4

\* Reading the window of a table that was read before passes over nothing that
\* is not acknowledged; reading one for the first time, what it adds to lost.
LEMMA SeedReadWindow ==
    ASSUME TypeOK, SeedTypeOK, SeedDeliveryInv, NEW t \in Tables, NEW here, NEW next,
           ReadWindow(t, here, next),
           \/ t = "orders"  /\ here = "orderWindow" /\ next = "detailWindow"
           \/ t = "details" /\ here = "detailWindow" /\ next = "landOrders"
    PROVE  SeedDeliveryInv'
<1>1. /\ UNCHANGED <<log, captured, wm, staged, applied, base>> /\ SeedWaits
      /\ pc = here /\ pc' = next
      /\ cleaned' \in CleanedNow
      /\ window' = [window EXCEPT ![t] = [from |-> RetainedFrom(t, cleaned'),
                                          to   |-> Lsn(captured)]]
      /\ lost' = IF wm[t] # None THEN lost
                 ELSE lost \cup {i \in Unread(t) : i <= cleaned'}
  BY DEF ReadWindow, Step, source, staging, history, SeedWaits
<1>2. OverlapMixes' /\ SeedCovers' /\ (mixed => mixed')
  <2>1. pc # "idle"
    BY <1>1
  <2> QED BY <1>1, <2>1, WaitsKeeps DEF SeedDeliveryInv
<1>3. /\ window'[t].from = RetainedFrom(t, cleaned') /\ window'[t].to = Lsn(captured)
      /\ \A u \in Tables \ {t} : window'[u] = window[u]
  BY <1>1 DEF TypeOK
<1>4. WithinCaptured'
  BY <1>1, <1>3, PositionTypes DEF SeedDeliveryInv, WithinCaptured, Lsn
<1>5. MissedOnlyIfLost'
  BY <1>1, <1>2 DEF SeedDeliveryInv, MissedOnlyIfLost, Acknowledged, Lsn
<1>6. ASSUME ~mixed' PROVE WindowsCover' /\ Applied'
  <2>1. WindowsCover /\ Applied
    BY <1>2, <1>6 DEF SeedDeliveryInv
  <2>2. \A i \in DOMAIN log : Passed(i) => Passed(i)'
    BY <1>1 DEF Passed, Acknowledged, Lsn
  <2>3. \A u \in Tables, op \in Ops : ~HasApplied(u, op)'
    BY <1>1 DEF HasApplied, Marking
  <2>4. ASSUME NEW i \in 1..captured, log[i].table = t
        PROVE  Passed(i)' \/ RetainedFrom(t, cleaned') <= Lsn(i)
    <3>1. cleaned' \in Nat /\ i \in Nat /\ i \in DOMAIN log
      BY <1>1, CleanedTypes, PositionTypes
    <3>2. CASE wm[t] = None
      <4>1. ~ Acknowledged(i)
        BY <2>4, <3>2 DEF Acknowledged
      <4>2. i <= cleaned' /\ i \notin staged => i \in lost'
        BY <1>1, <2>4, <3>2, <4>1 DEF Unread
      <4>3. ~ (i <= cleaned') => LowLsn(cleaned') <= Lsn(i)
        <5>1. PICK n \in Nat : n = cleaned'
          BY <3>1
        <5>2. ~ (i <= n) => 2 * n + 1 <= 2 * i
          BY <3>1
        <5> QED BY <5>1, <5>2 DEF LowLsn, Lsn
      <4> QED BY <1>1, <3>2, <4>2, <4>3 DEF RetainedFrom, Passed
    <3>3. CASE wm[t] # None
      <4>1. wm[t] \in Nat /\ Lsn(i) \in Nat
        BY <3>1, <3>3, PositionTypes DEF Lsn
      <4>2. Lsn(i) <= wm[t] => Passed(i)
        BY <2>4, <3>3 DEF Passed, Acknowledged
      <4>3. ~ (Lsn(i) <= wm[t]) => wm[t] + 1 <= Lsn(i)
        BY <4>1
      <4> QED BY <2>2, <3>1, <3>3, <4>2, <4>3 DEF RetainedFrom, FromLsn
    <3> QED BY <3>2, <3>3
  <2>5. ~ HasLanded(t)' /\ \A u \in Tables \ {t} : HasWindow(u)' => HasWindow(u)
    BY <1>1 DEF HasLanded, HasWindow, StageTwo, Tables
  <2>6. WindowsCover'
    <3>1. SUFFICES ASSUME NEW u \in Tables, HasWindow(u)', ~IsEmpty(window[u])',
                          NEW i \in 1..captured, log[i].table = u, Lsn(i) <= window'[u].to
                   PROVE  \/ Passed(i)'
                          \/ window'[u].from <= Lsn(i) /\ ~HasLanded(u)'
      BY <1>1 DEF WindowsCover, Lsn
    <3>2. CASE u = t
      BY <1>3, <2>4, <2>5, <3>1, <3>2
    <3>3. CASE u # t
      <4>1. window'[u] = window[u] /\ HasWindow(u) /\ ~IsEmpty(window[u])
        BY <1>3, <2>5, <3>1, <3>3 DEF IsEmpty
      <4>2. \/ Passed(i)
            \/ window[u].from <= Lsn(i) /\ ~HasLanded(u)
        BY <2>1, <3>1, <4>1 DEF WindowsCover
      <4>3. HasLanded(u)' => HasLanded(u)
        BY <1>1 DEF HasLanded, StageTwo
      <4> QED BY <2>2, <3>1, <4>1, <4>2, <4>3, CapturedLogged
    <3> QED BY <3>2, <3>3
  <2> QED BY <2>3, <2>6 DEF Applied
<1> QED BY <1>2, <1>4, <1>5, <1>6 DEF SeedDeliveryInv

\* What a window holds is in staging once it has landed.
LEMMA SeedLand ==
    ASSUME TypeOK, WindowsStart, SeedDeliveryInv, NEW t \in Tables, Land(t), SeedWaits,
           lost' = lost \ InWindow(t), UNCHANGED <<log, captured>>,
           \/ t = "orders"  /\ pc = "landOrders" /\ pc' = "landDetails"
           \/ t = "details" /\ pc = "landDetails" /\ pc' = "snapOrders"
    PROVE  SeedDeliveryInv'
<1>1. /\ UNCHANGED <<log, captured, wm, window, applied, base>>
      /\ staged' = staged \cup InWindow(t)
  BY DEF Land, SeedWaits
<1>2. OverlapMixes' /\ SeedCovers' /\ (mixed => mixed')
  <2>1. pc # "idle"
    OBVIOUS
  <2> QED BY <2>1, WaitsKeeps DEF SeedDeliveryInv
<1>3. WithinCaptured'
  BY <1>1 DEF SeedDeliveryInv, WithinCaptured, Lsn
<1>4. \A i \in DOMAIN log : i \in InWindow(t) => ~Acknowledged(i)
  <2>1. SUFFICES ASSUME NEW i \in DOMAIN log, i \in InWindow(t), Acknowledged(i) PROVE FALSE
    OBVIOUS
  <2>2. log[i].table = t /\ window[t].from <= Lsn(i) /\ wm[t] # None /\ Lsn(i) <= wm[t]
    BY <2>1 DEF InWindow, Acknowledged
  <2>3. pc \in StageOne /\ HasWindow(t)
    BY DEF StageOne, HasWindow
  <2>4. window[t].from = wm[t] + 1
    BY <2>2, <2>3 DEF WindowsStart, FromLsn
  <2>5. wm[t] \in Nat /\ i \in Nat
    BY <2>2, PositionTypes
  <2>6. Lsn(i) \in Nat
    BY <2>5 DEF Lsn
  <2> QED BY <2>2, <2>4, <2>5, <2>6
<1>5. MissedOnlyIfLost'
  <2>1. \A i \in DOMAIN log' : Acknowledged(i)' => i \in DOMAIN log /\ Acknowledged(i)
    BY <1>1 DEF Acknowledged, Lsn
  <2> QED BY <1>1, <1>2, <1>4, <2>1 DEF SeedDeliveryInv, MissedOnlyIfLost
<1>6. ASSUME ~mixed' PROVE WindowsCover' /\ Applied'
  <2>1. WindowsCover
    BY <1>2, <1>6 DEF SeedDeliveryInv
  <2>2. \A u \in Tables, op \in Ops : ~HasApplied(u, op)'
    BY DEF HasApplied, Marking
  <2>3. \A u \in Tables : /\ HasWindow(u)' => HasWindow(u)
                          /\ u # t => (HasLanded(u)' => HasLanded(u))
    BY DEF HasLanded, HasWindow, StageTwo, Tables
  <2>4. SUFFICES ASSUME NEW u \in Tables, HasWindow(u)', ~IsEmpty(window[u])',
                        NEW i \in 1..captured, log[i].table = u, Lsn(i) <= window[u].to
                 PROVE  \/ Passed(i)'
                        \/ window[u].from <= Lsn(i) /\ ~HasLanded(u)'
    BY <1>1, <2>2 DEF WindowsCover, Lsn, Applied
  <2>5. HasWindow(u) /\ ~IsEmpty(window[u])
    BY <1>1, <2>3, <2>4 DEF IsEmpty
  <2>6. \/ Passed(i)
        \/ window[u].from <= Lsn(i) /\ ~HasLanded(u)
    BY <2>1, <2>4, <2>5 DEF WindowsCover
  <2>7. u = t /\ window[u].from <= Lsn(i) => i \in InWindow(t)
    BY <2>4, <2>5 DEF InWindow
  <2>8. Passed(i) \/ i \in InWindow(t) => Passed(i)'
    BY <1>1 DEF Passed, Acknowledged, Lsn
  <2> QED BY <1>1, <2>3, <2>6, <2>7, <2>8
<1> QED BY <1>2, <1>3, <1>5, <1>6 DEF SeedDeliveryInv

\* Stage two by hand: whatever is captured, is applied soon or lost.
LEMMA SeedRunByHand ==
    ASSUME TypeOK, SeedTypeOK, SeedDeliveryInv, RunByHand
    PROVE  SeedDeliveryInv'
<1>1. /\ UNCHANGED <<log, captured, wm, staged, applied, base>> /\ SeedWaits
      /\ pc = "ordersInsert" /\ pc' = "ordersInsert"
      /\ window' = [t \in Tables |-> [from |-> RetainedFrom(t, cleaned'), to |-> Lsn(captured)]]
      /\ lost' = lost \cup Unread("orders") \cup Unread("details")
  BY DEF RunByHand, Step, source, staging, history, SeedWaits
<1>2. OverlapMixes' /\ SeedCovers' /\ (mixed => mixed')
  <2>1. pc # "idle"
    BY <1>1
  <2> QED BY <1>1, <2>1, WaitsKeeps DEF SeedDeliveryInv
<1>3. WithinCaptured'
  <2>1. \A t \in Tables : window'[t].to = Lsn(captured)
    BY <1>1
  <2> QED BY <1>1, <2>1, PositionTypes DEF SeedDeliveryInv, WithinCaptured, Lsn
<1>4. MissedOnlyIfLost'
  BY <1>1, <1>2 DEF SeedDeliveryInv, MissedOnlyIfLost, Acknowledged, Lsn
<1>5. ASSUME ~mixed' PROVE WindowsCover' /\ Applied'
  <2>3. \A u \in Tables, op \in Ops : ~HasApplied(u, op)'
    BY <1>1 DEF HasApplied, Marking
  <2>4. ASSUME NEW i \in 1..captured PROVE Passed(i)'
    <3>1. i \in DOMAIN log /\ log[i].table \in {"orders", "details"}
      BY PositionTypes DEF Tables
    <3>2. CASE Acknowledged(i) \/ i \in staged
      BY <1>1, <3>1, <3>2 DEF Passed, Acknowledged, Lsn
    <3>3. CASE ~Acknowledged(i) /\ i \notin staged
      <4>1. i \in Unread(log[i].table)
        BY <3>3 DEF Unread
      <4> QED BY <1>1, <3>1, <4>1 DEF Passed
    <3> QED BY <3>2, <3>3
  <2> QED BY <1>1, <2>3, <2>4 DEF WindowsCover, Applied
<1> QED BY <1>2, <1>3, <1>4, <1>5 DEF SeedDeliveryInv

\* The watermark moves to the end of a window all of whose changes are
\* accounted for: what is in staging has been applied by then.
LEMMA SeedMark ==
    ASSUME TypeOK, WindowsStart, SeedDeliveryInv, NEW t \in Tables, NEW here \in Marking,
           NEW next \in Marking, WriteWatermark(t, here, next), SeedWaits, lost' = lost
    PROVE  SeedDeliveryInv'
<1>1. /\ UNCHANGED <<log, captured, window, staged, applied, base, lost>>
      /\ pc \in Marking /\ pc' \in Marking
      /\ wm' = IF IsEmpty(window[t]) THEN wm ELSE [wm EXCEPT ![t] = window[t].to]
  BY DEF WriteWatermark, Step, source, staging, history, SeedWaits
<1>2. OverlapMixes' /\ SeedCovers' /\ (mixed => mixed')
  <2>1. pc # "idle"
    BY <1>1 DEF Marking
  <2> QED BY <2>1, WaitsKeeps DEF SeedDeliveryInv
<1>3. \A u \in Tables : /\ HasWindow(u) /\ HasLanded(u)
                        /\ \A op \in Ops : HasApplied(u, op)
  BY <1>1 DEF HasWindow, HasLanded, HasApplied, Marking, StageTwo
<1>4. PICK n \in 0..captured : window[t].to = Lsn(n)
  BY DEF SeedDeliveryInv, WithinCaptured
<1>5. n \in Nat /\ n <= captured /\ captured \in Nat /\ Lsn(n) <= Lsn(captured)
  <2>1. captured \in Nat
    BY PositionTypes
  <2>2. n \in Nat /\ n <= captured
    BY <2>1
  <2> QED BY <2>1, <2>2 DEF Lsn
<1>6. \A u \in Tables : wm'[u] = wm[u] \/ (u = t /\ ~IsEmpty(window[t]) /\ wm'[u] = Lsn(n))
  BY <1>1, <1>4 DEF TypeOK
<1>7. WithinCaptured'
  BY <1>1, <1>5, <1>6 DEF SeedDeliveryInv, WithinCaptured, Lsn
<1>8. ASSUME NEW i \in DOMAIN log, Acknowledged(i) PROVE Acknowledged(i)'
  <2>1. i \in Nat /\ log[i].table \in Tables
    BY PositionTypes
  <2>2. PICK u \in Tables : u = log[i].table
    BY <2>1
  <2>3. wm[u] # None /\ Lsn(i) <= wm[u] /\ wm[u] \in Nat
    BY <1>8, <2>2, PositionTypes DEF Acknowledged
  <2>4. wm'[u] = wm[u] \/ (wm'[u] = window[u].to /\ wm[u] <= window[u].to)
    BY <1>3, <1>4, <1>6, <2>3 DEF WindowsStart
  <2>5. wm'[u] \in Nat /\ Lsn(i) <= wm'[u] /\ None \notin Nat
    BY <2>1, <2>3, <2>4, PositionTypes DEF Lsn
  <2> QED BY <1>1, <2>2, <2>5 DEF Acknowledged, Lsn
<1>9. ASSUME ~mixed' PROVE WindowsCover' /\ Applied'
  <2>1. WindowsCover /\ Applied
    BY <1>2, <1>9 DEF SeedDeliveryInv
  <2>2. WindowsCover'
    <3>1. \A u \in Tables : IsEmpty(window[u])' <=> IsEmpty(window[u])
      BY <1>1 DEF IsEmpty
    <3>2. ASSUME NEW u \in Tables, ~IsEmpty(window[u]), NEW i \in 1..captured,
                 log[i].table = u, Lsn(i) <= window[u].to
          PROVE  Passed(i)'
      <4>1. Passed(i)
        BY <1>3, <2>1, <3>2 DEF WindowsCover
      <4>2. CASE i \in staged \/ i \in lost
        BY <1>1, <4>2 DEF Passed
      <4>3. CASE Acknowledged(i)
        BY <1>8, <4>3, CapturedLogged DEF Passed
      <4> QED BY <4>1, <4>2, <4>3 DEF Passed
    <3> QED BY <1>1, <3>1, <3>2 DEF WindowsCover, Lsn
  <2>3. \A u \in Tables, op \in Ops : Staged(u, op)' = Staged(u, op)
    BY <1>1 DEF Staged
  <2>4. Applied'
    BY <1>1, <1>3, <2>1, <2>3 DEF Applied
  <2> QED BY <2>2, <2>4
<1>10. MissedOnlyIfLost'
  <2>1. SUFFICES ASSUME NEW i \in DOMAIN log, Acknowledged(i)', ~mixed'
                 PROVE  i \in applied \/ i <= base \/ i \in lost
    BY <1>1 DEF MissedOnlyIfLost
  <2>2. WindowsCover /\ Applied /\ ~mixed
    BY <1>2, <2>1 DEF SeedDeliveryInv
  <2>3. i \in Nat /\ log[i].table \in Tables /\ log[i].op \in Ops /\ i \in 1..Len(log)
    BY PositionTypes
  <2>4. CASE Acknowledged(i)
    BY <2>2, <2>4 DEF SeedDeliveryInv, MissedOnlyIfLost
  <2>5. CASE ~Acknowledged(i)
    <3>1. log[i].table = t /\ ~IsEmpty(window[t]) /\ Lsn(i) <= Lsn(n)
      BY <1>1, <1>6, <2>1, <2>3, <2>5 DEF Acknowledged, Lsn
    <3>2. i \in 1..captured
      BY <1>5, <2>3, <3>1 DEF Lsn
    <3>3. Passed(i)
      BY <1>3, <1>4, <2>2, <3>1, <3>2 DEF WindowsCover
    <3>4. i \in staged => i \in applied
      BY <1>3, <2>2, <2>3 DEF Applied, Staged
    <3> QED BY <2>5, <3>3, <3>4 DEF Passed
  <2> QED BY <2>4, <2>5
<1> QED BY <1>2, <1>7, <1>9, <1>10 DEF SeedDeliveryInv

\* A step of the incremental DAG that SeedControlStep covers.
LEMMA SeedKeeps ==
    ASSUME TypeOK, SeedDeliveryInv, SeedWaits,
           UNCHANGED <<log, captured, wm, window, staged, lost>>,
           applied \subseteq applied',
           \A t \in Tables : HasWindow(t)' => HasWindow(t),
           \A t \in Tables : HasLanded(t)' => HasLanded(t),
           \A t \in Tables, op \in Ops :
                HasApplied(t, op)' => HasApplied(t, op) \/ Staged(t, op) \subseteq applied'
    PROVE  SeedDeliveryInv'
<1>1. \A i \in DOMAIN log' : Acknowledged(i)' => i \in DOMAIN log /\ Acknowledged(i)
  BY DEF Acknowledged, Lsn
<1>2. OverlapMixes' /\ SeedCovers' /\ (mixed => mixed')
  BY <1>1, WaitsKeeps DEF SeedDeliveryInv
<1>3. UNCHANGED base
  BY DEF SeedWaits
<1>4. /\ WithinCaptured' /\ MissedOnlyIfLost'
      /\ ~mixed' => WindowsCover' /\ Applied'
  BY <1>2, <1>3, SeedControlStep
<1> QED BY <1>2, <1>4 DEF SeedDeliveryInv

LEMMA SeedStageTwoSteps ==
    ASSUME TypeOK, WindowsStart, SeedDeliveryInv, RunStageTwo, SeedWaits, lost' = lost
    PROVE  SeedDeliveryInv'
<1> USE DEF Step, source, staging, history
<1>1. CASE ApplyOrdersInsert
  <2>1. /\ pc = "ordersInsert" /\ pc' = "ordersUpdate"
        /\ UNCHANGED <<log, captured, wm, window, staged>>
        /\ applied' = applied \cup Staged("orders", "insert")
    BY <1>1 DEF ApplyOrdersInsert, ApplyOrders
  <2>2. \A t \in Tables : (HasWindow(t)' => HasWindow(t)) /\ (HasLanded(t)' => HasLanded(t))
    BY <2>1 DEF HasWindow, HasLanded, StageTwo
  <2>3. \A t \in Tables, op \in Ops :
            HasApplied(t, op)' => HasApplied(t, op) \/ (t = "orders" /\ op = "insert")
    BY <2>1 DEF HasApplied, Marking, Tables, Ops
  <2> QED BY <2>1, <2>2, <2>3, SeedKeeps
<1>2. CASE ApplyOrdersUpdate
  <2>1. /\ pc = "ordersUpdate" /\ pc' = "detailsInsert"
        /\ UNCHANGED <<log, captured, wm, window, staged>>
        /\ applied' = applied \cup Staged("orders", "update")
    BY <1>2 DEF ApplyOrdersUpdate, ApplyOrders
  <2>2. \A t \in Tables : (HasWindow(t)' => HasWindow(t)) /\ (HasLanded(t)' => HasLanded(t))
    BY <2>1 DEF HasWindow, HasLanded, StageTwo
  <2>3. \A t \in Tables, op \in Ops :
            HasApplied(t, op)' => HasApplied(t, op) \/ (t = "orders" /\ op = "update")
    BY <2>1 DEF HasApplied, Marking, Tables, Ops
  <2> QED BY <2>1, <2>2, <2>3, SeedKeeps
<1>3. CASE ApplyDetailsInsert
  <2>1. /\ pc = "detailsInsert" /\ pc' = "detailsUpdate"
        /\ UNCHANGED <<log, captured, wm, window, staged>>
        /\ applied' = applied \cup Staged("details", "insert")
    BY <1>3 DEF ApplyDetailsInsert, ApplyLines
  <2>2. \A t \in Tables : (HasWindow(t)' => HasWindow(t)) /\ (HasLanded(t)' => HasLanded(t))
    BY <2>1 DEF HasWindow, HasLanded, StageTwo
  <2>3. \A t \in Tables, op \in Ops :
            HasApplied(t, op)' => HasApplied(t, op) \/ (t = "details" /\ op = "insert")
    BY <2>1 DEF HasApplied, Marking, Tables, Ops
  <2> QED BY <2>1, <2>2, <2>3, SeedKeeps
<1>4. CASE ApplyDetailsUpdate
  <2>1. /\ pc = "detailsUpdate" /\ pc' = "detailsDelete"
        /\ UNCHANGED <<log, captured, wm, window, staged>>
        /\ applied' = applied \cup Staged("details", "update")
    BY <1>4 DEF ApplyDetailsUpdate, ApplyLines
  <2>2. \A t \in Tables : (HasWindow(t)' => HasWindow(t)) /\ (HasLanded(t)' => HasLanded(t))
    BY <2>1 DEF HasWindow, HasLanded, StageTwo
  <2>3. \A t \in Tables, op \in Ops :
            HasApplied(t, op)' => HasApplied(t, op) \/ (t = "details" /\ op = "update")
    BY <2>1 DEF HasApplied, Marking, Tables, Ops
  <2> QED BY <2>1, <2>2, <2>3, SeedKeeps
<1>5. CASE ApplyDetailsDelete
  <2>1. /\ pc = "detailsDelete" /\ pc' = "tombstone"
        /\ UNCHANGED <<log, captured, wm, window, staged>>
        /\ applied' = applied \cup Staged("details", "delete")
    BY <1>5 DEF ApplyDetailsDelete, ApplyLines
  <2>2. \A t \in Tables : (HasWindow(t)' => HasWindow(t)) /\ (HasLanded(t)' => HasLanded(t))
    BY <2>1 DEF HasWindow, HasLanded, StageTwo
  <2>3. \A t \in Tables, op \in Ops :
            HasApplied(t, op)' => HasApplied(t, op) \/ (t = "details" /\ op = "delete")
    BY <2>1 DEF HasApplied, Marking, Tables, Ops
  <2> QED BY <2>1, <2>2, <2>3, SeedKeeps
<1>6. CASE TombstoneDeletedOrders
  <2>1. /\ pc = "tombstone" /\ pc' = "markOrders"
        /\ UNCHANGED <<log, captured, wm, window, staged>>
        /\ applied' = applied \cup Staged("orders", "delete")
    BY <1>6 DEF TombstoneDeletedOrders
  <2>2. \A t \in Tables : (HasWindow(t)' => HasWindow(t)) /\ (HasLanded(t)' => HasLanded(t))
    BY <2>1 DEF HasWindow, HasLanded, StageTwo
  <2>3. \A t \in Tables, op \in Ops :
            HasApplied(t, op)' => HasApplied(t, op) \/ (t = "orders" /\ op = "delete")
    BY <2>1 DEF HasApplied, Marking, Tables, Ops
  <2> QED BY <2>1, <2>2, <2>3, SeedKeeps
<1>7. CASE MarkOrders \/ MarkDetails
  BY <1>7, SeedMark DEF MarkOrders, MarkDetails, Marking, Tables
<1>8. CASE EndRun
  <2>1. /\ pc = "report" /\ pc' = "idle"
        /\ UNCHANGED <<log, captured, wm, window, staged, applied>>
    BY <1>8 DEF EndRun
  <2> QED BY <2>1, SeedKeeps DEF HasWindow, HasLanded, HasApplied, StageTwo, Marking
<1> QED BY <1>1, <1>2, <1>3, <1>4, <1>5, <1>6, <1>7, <1>8 DEF RunStageTwo

LEMMA SeedFailure ==
    ASSUME TypeOK, SeedDeliveryInv, TaskFails, pc # "idle", SeedWaits, lost' = lost
    PROVE  SeedDeliveryInv'
<1>1. UNCHANGED <<log, captured, wm, window, staged, applied>>
  BY DEF TaskFails, source, staging
<1>2. \/ pc' \in {"idle", "clear"}
      \/ pc' = "ordersInsert" /\ pc \in StageTwo
  BY DEF TaskFails, Retry, FailRun, TaskStart, TypeOK
<1> QED BY <1>1, <1>2, SeedKeeps
        DEF HasWindow, HasLanded, HasApplied, StageTwo, Marking

LEMMA SeedClearStaging ==
    ASSUME TypeOK, SeedDeliveryInv, ClearStaging, SeedWaits, lost' = lost
    PROVE  SeedDeliveryInv'
<1>1. /\ UNCHANGED <<log, captured, wm, window, applied, base, lost>> /\ staged' = {}
      /\ pc = "clear" /\ pc' = "orderWindow"
  BY DEF ClearStaging, Step, source, history, SeedWaits
<1>2. OverlapMixes' /\ SeedCovers' /\ (mixed => mixed')
  <2>1. pc # "idle"
    BY <1>1
  <2> QED BY <2>1, WaitsKeeps DEF SeedDeliveryInv
<1>3. \A t \in Tables : ~HasWindow(t)'
  BY <1>1 DEF HasWindow, StageTwo
<1>4. \A t \in Tables, op \in Ops : ~HasApplied(t, op)'
  BY <1>1 DEF HasApplied, Marking
<1>5. WithinCaptured' /\ MissedOnlyIfLost'
  BY <1>1, <1>2 DEF SeedDeliveryInv, WithinCaptured, MissedOnlyIfLost, Acknowledged, Lsn
<1> QED BY <1>2, <1>3, <1>4, <1>5 DEF SeedDeliveryInv, WindowsCover, Applied

LEMMA SeedIncremental ==
    ASSUME TypeOK, SeedTypeOK, WindowsStart, SeedDeliveryInv, Incremental
    PROVE  SeedDeliveryInv'
<1> USE DEF Tables
<1>1. CASE ReadOrderWindow \/ ReadDetailWindow
  BY <1>1, SeedReadWindow DEF ReadOrderWindow, ReadDetailWindow
<1>2. CASE ReadOrders
  <2>1. Land("orders") /\ SeedWaits /\ lost' = lost \ InWindow("orders") /\ UNCHANGED <<log, captured>>
        /\ pc = "landOrders" /\ pc' = "landDetails"
    BY <1>2 DEF ReadOrders, LandOrders, Step, source
  <2> QED BY <2>1, SeedLand
<1>3. CASE ReadDetails
  <2>1. Land("details") /\ SeedWaits /\ lost' = lost \ InWindow("details") /\ UNCHANGED <<log, captured>>
        /\ pc = "landDetails" /\ pc' = "snapOrders"
    BY <1>3 DEF ReadDetails, LandDetails, Step, source
  <2> QED BY <2>1, SeedLand
<1>4. CASE ReadExpired
  BY <1>4, SeedFailure DEF ReadExpired
<1>5. CASE RunByHand
  BY <1>5, SeedRunByHand
<1>6. ASSUME SeedWaits, lost' = lost,
             StartRun \/ ClearStaging \/ SnapshotOrders \/ SnapshotLines
                \/ RunStageTwo \/ Unhealthy \/ Fail
      PROVE  SeedDeliveryInv'
  <2>1. CASE StartRun
    <3>1. /\ pc = "idle" /\ pc' = "clear"
          /\ UNCHANGED <<log, captured, wm, window, staged, applied>>
      BY <2>1 DEF StartRun, Step, source, staging, history
    <3> QED BY <1>6, <3>1, SeedKeeps DEF HasWindow, HasLanded, HasApplied, StageTwo, Marking
  <2>2. CASE ClearStaging
    BY <1>6, <2>2, SeedClearStaging
  <2>3. CASE SnapshotOrders
    <3>1. /\ pc = "snapOrders" /\ pc' = "snapLines"
          /\ UNCHANGED <<log, captured, wm, window, staged, applied>>
      BY <2>3 DEF SnapshotOrders, Step, source, history
    <3> QED BY <1>6, <3>1, SeedKeeps DEF HasWindow, HasLanded, HasApplied, StageTwo, Marking
  <2>4. CASE SnapshotLines
    <3>1. /\ pc = "snapLines" /\ pc' = "ordersInsert"
          /\ UNCHANGED <<log, captured, wm, window, staged, applied>>
      BY <2>4 DEF SnapshotLines, Step, source, history
    <3> QED BY <1>6, <3>1, SeedKeeps DEF HasWindow, HasLanded, HasApplied, StageTwo, Marking
  <2>5. CASE RunStageTwo
    BY <1>6, <2>5, SeedStageTwoSteps
  <2>6. CASE Unhealthy \/ Fail
    BY <1>6, <2>6, SeedFailure DEF Unhealthy, Fail
  <2> QED BY <1>6, <2>1, <2>2, <2>3, <2>4, <2>5, <2>6
<1> QED BY <1>1, <1>2, <1>3, <1>4, <1>5, <1>6 DEF Incremental

\* New commits and new captures lie past every watermark and every window.
LEMMA SeedSurroundings ==
    ASSUME TypeOK, SeedTypeOK, SeedDeliveryInv, Surroundings
    PROVE  SeedDeliveryInv'
<1>1. SeedWaits /\ UNCHANGED <<cleaned, lost, base>>
  BY DEF Surroundings, SeedWaits
<1>2. CASE \E p \in Products : NewVersion(p)
  <2>1. UNCHANGED <<log, captured, wm, pc, window, staged, applied>>
    BY <1>2 DEF NewVersion, source, staging, history
  <2> QED BY <1>1, <2>1, SeedKeeps DEF HasWindow, HasLanded, HasApplied
<1>3. CASE Source
  <2>1. /\ Len(log) \in Nat /\ Len(log') = Len(log) + 1
        /\ \A i \in 1..Len(log) : log'[i] = log[i]
        /\ UNCHANGED <<captured, wm, pc, window, staged, applied>>
    BY <1>3, CommitKeepsLog DEF staging, history
  <2>2. TypeOK'
    BY <1>3, SourceType
  <2>3. \A i \in 1..captured : i \in 1..Len(log) /\ log'[i] = log[i]
    BY <2>1, PositionTypes
  <2>4. ASSUME NEW i \in DOMAIN log', Acknowledged(i)'
        PROVE  i \in DOMAIN log /\ Acknowledged(i)
    <3>1. i \in 1..Len(log) + 1
      BY <2>1, <2>2, <2>4, PositionTypes
    <3>2. i # Len(log) + 1
      <4> SUFFICES ASSUME i = Len(log) + 1 PROVE FALSE
        OBVIOUS
      <4> DEFINE t == log'[i].table
      <4>1. t \in Tables
        <5>1. log' \in Seq(Changes)
          BY <2>2 DEF TypeOK
        <5>2. log'[i] \in Changes
          BY <5>1, <2>4
        <5> QED BY <5>2 DEF Changes
      <4>2. wm[t] # None /\ Lsn(i) <= wm[t]
        BY <2>1, <2>4 DEF Acknowledged, Lsn
      <4>3. wm[t] \in Nat /\ wm[t] <= Lsn(captured)
        BY <4>1, <4>2, PositionTypes DEF SeedDeliveryInv, WithinCaptured
      <4> QED BY <4>2, <4>3, <2>1, PositionTypes DEF Lsn
    <3>3. i \in 1..Len(log) /\ log'[i] = log[i]
      BY <2>1, <3>1, <3>2
    <3> QED BY <2>1, <2>4, <3>3, PositionTypes DEF Acknowledged, Lsn
  <2>5. OverlapMixes' /\ SeedCovers' /\ (mixed => mixed')
    BY <1>1, <2>4, WaitsKeeps DEF SeedDeliveryInv
  <2>6. WithinCaptured'
    BY <2>1 DEF SeedDeliveryInv, WithinCaptured, Lsn
  <2>7. MissedOnlyIfLost'
    BY <1>1, <2>1, <2>4, <2>5 DEF SeedDeliveryInv, MissedOnlyIfLost
  <2>8. ASSUME ~mixed' PROVE WindowsCover' /\ Applied'
    <3>1. WindowsCover /\ Applied
      BY <2>5, <2>8 DEF SeedDeliveryInv
    <3>2. \A t \in Tables, op \in Ops : Staged(t, op)' = Staged(t, op)
      BY <2>1, <2>3 DEF Staged, TypeOK
    <3>3. Applied'
      BY <2>1, <3>1, <3>2 DEF Applied, HasApplied
    <3>4. WindowsCover'
      <4>1. \A t \in Tables : /\ IsEmpty(window[t])' <=> IsEmpty(window[t])
                              /\ HasWindow(t)' <=> HasWindow(t)
                              /\ HasLanded(t)' <=> HasLanded(t)
        BY <2>1 DEF IsEmpty, HasWindow, HasLanded
      <4>2. \A i \in 1..captured : Passed(i) => Passed(i)'
        BY <1>1, <2>1, <2>3 DEF Passed, Acknowledged, Lsn
      <4> QED BY <2>1, <2>3, <3>1, <4>1, <4>2 DEF WindowsCover, Lsn
    <3> QED BY <3>3, <3>4
  <2> QED BY <2>5, <2>6, <2>7, <2>8 DEF SeedDeliveryInv
<1>4. CASE Capture
  <2>1. /\ captured' \in Nat /\ captured < captured'
        /\ UNCHANGED <<log, wm, pc, window, staged, applied>>
    BY <1>4, PositionTypes DEF Capture, source, staging, history
  <2>2. \A i \in DOMAIN log' : Acknowledged(i)' => i \in DOMAIN log /\ Acknowledged(i)
    BY <2>1 DEF Acknowledged, Lsn
  <2>3. OverlapMixes' /\ SeedCovers' /\ (mixed => mixed')
    BY <1>1, <2>2, WaitsKeeps DEF SeedDeliveryInv
  <2>4. WithinCaptured'
    <3>1. captured \in Nat /\ 0..captured \subseteq 0..captured'
          /\ Lsn(captured) <= Lsn(captured')
      BY <2>1, PositionTypes DEF Lsn
    <3>2. ASSUME NEW t \in Tables, wm[t] # None PROVE wm[t] <= Lsn(captured')
      <4>1. wm[t] \in Nat /\ wm[t] <= Lsn(captured)
        BY <3>2, PositionTypes DEF SeedDeliveryInv, WithinCaptured
      <4> QED BY <2>1, <3>1, <4>1 DEF Lsn
    <3>3. \A t \in Tables : \E n \in 0..captured' : window[t].to = Lsn(n)
      BY <3>1 DEF SeedDeliveryInv, WithinCaptured
    <3> QED BY <2>1, <3>2, <3>3 DEF WithinCaptured, Lsn
  <2>5. MissedOnlyIfLost'
    BY <1>1, <2>1, <2>2, <2>3 DEF SeedDeliveryInv, MissedOnlyIfLost
  <2>6. ASSUME ~mixed' PROVE WindowsCover' /\ Applied'
    <3>1. WindowsCover /\ Applied
      BY <2>3, <2>6 DEF SeedDeliveryInv
    <3>2. Applied'
      BY <2>1, <3>1 DEF Applied, HasApplied, Staged
    <3>3. ASSUME NEW t \in Tables, NEW i \in 1..captured', Lsn(i) <= window[t].to
          PROVE  i \in 1..captured
      <4>1. PICK n \in 0..captured : window[t].to = Lsn(n)
        BY DEF SeedDeliveryInv, WithinCaptured
      <4> QED BY <2>1, <3>3, <4>1, PositionTypes DEF Lsn
    <3>4. \A t \in Tables : /\ IsEmpty(window[t])' <=> IsEmpty(window[t])
                            /\ HasWindow(t)' <=> HasWindow(t)
                            /\ HasLanded(t)' <=> HasLanded(t)
      BY <2>1 DEF IsEmpty, HasWindow, HasLanded
    <3>5. \A i : Passed(i) => Passed(i)'
      BY <1>1, <2>1 DEF Passed, Acknowledged, Lsn
    <3>6. WindowsCover'
      BY <2>1, <3>1, <3>3, <3>4, <3>5 DEF WindowsCover, Lsn
    <3> QED BY <3>2, <3>6
  <2> QED BY <2>3, <2>4, <2>5, <2>6 DEF SeedDeliveryInv
<1> QED BY <1>2, <1>3, <1>4 DEF Surroundings

\* What a seed step leaves of the invariant: it is alone, or mixes things up;
\* and while it is alone, the other DAG is idle and owes nothing.
LEMMA SeedAlone ==
    ASSUME TypeOK, SeedDeliveryInv, Watch, UNCHANGED <<source, captured, wm, pc, window>>,
           seedPc \in {"idle"} \cup SeedStageOne \cup SeedStageTwo,
           seedPc # "idle" \/ seedPc' # "idle"
    PROVE  /\ WithinCaptured' /\ OverlapMixes'
           /\ ~mixed' => WindowsCover' /\ Applied'
           /\ seedPc # "write" => (mixed => mixed')
           /\ mixed' \/ pc = "idle"
           /\ \A i \in DOMAIN log' : Acknowledged(i)' <=> Acknowledged(i)
           /\ UNCHANGED log
<1>1. /\ apart' = (seedPc' = "idle" \/ (apart /\ pc = "idle"))
      /\ mixed' = IF seedPc = "write" /\ seedPc' = "seedReport" THEN ~apart
                  ELSE \/ mixed \/ ~apart'
                       \/ seedPc = "truncate" /\ seedPc' = "write"
      /\ UNCHANGED <<log, captured, wm, pc, window>>
  BY DEF Watch, source
<1>2. seedPc # "idle" /\ pc # "idle" => ~apart /\ mixed
  BY DEF SeedDeliveryInv, OverlapMixes
<1>3. mixed' \/ pc = "idle"
  BY <1>1, <1>2
<1>4. OverlapMixes'
  BY <1>1, <1>2, <1>3 DEF OverlapMixes
<1>5. WithinCaptured'
  BY <1>1 DEF SeedDeliveryInv, WithinCaptured, Lsn
<1>6. ~mixed' => WindowsCover' /\ Applied'
  BY <1>1, <1>3 DEF WindowsCover, Applied, HasWindow, HasApplied, Marking, StageTwo
<1>7. \A i \in DOMAIN log' : Acknowledged(i)' <=> Acknowledged(i)
  BY <1>1 DEF Acknowledged, Lsn
<1> QED BY <1>1, <1>3, <1>4, <1>5, <1>6, <1>7

\* A seed that was alone accounts for every acknowledged change when it has
\* written; before that, having truncated, for none.
LEMMA SeedSteps ==
    ASSUME TypeOK, SeedTypeOK, SeedDeliveryInv, Seed
    PROVE  SeedDeliveryInv'
<1> USE DEF SeedStageOne, SeedStageTwo
<1>1. ASSUME Watch, UNCHANGED <<source, captured, wm, pc, window, applied, base, lost>>,
             seedPc \notin {"write", "truncate"}, seedPc # "idle" \/ seedPc' # "idle",
             \/ seedPc' \notin {"seedLines"} \cup SeedStageTwo
             \/ seedBase' = seedBase /\ seedPc \in {"seedLines"} \cup SeedStageTwo
             \/ seedBase' = Len(log)
      PROVE  SeedDeliveryInv'
  <2>1. /\ WithinCaptured' /\ OverlapMixes'
        /\ ~mixed' => WindowsCover' /\ Applied'
        /\ mixed => mixed'
        /\ \A i \in DOMAIN log' : Acknowledged(i)' <=> Acknowledged(i)
        /\ UNCHANGED log
    BY <1>1, SeedAlone DEF SeedTypeOK
  <2>2. MissedOnlyIfLost'
    BY <1>1, <2>1 DEF SeedDeliveryInv, MissedOnlyIfLost
  <2>3. SeedCovers'
    <3>1. SUFFICES ASSUME apart', seedPc' \in {"seedLines"} \cup SeedStageTwo,
                          NEW i \in DOMAIN log, Acknowledged(i)
                   PROVE  i <= seedBase'
      BY <2>1 DEF SeedCovers
    <3>2. seedPc # "idle" => apart
      BY <1>1, <3>1 DEF Watch
    <3>3. i <= Len(log)
      BY PositionTypes
    <3> QED BY <1>1, <3>1, <3>2, <3>3 DEF SeedDeliveryInv, SeedCovers
  <2> QED BY <2>1, <2>2, <2>3 DEF SeedDeliveryInv
<1>2. CASE StartSeed
  <2>1. Watch /\ UNCHANGED <<source, captured, wm, pc, window, applied, base, lost>>
        /\ seedPc = "idle" /\ seedPc' = "seedClear"
    BY <1>2 DEF StartSeed, SeedStep, history, seedHistory
  <2> QED BY <1>1, <2>1
<1>3. CASE SeedClear
  <2>1. Watch /\ UNCHANGED <<source, captured, wm, pc, window, applied, base, lost>>
        /\ seedPc = "seedClear" /\ seedPc' = "seedChanges"
    BY <1>3 DEF SeedClear, SeedStep, history, seedHistory
  <2> QED BY <1>1, <2>1
<1>4. CASE SeedReadChanges
  <2>1. Watch /\ UNCHANGED <<source, captured, wm, pc, window, applied, base, lost>>
        /\ seedPc = "seedChanges" /\ seedPc' = "seedOrders"
    BY <1>4 DEF SeedReadChanges, SeedStep, history, seedHistory
  <2> QED BY <1>1, <2>1
<1>5. CASE SeedSnapshotOrders
  <2>1. Watch /\ UNCHANGED <<source, captured, wm, pc, window, applied, base, lost>>
        /\ seedPc = "seedOrders" /\ seedBase' = Len(log)
    BY <1>5 DEF SeedSnapshotOrders, SeedStep, history
  <2> QED BY <1>1, <2>1
<1>6. CASE SeedSnapshotLines
  <2>1. Watch /\ UNCHANGED <<source, captured, wm, pc, window, applied, base, lost, seedBase>>
        /\ seedPc = "seedLines"
    BY <1>6 DEF SeedSnapshotLines, SeedStep, history, seedHistory
  <2> QED BY <1>1, <2>1
<1>7. CASE SeedTransform
  <2>1. Watch /\ UNCHANGED <<source, captured, wm, pc, window, applied, base, lost, seedBase>>
        /\ seedPc = "transform"
    BY <1>7 DEF SeedTransform, SeedStep, history, seedHistory
  <2> QED BY <1>1, <2>1
<1>8. CASE EndSeed
  <2>1. Watch /\ UNCHANGED <<source, captured, wm, pc, window, applied, base, lost>>
        /\ seedPc = "seedReport" /\ seedPc' = "idle"
    BY <1>8 DEF EndSeed, SeedStep, history
  <2> QED BY <1>1, <2>1
<1>9. CASE SeedTruncate
  <2>1. Watch /\ UNCHANGED <<source, captured, wm, pc, window, base, lost, seedBase>>
        /\ seedPc = "truncate" /\ seedPc' = "write"
    BY <1>9 DEF SeedTruncate, SeedStep, seedHistory
  <2>2. WithinCaptured' /\ OverlapMixes' /\ UNCHANGED log
        /\ \A i \in DOMAIN log' : Acknowledged(i)' <=> Acknowledged(i)
    BY <2>1, SeedAlone DEF SeedTypeOK
  <2>3. mixed' /\ (apart' => apart)
    BY <2>1 DEF Watch
  <2>4. SeedCovers' /\ MissedOnlyIfLost'
    BY <2>1, <2>2, <2>3 DEF SeedDeliveryInv, SeedCovers, MissedOnlyIfLost
  <2> QED BY <2>2, <2>3, <2>4 DEF SeedDeliveryInv
<1>10. CASE SeedWrite
  <2>1. Watch /\ UNCHANGED <<source, captured, wm, pc, window, applied, seedBase>>
        /\ seedPc = "write" /\ seedPc' = "seedReport"
        /\ (apart => base' = seedBase)
    BY <1>10 DEF SeedWrite, SeedStep
  <2>2. WithinCaptured' /\ OverlapMixes' /\ UNCHANGED log
        /\ (~mixed' => WindowsCover' /\ Applied')
        /\ \A i \in DOMAIN log' : Acknowledged(i)' <=> Acknowledged(i)
    BY <2>1, SeedAlone DEF SeedTypeOK
  <2>3. mixed' = ~apart /\ (apart' => apart)
    BY <2>1 DEF Watch
  <2>4. apart => \A i \in DOMAIN log : Acknowledged(i) => i <= seedBase
    BY <2>1 DEF SeedDeliveryInv, SeedCovers
  <2>5. SeedCovers' /\ MissedOnlyIfLost'
    BY <2>1, <2>2, <2>3, <2>4 DEF SeedCovers, MissedOnlyIfLost
  <2> QED BY <2>2, <2>5 DEF SeedDeliveryInv
<1>11. CASE SeedFail \/ SeedRaises
  <2>1. Watch /\ UNCHANGED <<source, captured, wm, pc, window, applied, base, lost>>
        /\ seedPc # "idle"
        /\ \/ seedPc' \in {"idle", "seedClear"}
           \/ seedPc' = "transform" /\ seedPc \in SeedStageTwo /\ seedBase' = seedBase
    BY <1>11 DEF SeedFail, SeedRaises, SeedTaskFails, SeedRetry, SeedFailRun, SeedTaskStart,
                 SeedTypeOK, history
  <2>2. CASE seedPc \notin {"write", "truncate"}
    BY <1>1, <2>1, <2>2
  <2>3. CASE seedPc \in {"write", "truncate"}
    <3>1. WithinCaptured' /\ OverlapMixes' /\ UNCHANGED log
          /\ (~mixed' => WindowsCover' /\ Applied')
          /\ \A i \in DOMAIN log' : Acknowledged(i)' <=> Acknowledged(i)
      BY <2>1, SeedAlone DEF SeedTypeOK
    <3>2. (mixed => mixed') /\ (seedPc' = "transform" /\ apart' => apart)
      BY <2>1 DEF Watch
    <3>3. MissedOnlyIfLost'
      BY <2>1, <3>1, <3>2 DEF SeedDeliveryInv, MissedOnlyIfLost
    <3>4. SeedCovers'
      BY <2>1, <2>3, <3>1, <3>2 DEF SeedDeliveryInv, SeedCovers
    <3> QED BY <3>1, <3>3, <3>4 DEF SeedDeliveryInv
  <2> QED BY <2>2, <2>3
<1> QED BY <1>2, <1>3, <1>4, <1>5, <1>6, <1>7, <1>8, <1>9, <1>10, <1>11 DEF Seed

LEMMA SeedDeliveryStep ==
    TypeOK /\ SeedTypeOK /\ WindowsStart /\ SeedDeliveryInv /\ [SeedNext]_allVars => SeedDeliveryInv'
<1> SUFFICES ASSUME TypeOK, SeedTypeOK, WindowsStart, SeedDeliveryInv, [SeedNext]_allVars
             PROVE  SeedDeliveryInv'
  OBVIOUS
<1>1. CASE UNCHANGED allVars
  <2>1. /\ UNCHANGED <<log, captured, wm, pc, window, staged, applied>>
        /\ UNCHANGED <<seedPc, seedBase, apart, mixed, base, lost>>
    BY <1>1 DEF allVars, seedVars, seedHistory, vars, source, staging, history
  <2>2. /\ WithinCaptured' /\ MissedOnlyIfLost'
        /\ ~mixed' => WindowsCover' /\ Applied'
    BY <2>1, SeedControlStep DEF HasWindow, HasLanded, HasApplied
  <2>3. OverlapMixes' /\ SeedCovers'
    BY <2>1 DEF SeedDeliveryInv, OverlapMixes, SeedCovers, Acknowledged, Lsn
  <2> QED BY <2>2, <2>3 DEF SeedDeliveryInv
<1> QED BY <1>1, SeedIncremental, SeedSurroundings, SeedSteps DEF SeedNext

\* The accounting behind it: what windows and watermarks have passed.
THEOREM SeedDeliveryInvariant == SeedSpec => []SeedDeliveryInv
<1> QED BY SeedDeliveryInit, SeedDeliveryStep, SeedTypeCorrect, SeedWindowsStart, PTL DEF SeedSpec

\* With seeds, retention, stage two run by hand and any failures, a change at
\* or before its watermark is in the warehouse, or one of the three named ways
\* past it was taken (cdc_reader.py get_cdc_window, initial_load).
THEOREM MissesOnlyTheLost == SeedSpec => []MissedOnlyIfLost
<1>1. SeedDeliveryInv => MissedOnlyIfLost
  BY DEF SeedDeliveryInv
<1> QED BY <1>1, SeedDeliveryInvariant, PTL
=============================================================================
