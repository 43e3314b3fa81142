------------------------------ MODULE FactSeed ------------------------------
(***************************************************************************)
(* The manual seed DAG beside the half-hourly DAG of FactPipeline, the     *)
(* retention of the change tables, and the incremental job run by hand.    *)
(*                                                                         *)
(* The seed copies the whole source into the snapshot tables (stage one),  *)
(* then truncates FactOrders and writes it again from there (stage two).   *)
(* It uses the staging tables and the fact table of the incremental DAG,   *)
(* and Airflow limits only the runs of each DAG by itself.                 *)
(*                                                                         *)
(*   seedPc, seedAttempt   the step a seed run is at, and its retries      *)
(*   seedVersion           the product keys its lookup fetched             *)
(*   cleaned               the CDC cleanup has dropped changes up to here  *)
(*                                                                         *)
(* History variables.  A seed counts only when it was alone:               *)
(*   apart     no incremental run was active since this seed began         *)
(*   mixed     the two DAGs overlapped, or a seed discarded the facts, and *)
(*             no seed that was alone has finished writing since           *)
(*   base      the commits the last such seed's snapshot is sure to hold   *)
(*   lost      changes that were passed over, until a later window reads   *)
(*             them after all: gone from the change table before the first *)
(*             watermark of it was written, or captured between the two    *)
(*             stages of a run by hand                                     *)
(***************************************************************************)
EXTENDS FactPipeline

CONSTANTS
    SeedRetries,    \* Airflow's retries of a task of the seed DAG
    MaxSeeds        \* bound: seed runs

ASSUME SeedBoundsAssumption == SeedRetries \in Nat /\ MaxSeeds \in Nat

VARIABLES
    seedPc, seedAttempt, seeds,         \* Airflow
    seedVersion,                        \* Spark
    cleaned,                            \* SQL Server
    seedBase, apart, mixed, base, lost  \* history variables

seedHistory == <<seedBase, base, lost>>
seedVars    == <<seedPc, seedAttempt, seeds, seedVersion, cleaned,
                 seedHistory, apart, mixed>>
allVars     == <<vars, seedVars>>

SeedStageOne == {"seedClear", "seedChanges", "seedOrders", "seedLines"}
SeedStageTwo == {"transform", "truncate", "write", "seedReport"}

SeedTaskStart == IF seedPc \in SeedStageOne THEN "seedClear" ELSE "transform"

\* Whether the two DAGs are, or were, active at the same time.
Watch ==
    /\ apart' = (seedPc' = "idle" \/ (apart /\ pc' = "idle"))
    /\ mixed' = IF seedPc = "write" /\ seedPc' = "seedReport" THEN ~apart
                ELSE \/ mixed \/ ~apart'
                     \/ seedPc = "truncate" /\ seedPc' = "write"

\* A step of the incremental DAG or its surroundings.
SeedWaits == /\ UNCHANGED <<seedPc, seedAttempt, seeds, seedVersion, seedBase, base>>
             /\ Watch

-----------------------------------------------------------------------------
(* Retention.  The cleanup job drops changes at any time, which shows only *)
(* when the change tables are read.  fn_cdc_get_min_lsn then lies after    *)
(* the last change dropped, and the change function raises when asked for  *)
(* anything before that.                                                   *)

CleanedNow == cleaned..captured

LowLsn(n) == Lsn(n) + 1

RetainedFrom(t, n) == IF wm[t] = None THEN LowLsn(n) ELSE FromLsn(t)

Expired(w, n) == ~IsEmpty(w) /\ w.from < LowLsn(n)

\* Captured changes that are neither acknowledged nor in staging.
Unread(t) == {i \in 1..captured : /\ log[i].table = t
                                  /\ ~Acknowledged(i)
                                  /\ i \notin staged}

\* get_cdc_window: without a watermark, what was dropped is passed over.
ReadWindow(t, here, next) ==
    /\ Step(here, next) /\ Within
    /\ cleaned' \in CleanedNow
    /\ window' = [window EXCEPT ![t] = [from |-> RetainedFrom(t, cleaned'),
                                        to   |-> Lsn(captured)]]
    /\ lost' = IF wm[t] # None THEN lost
               ELSE lost \cup {i \in Unread(t) : i <= cleaned'}
    /\ UNCHANGED <<wm, staging, version, facts, history>>
    /\ SeedWaits

ReadOrderWindow  == ReadWindow("orders", "orderWindow", "detailWindow")
ReadDetailWindow == ReadWindow("details", "detailWindow", "landOrders")

\* Mutant of ReadDetails: what is left of the window is taken.
ReadRemaining ==
    /\ Step("landDetails", "snapOrders") /\ Within
    /\ cleaned' \in CleanedNow
    /\ staged' = staged \cup {i \in InWindow("details") : i > cleaned'}
    /\ lost' = lost \ staged'
    /\ UNCHANGED <<wm, window, snapOrders, snapLines, version, facts, history>>
    /\ SeedWaits

\* read_changes, of a window that is still there ...
ReadOrders ==
    /\ LandOrders
    /\ cleaned' \in CleanedNow /\ ~Expired(window["orders"], cleaned')
    /\ lost' = lost \ InWindow("orders")
    /\ SeedWaits

ReadDetails ==
    /\ LandDetails
    /\ cleaned' \in CleanedNow /\ ~Expired(window["details"], cleaned')
    /\ lost' = lost \ InWindow("details")
    /\ SeedWaits

\* ... and of one that is not: the task fails.
ReadExpired ==
    /\ TaskFails
    /\ cleaned' \in CleanedNow
    /\ \/ pc = "landOrders" /\ Expired(window["orders"], cleaned')
       \/ pc = "landDetails" /\ Expired(window["details"], cleaned')
    /\ UNCHANGED <<failures, lost>> /\ SeedWaits

\* Stage two run by hand computes the windows again; nobody retries it.
RunByHand ==
    /\ Step("ordersInsert", "ordersInsert")
    /\ attempt = 0 /\ attempt' = Retries
    /\ cleaned' \in CleanedNow
    /\ window' = [t \in Tables |-> [from |-> RetainedFrom(t, cleaned'),
                                    to   |-> Lsn(captured)]]
    /\ lost' = lost \cup Unread("orders") \cup Unread("details")
    /\ UNCHANGED <<wm, staging, version, facts, history>>
    /\ SeedWaits

\* The steps of the incremental DAG, over change tables that expire.
Incremental ==
    \/ ReadOrderWindow \/ ReadDetailWindow
    \/ ReadOrders \/ ReadDetails \/ ReadExpired
    \/ RunByHand
    \/ /\ \/ StartRun \/ ClearStaging \/ SnapshotOrders \/ SnapshotLines
          \/ RunStageTwo \/ Unhealthy \/ Fail
       /\ UNCHANGED <<cleaned, lost>> /\ SeedWaits

Surroundings ==
    /\ Source \/ Capture \/ \E p \in Products : NewVersion(p)
    /\ UNCHANGED <<cleaned, lost>> /\ SeedWaits

-----------------------------------------------------------------------------
(* The seed, stage one: run_initial of op_to_staging_facts.                *)

SeedStep(here, next) ==
    /\ seedPc = here /\ seedPc' = next
    /\ UNCHANGED <<source, captured, wm, pc, attempt, failures, window>>
    /\ Watch

SeedWithin == UNCHANGED <<seedAttempt, seeds>>
SeedFresh  == seedAttempt' = 0 /\ UNCHANGED seeds

NoVersion == [p \in Products |-> 0]

StartSeed ==
    /\ SeedStep("idle", "seedClear")
    /\ seeds < MaxSeeds /\ seeds' = seeds + 1 /\ seedAttempt' = 0
    /\ UNCHANGED <<staging, version, facts, history, seedVersion, cleaned,
                   seedHistory>>

SeedClear ==
    /\ SeedStep("seedClear", "seedChanges") /\ SeedWithin
    /\ captured > 0
    /\ staged' = {}
    /\ UNCHANGED <<snapOrders, snapLines, version, facts, history, seedVersion,
                   cleaned,
                   seedHistory>>

SeedWindow(t, n) == [from |-> RetainedFrom(t, n), to |-> Lsn(captured)]

\* The changes land in the operation tables too, where no seed reads them.
SeedReadChanges ==
    /\ SeedStep("seedChanges", "seedOrders") /\ SeedWithin
    /\ cleaned' \in CleanedNow
    /\ \A t \in Tables : ~Expired(SeedWindow(t, cleaned'), cleaned')
    /\ staged' = staged \cup
            {i \in 1..captured : LET w == SeedWindow(log[i].table, cleaned')
                                 IN  ~IsEmpty(w) /\ Lsn(i) >= w.from}
    /\ UNCHANGED <<snapOrders, snapLines, version, facts, history, seedVersion,
                   seedHistory>>

\* load_snapshot without order ids: both tables truncated, every order ...
SeedSnapshotOrders ==
    /\ SeedStep("seedOrders", "seedLines") /\ SeedWithin
    /\ snapOrders' = orders
    /\ snapLines' = [l \in Lines |-> None]
    /\ seedBase' = Len(log)
    /\ UNCHANGED <<staged, version, facts, history, seedVersion, cleaned, base, lost>>

\* ... and, in another query, every line.
SeedSnapshotLines ==
    /\ SeedStep("seedLines", "transform") /\ SeedFresh
    /\ snapLines' = lines
    /\ UNCHANGED <<staged, snapOrders, version, facts, history, seedVersion,
                   cleaned,
                   seedHistory>>

-----------------------------------------------------------------------------
(* The seed, stage two: initial_load.                                      *)

\* JOIN_TEMPLATE over the two snapshot tables, as they are when it is read.
SnapshotJoin == {l \in Lines : snapOrders[l[1]] # None /\ snapLines[l] # None}

\* _transform fetches the open keys, with stubs for products it misses.
SeedTransform ==
    /\ SeedStep("transform", "truncate") /\ SeedWithin
    /\ SnapshotJoin # {}
    /\ version' = [p \in Products |->
            IF version[p] = 0 /\ \E l \in SnapshotJoin : l[2] = p
            THEN 1 ELSE version[p]]
    /\ seedVersion' = version'
    /\ UNCHANGED <<staging, facts, history, cleaned,
                   seedHistory>>

\* Mutant of SeedTruncate: the seed is written over what is there.
SeedKeepFacts ==
    /\ SeedStep("truncate", "write") /\ SeedWithin
    /\ applied' = {}
    /\ UNCHANGED <<staging, version, facts, coalesced, seedVersion, cleaned,
                   seedHistory>>

\* Nothing that was applied is in the warehouse any more.
SeedTruncate ==
    /\ SeedStep("truncate", "write") /\ SeedWithin
    /\ facts' = [k \in FactKeys |-> None]
    /\ applied' = {}
    /\ UNCHANGED <<staging, version, coalesced, seedVersion, cleaned,
                   seedHistory>>

\* write_to_dw collects: the staging tables are read again only now.
SeedWrite ==
    /\ SeedStep("write", "seedReport") /\ SeedWithin
    /\ facts' = [k \in FactKeys |->
            IF k[1] \in SnapshotJoin /\ k[2] = seedVersion[k[1][2]]
            THEN [freight |-> snapOrders[k[1][1]], qty |-> snapLines[k[1]],
                  deleted |-> FALSE]
            ELSE facts[k]]
    /\ seedVersion' = NoVersion
    /\ IF apart THEN base' = seedBase /\ coalesced' = {} /\ lost' = {}
                ELSE UNCHANGED <<base, coalesced, lost>>
    /\ UNCHANGED <<staging, version, applied, cleaned, seedBase>>

EndSeed ==
    /\ SeedStep("seedReport", "idle") /\ SeedFresh
    /\ seedBase' = 0
    /\ UNCHANGED <<staging, version, facts, history, seedVersion, cleaned, base, lost>>

-----------------------------------------------------------------------------
(* Failures of the seed's tasks.                                           *)

\* Mutant of SeedRetry: one attempt too many.
SeedRetryOnceMore ==
    /\ seedAttempt <= SeedRetries /\ seedAttempt' = seedAttempt + 1
    /\ seedPc' = SeedTaskStart
    /\ UNCHANGED seedBase

SeedRetry ==
    /\ seedAttempt < SeedRetries /\ seedAttempt' = seedAttempt + 1
    /\ seedPc' = SeedTaskStart
    /\ UNCHANGED seedBase

SeedFailRun ==
    /\ seedAttempt = SeedRetries /\ seedAttempt' = 0
    /\ seedPc' = "idle" /\ seedBase' = 0

SeedTaskFails ==
    /\ SeedRetry \/ SeedFailRun
    /\ seedVersion' = NoVersion
    /\ UNCHANGED <<source, captured, wm, pc, attempt, window, staging, version,
                   facts, history, seeds, base, lost>>
    /\ Watch

SeedFail ==
    /\ seedPc # "idle"
    /\ failures < MaxFailures /\ failures' = failures + 1
    /\ SeedTaskFails
    /\ UNCHANGED cleaned

\* Nothing captured yet; changes expired; an empty snapshot.
SeedRaises ==
    /\ SeedTaskFails
    /\ \/ seedPc = "seedClear" /\ captured = 0 /\ UNCHANGED cleaned
       \/ /\ seedPc = "seedChanges" /\ cleaned' \in CleanedNow
          /\ \E t \in Tables : Expired(SeedWindow(t, cleaned'), cleaned')
       \/ seedPc = "transform" /\ SnapshotJoin = {} /\ UNCHANGED cleaned
    /\ UNCHANGED failures

Seed == \/ StartSeed \/ SeedClear \/ SeedReadChanges
        \/ SeedSnapshotOrders \/ SeedSnapshotLines
        \/ SeedTransform \/ SeedTruncate \/ SeedWrite \/ EndSeed
        \/ SeedFail \/ SeedRaises

-----------------------------------------------------------------------------
SeedTypeOK ==
    /\ seedPc \in {"idle"} \cup SeedStageOne \cup SeedStageTwo
    /\ seedAttempt \in 0..SeedRetries
    /\ seeds \in 0..MaxSeeds
    /\ seedVersion \in [Products -> 0..MaxVersions]
    /\ cleaned \in 0..captured
    /\ seedBase \in 0..Len(log) /\ base \in 0..Len(log)
    /\ apart \in BOOLEAN /\ mixed \in BOOLEAN
    /\ lost \subseteq 1..captured

SeedInit ==
    /\ Init
    /\ seedPc = "idle" /\ seedAttempt = 0 /\ seeds = 0
    /\ seedVersion = NoVersion
    /\ cleaned = 0
    /\ seedBase = 0 /\ base = 0 /\ lost = {}
    /\ apart = TRUE /\ mixed = FALSE

SeedNext == Incremental \/ Surroundings \/ Seed

SeedSpec == SeedInit /\ [][SeedNext]_allVars

-----------------------------------------------------------------------------
(* Properties.                                                             *)

\* A change at or before its table's watermark has been applied since the
\* facts were last discarded, or is in the seed that replaced them.  The only
\* ways past that are a change that expires before its table has a watermark,
\* stage two run by hand, and two DAGs at a time: not failures, retries, nor an
\* outage longer than the retention once there is a watermark.
MissedOnlyIfLost ==
    \A i \in DOMAIN log :
        Acknowledged(i) => mixed \/ i \in applied \/ i <= base \/ i \in lost

LostLines == {l \in Lines : \E i \in lost :
                log[i].order = l[1] /\ log[i].product \in {None, l[2]}}

\* One seed that was alone repairs whatever came before it - lost changes,
\* coalesced windows, facts discarded by a seed that failed, DAGs that mixed
\* their staging - although it leaves the watermark where it was and all
\* changes after it are replayed over its rows: once those are acknowledged,
\* the newest row of every line is the source's (initial_load).
SeedRepairs ==
    Quiescent /\ seedPc = "idle" /\ ~mixed =>
        \A l \in Lines \ (coalesced \cup LostLines) : NewestAgrees(l)

-----------------------------------------------------------------------------
(* The inductive invariant behind MissedOnlyIfLost: DeliveryInv, for       *)
(* changes that may also be in a seed or lost.                             *)

\* The two DAGs cannot be active at once and have nothing mixed up.
OverlapMixes == seedPc # "idle" /\ pc # "idle" => ~apart /\ mixed

\* The snapshot of a seed that has been alone holds every acknowledged change.
SeedCovers ==
    apart /\ seedPc \in {"seedLines"} \cup SeedStageTwo =>
        \A i \in DOMAIN log : Acknowledged(i) => i <= seedBase

Passed(i) == Acknowledged(i) \/ i \in staged \/ i \in lost

\* What a run's windows have passed was so before, is on its way, or lost.
WindowsCover ==
    \A t \in Tables : HasWindow(t) /\ ~IsEmpty(window[t]) =>
        \A i \in 1..captured :
            log[i].table = t /\ Lsn(i) <= window[t].to =>
                Passed(i) \/ (window[t].from <= Lsn(i) /\ ~HasLanded(t))

\* The window of a table that has a watermark never ends before it, and begins
\* right after it until stage one ends, so nothing acknowledged lands, whatever
\* the seed does meanwhile.
WindowsStart ==
    \A t \in Tables : HasWindow(t) /\ wm[t] # None =>
        /\ pc \in StageOne => window[t].from = FromLsn(t)
        /\ ~IsEmpty(window[t]) => wm[t] <= window[t].to

SeedDeliveryInv ==
    /\ WithinCaptured
    /\ OverlapMixes
    /\ SeedCovers
    /\ ~mixed => WindowsCover /\ Applied
    /\ MissedOnlyIfLost

-----------------------------------------------------------------------------
(* The inductive invariant behind SeedRepairs: first, what the snapshot of *)
(* a seed that has been alone holds, up to its base.                       *)

\* No snapshot, however mixed, holds an order that nothing is known of.
KnownOrders ==
    \A o \in Orders : snapOrders[o] # None =>
        orders[o] # None \/ \E i \in DOMAIN log : log[i].order = o

SeedSnapshots ==
    /\ apart /\ seedPc \in {"seedLines"} \cup SeedStageTwo =>
        /\ \A o \in Orders : (\A i \in OrderChanges(o) : i <= seedBase) =>
                snapOrders[o] = orders[o]
        /\ \A i \in OrderDeletes : i <= seedBase => snapOrders[log[i].order] = None
    /\ apart /\ seedPc \in SeedStageTwo =>
        \A l \in Lines : (\A i \in LineChanges(l) : i <= seedBase) =>
            snapLines[l] = lines[l]

\* What it is about to write: under open keys, over nothing.
SeedRows ==
    /\ apart /\ seedPc \in {"truncate", "write"} => \A p \in Products :
            /\ seedVersion[p] <= version[p]
            /\ (\E l \in SnapshotJoin : l[2] = p) => seedVersion[p] > 0
    /\ apart /\ seedPc = "write" => \A k \in FactKeys : facts[k] = None

SeedInv == SourceInv /\ SourceGone /\ KnownOrders /\ SeedSnapshots /\ SeedRows

(* Then what a run holds while nothing is mixed up, as in DeletionInv and  *)
(* RunInv but for what is lost.                                            *)

Whole(S) == S \cap lost = {}

StagedByRun ==
    pc \notin {"idle", "clear"} => \A i \in staged :
        /\ HasLanded(log[i].table)
        /\ pc \in StageOne \/ (pc = "ordersInsert" /\ attempt = 0) => ~Acknowledged(i)

\* From a change in staging on, every later one of its table that is
\* acknowledged, before another staged one, or in the window is staged too.
NoGaps ==
    pc \notin {"idle", "clear"} => \A i \in staged, m \in 1..captured :
        /\ log[m].table = log[i].table /\ i <= m
        /\ \/ Acknowledged(m)
           \/ \E k \in staged : log[k].table = log[i].table /\ m <= k
           \/ ~IsEmpty(window[log[i].table]) /\ Lsn(m) <= window[log[i].table].to
        => m \in staged \/ m \in lost

SnapshotsHeld ==
    /\ pc \in StageTwo \cup {"snapLines"} =>
        /\ \A o \in Affected :
            /\ orders[o] # None => snapOrders[o] # None
            /\ Read(OrderChanges(o)) /\ Whole(OrderChanges(o)) => snapOrders[o] = orders[o]
        /\ \A i \in OrderDeletes \ lost :
            Acknowledged(i) \/ i \in staged => snapOrders[log[i].order] = None
    /\ pc \in StageTwo =>
        /\ \A l \in Lines : l[1] \in Affected /\ Read(LineChanges(l)) /\ Whole(LineChanges(l)) =>
                snapLines[l] = lines[l]
        /\ \A i \in OrderDeletes \ lost :
            Acknowledged(i) \/ i \in staged =>
                \A p \in Products : snapLines[<<log[i].order, p>>] = None

DeletesHeld ==
    \A i \in OrderDeletes \ lost :
        Acknowledged(i) \/ (i \in staged /\ pc \in Marking) => NotLive(log[i].order)

\* The newest row of a line is the source's, but for what is lost of it.
LinesHeld ==
    \A l \in Lines \ coalesced : Whole(LineChanges(l)) =>
        /\ GoneLine(l)
        /\ Whole(OrderChanges(l[1])) => PresentLine(l)

HeldInv == /\ StagedByRun /\ NoGaps /\ SnapshotsHeld /\ MixedUpKnown
           /\ DeletesHeld
           /\ KeysOpened /\ LinesHeld

SeedRepairInv == SeedInv /\ (~mixed => HeldInv)

=============================================================================
