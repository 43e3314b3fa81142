# Northwind Data Platform in TLA+

The platform carries a Northwind database (SQL Server) through PostgreSQL staging
tables into a ClickHouse star schema, with Airflow scheduling and Spark doing the
work. Dimensions are reloaded nightly with slowly-changing-dimension (SCD) rules;
facts follow every half hour by change data capture (CDC). Nothing in it is
transactional across two systems: correctness rests on the order of statements, on
watermarks written last, on ReplacingMergeTree keys and on retries that start over.
That is what these modules are about.

- [Inventory](#inventory): the system's parts, their state and what is hard about them
- [Modules](#modules): what models what
- [Runs](#runs): what TLC checks, the bounds, the fairness
- [Findings](#findings): where code and comments disagree
- [Proofs](#proofs): what TLAPS proves, and how
- [Not modelled](#not-modelled-and-simplifications)
- [Plan](#plan)

## Inventory

| Component | State | Operations | Hard part |
|---|---|---|---|
| **SQL Server source and CDC** (external; `sql/01_op`) | `Orders`, `[Order Details]`, change tables, capture position, 3-day retention | clerks' inserts, updates, deletes; the capture job; the cleanup job | capture lags commits; the two tables are captured together but read apart; changes expire |
| **CDC reader and watermark** (`common/cdc_reader.py`, `04_etl_settings`) | one LSN per table in `CDC_State` | `get_cdc_window`, `read_changes`, `split_by_operation`, `write_watermark`, `cdc_is_healthy` | window bounds off by one; the order of changes is dropped when a window is split by operation |
| **Fact stage one** (`staging/op_to_staging_facts.py`) | six operation tables, `staging_orders`, `staging_order_details` | truncate, two windows, landing, snapshot of the affected orders in two queries | windows and snapshot are taken at four different moments |
| **Fact stage two** (`dw/staging_to_dw_facts.py`) | `FactOrders` (ReplacingMergeTree) | five applications, tombstones of deleted orders, two watermark writes, a report | a crash between any two; keys are looked up at write time |
| **Incremental DAG** (`fact_orders_incremental_dag.py`) | task, attempt, XCom | two tasks, retries, timeout, `max_active_runs=1` | a retry repeats a task with the XCom of the first one |
| **Inferred members** (`common/inferred_member.py`) | rows in a dimension | `create_inferred_members` between two lookups | a second writer of a table the nightly load also writes |
| **SCD engine** (`common/scd_utils.py`) | none of its own | `next_surrogate_key`, `assign_surrogate_keys`, `load_current_dimension`, `apply_scd` | keys by `max + 1`, without a lock |
| **Dimension loaders** (`dw/staging_to_dw.py`) | eight dimension tables, the employee bridge | `_write_type2_dimension` (three or four inserts), geography, hierarchy, bridge | a crash between closing a version and opening the next |
| **Dimension staging and its DAGs** (`op_to_staging.py`, two DAGs, `datasets.py`) | dimension staging tables, two Airflow datasets | truncate and load; dataset-triggered load in a task graph | a lazy JDBC query is read again at every Spark action |
| **Seed DAG** (`fact_orders_initial_dag.py`) | shares staging and `FactOrders` with the incremental DAG | full snapshot, truncate, reload | nothing keeps the two DAGs apart |
| **Photo lake** (`photo_generator.py`, its DAG) | files, a catalogue table | write files, register them, verify | files and catalogue can disagree, and verification only logs it |
| **DimDate** (`dim_date.py`), **ETL log**, **dashboards**, **deployment** | | pure calendar; append-only log; reads; one-off scripts | |

How they interact: the source's commits reach the incremental DAG only through the
change tables and `CDC_State`; stage one hands its two windows to stage two by XCom
and its rows through PostgreSQL; stage two resolves product, customer and employee
keys against dimensions that the nightly load rewrites meanwhile, and inserts stubs
into them; the nightly load is triggered by a dataset the dimension staging DAG
publishes.

What makes each correct: every committed change is applied before it is
acknowledged, and is acknowledged eventually; a caught-up warehouse equals the
source; a deleted order stays deleted; at any instant one version of a member is in
force; surrogate keys are distinct and go on meaning the same member; closed
versions never change. `PROJECT.json` lists, under `hazards`, where in the code each
of these can go wrong.

## Modules

### FactPipeline - the incremental fact load

One module, because its parts share one program counter and everything interesting is
between its steps: source, capture, both stages, the DAG and the two tables.

| State | Code |
|---|---|
| `orders`, `lines`, `log`, `captured` | the two source tables, the commits in LSN order, the prefix the capture job has published |
| `wm` | `CDC_State`, NULL at first |
| `pc`, `attempt`, `window` | the statement a task is at, Airflow's attempt, the two `CdcWindow`s in XCom |
| `staged`, `snapOrders`, `snapLines` | the six operation tables (as positions of `log`) and the two snapshot tables |
| `version`, `facts` | how many keys a product has; `FactOrders FINAL` by `(order, product)` and key, tombstones included |
| `applied`, `coalesced` | history variables, see below |

Each statement of `load_cdc_window`, `load_snapshot` and `incremental_load` that
touches shared state is one action, so that commits, captures, product versions and
failures fall between any two of them. `Fail` covers exceptions, killed workers and
timeouts: the task starts over (`TaskStart`) until its retries are spent, then the run
is over and the next begins with stage one. Rows of one insert share one `_version`,
so `WriteToDw` picks any survivor among those of one key. LSNs are `2 * position`, so
that `fn_cdc_increment_lsn` of a commit lies strictly before the next one.

`applied` records which changes stage two has processed. A line change whose order is
not in the snapshot joins to nothing, and counts as processed: that is the code's
decision, and `ConvergesUnlessCoalesced` and `DeletedOrderGone` judge its effect.
`coalesced` collects the lines for which one window held changes whose mutual order
matters and which the split lost; that case is stated, and refuted, separately.

### CdcDelivery - what the pipeline promises

At-least-once delivery: a log, positions applied (any number of times), and positions
acknowledged, a prefix of one table at a time, only after they were applied.
`FactPipeline!ImplementsDelivery` is the refinement, with `acked` mapped to the
positions at or below their table's watermark.

### ScdDimension - one type-2 dimension and its two writers

The nightly load (`_write_type2_dimension`, one action per insert) and the fact load's
stub creation (lookup, key, insert, second lookup) over one table with ClickHouse's
semantics: one row per `(business key, start_date)`, the newest `_version` visible
through `FINAL`, but `max(key)` asked without it, so replaced rows count until a merge
drops them (`ghosts`, `Merge`). Attributes are abstracted to one of each kind.
`LoadFails` and `FactLoadFails` stop either writer between any two statements; the
next load has a later `run_time` (retries lie five minutes apart).

Time is a clock at the one-second resolution of `start_date`; it is read when
`_now()` or `utcnow()` is called. Two readings may give the same second. `Insert` lets
a later insert win; a stub's `_version` is its second in milliseconds, so it loses
against a row already stamped in that second (`InsertStubs`).

`overlapped` records the members that a fact load with missing keys worked on while
the nightly load ran, or in whose second a load took its `run_time`. The safety
properties are about the others: the two writers take no lock, and for the overlapped
ones `FreshKeys` and `ForeignKeysValid` show what happens. `EnrichedAfterLoad` has no
such exception.

FactPipeline's `NewVersion` is this whole load as one step, and its `OpenVersion` the
stub; the steps inside matter for the dimension, whereas facts only see which key is open
when they are written. The closed-but-not-opened gap, in which a lookup gives key 0, is
therefore only in ScdDimension.

### FactSeed - the seed DAG beside the incremental one

Extends FactPipeline with the second DAG that uses the same staging tables and
`FactOrders`, and with two things that only matter now and then: change tables that
expire, and stage two run by hand.

| State | Code |
|---|---|
| `seedPc`, `seedAttempt`, `seeds` | the statement a seed run is at, Airflow's attempt, runs so far |
| `seedVersion` | the product keys that `_transform` looked up, in memory until the rows are written |
| `cleaned` | the change up to which the cleanup job has dropped the change tables |
| `apart`, `mixed`, `base`, `lost` | history variables, see below |

The incremental DAG's actions are FactPipeline's, conjoined with what retention does to
each read. The cleanup job runs at any time; since only a reader of the change tables can
tell, `cleaned` moves (forward, by any amount) in the steps that read them. A first
window starts at the minimum LSN and so passes over what was dropped (`ReadWindow`); a
window that begins before the minimum raises (`ReadExpired`), on every retry and every
later run, since the watermark stays where it is. `RunByHand` is `__main__` of stage two:
it computes the windows anew instead of taking those that stage one landed.

The seed reads staging twice, to count and to write, because Spark's query is lazy;
what it truncates and writes is therefore decided by the snapshot tables as they are
*then* (`SeedTransform`, `SeedTruncate`, `SeedWrite`).

`apart` says that no incremental run was active since this seed began, `mixed` that the
DAGs did overlap or a seed stopped behind its truncation, until a seed that was apart has
written. `base` is the log position that such a seed's snapshot surely holds, and `lost`
the changes passed over because they had expired before their table had a watermark or
because a run by hand skipped them, until a later window reads them after all.
`MissedOnlyIfLost` turns these into a claim: *nothing else* loses a change.

That a change was *applied* does not save it from being lost, which the proof of
`SeedRepairs` brought to light; an earlier form of `lost` left applied changes out, and TLC
refutes the property for it with three commits and two failures. The very first run finds two
updates of a line in one window, leaves the line at the older one (finding 1) and fails before
it has written both watermarks. The next run would put that right, since the cleanup has dropped
the older update by then and the newer one comes alone; but it fails before it applies it, and
the newer one expires too. A third run passes over both and acknowledges what came after them:
the line stands at the older value, and only its next change or a seed corrects it.

### DimensionDag - the two nightly DAGs

From the source tables through staging to all eight dimensions and the bridge.

| State | Code |
|---|---|
| `src` | the source tables |
| `stRun`, `stTask`, `staging` | the staging DAG's run, its eight tasks, the staging tables |
| `pending` | the dataset `STAGING_DIMENSIONS` has an event no run has consumed |
| `whRun`, `whTask`, `current` | the warehouse DAG's run, its nine tasks, the open rows each type-2 loader holds in memory |
| `table`, `geography`, `bridge` | the versions of each member of each dimension, `DimGeography`, `FactEmployeeTerritories` |
| `part` | which of the DAG's independent parts the behaviour is about |
| `clean`, `torn`, `events` | history variables and the event budget |

A staging loader truncates and then runs its query (two steps). A type-2 loader fetches
the open rows and the keys it looks up, and keeps them; but its comparison with staging is
lazy and runs again for the closing and for the opening insert (`FetchAndInsert`,
`CloseVersions`, `OpenVersions`). A task may fail before or between its statements; it then
starts again, or has used up its retries, and what is downstream of it never runs in this
run (`Running`, `EndWarehouse`). Where `ScdDimension` asks how one load writes one dimension
(keys, clock, each insert), this module asks what the loads make of *each other's* results:
geography before the tables with addresses, suppliers before products, employees before
their hierarchy, both before the bridge. A surrogate key is therefore simply the pair of
member and version number, and the inserts of new rows and of type-1 changes are one step.

TLC found one thing here that is worth knowing, and that the properties are worded around:
if staging is reloaded while a warehouse load is between closing and opening, a member that
had not changed a moment ago can be opened without having been closed. It then has two open
rows; every lookup of it finds two keys; and whatever refers to it is versioned again every
night, since one of the two keys always differs. Nothing repairs this until the member
itself changes. `OneOpenVersion` and `EventuallyAgrees` hence ask that the two DAGs took
turns (`~torn`), which their schedule makes likely and nothing enforces. `AgreesAfterRun`
asks only that the run at hand was not overlapped.

`MCFactPipeline`, `MCFactSeed`, `MCScdDimension` and `MCDimensionDag` give constants their
values; mutated operators stand next to the definition they mutate, and are not part of any
specification.

## Runs

| Run | Shows |
|---|---|
| `fact_pipeline` | with three commits, two product versions, two failures and one retry from a seeded line: `NoSkippedChange`, `ConvergesUnlessCoalesced`, `DeletedOrderGone`, `ImplementsDelivery`, `TypeOK` |
| `fact_delivery` | from an empty source with two unknown products (stubs): convergence again, and `EveryChangeDelivered` under fairness |
| `fact_net_effect` | counterexample: two changes of one row, an order or a line, in one window |
| `fact_reprocess` | counterexample: a window applied again after a product version |
| `fact_retry` | counterexample: a retry after the watermark was written |
| `scd_dimension` | with two members, three seconds and one fact load: `EnrichedAfterLoad`, `VersionsDisjoint`, `KeysDistinct`, `FactKeysResolve`, `HistoryKept`, `TypeOK` |
| `scd_stub`, `scd_fresh_key`, `scd_foreign_key` | counterexamples about inferred members |
| `fact_seed` | one order with two seeded lines, two commits, two seeds or a seed and a failure, beside incremental and manual runs: `MissedOnlyIfLost`, `SeedRepairs`, `SeedTypeOK` |
| `dimension_dag` | each part of the dimension DAGs with three source changes or task failures, or one and an overlap: `AgreesAfterRun`, `OneOpenVersion`, `ManagerIsReportedTo`, `EventuallyAgrees`, `TypeOK` |
| `dimension_history` | counterexample: a closed version of an employee loses its manager's surrogate key |

What the properties say:

- `NoSkippedChange`: a change at or before its table's watermark has been applied.
- `ConvergesUnlessCoalesced`: once everything is acknowledged and no run is active, the
  newest row of every line has the freight of its order and its own quantity, or is
  absent or deleted with it, except on lines in `coalesced`. Each applied row joins a
  *change* to a *snapshot taken later*, by two windows with different ends; this says
  that the mixture is always repaired by a later window.
- `DeletedOrderGone`: after an order's deletion is acknowledged, no row of it is live in
  any state, the middle of a run included, under any product key.
- `EveryChangeDelivered`: every commit is eventually acknowledged.
- `EnrichedAfterLoad`: when a load ends, every member in staging has an open row with
  its attributes, whatever stubs and half-finished loads it found.
- `VersionsDisjoint`: no two versions of a member are in force at one instant.
- `KeysDistinct`, `FactKeysResolve`: keys are unique, and a fact's key denotes its own
  member for ever.
- `HistoryKept`: no step changes a stored row's key or type-2 attribute, or anything of
  a closed row.
- `MissedOnlyIfLost`: an acknowledged change is in the warehouse (applied, or held by the
  last seed) unless the two DAGs were mixed, it expired before its table had a watermark, or
  a run by hand passed over it. With a watermark, an outage longer than the retention fails
  loudly and loses nothing.
- `SeedRepairs`: after a seed that was alone, and with everything acknowledged, every line's
  newest row is the source's, whatever was lost, coalesced or mixed before; only lines of
  which a change was lost or coalesced *since* are left out. The seed never
  sets the watermark, so the incremental runs after it replay old changes over its rows;
  this says that the replay does no harm.
- `AgreesAfterRun`: a warehouse run that succeeded without a staging run in between leaves
  every staged member with an open row that says what staging says and carries keys that are
  open now, all staged addresses resolved, and the bridge equal to the join of its sources;
  whatever failed, was retried or was left behind before.
- `OneOpenVersion`: no member has two open rows while the DAGs take turns.
- `ManagerIsReportedTo`: no row, open or closed, in any state carries the key of someone the
  row's employee did not report to. Pass one resets the key to 0 for this reason.
- `EventuallyAgrees`: without overlaps, once the source is still and failures are over, the
  dimensions come to agree with the source and stay so, and the bridge does again every
  night.

**Bounds.** *Facts*: one order and one or two lines, because rows of different orders
never meet (every join, key and tombstone is per order), while two lines of an order do.
Three commits are what it takes for order, line and a change or deletion of either to
fall into different windows; two failures allow one exhausted retry and a new run that
fails again or a double retry; two versions make a closed key. *Dimensions*: two members
are needed for a shared key, three seconds for a version to be closed by a load that
crashes and repaired by the next one. One member's type-1 attribute is held fixed in
`scd_dimension` (both of the other's change); the two members' attributes never meet in
the code. Values of an attribute are only compared for equality, hence the symmetry set.
`scd_*` runs switch deadlock checking off because the clock and the number of fact loads
are bounded: a state at both bounds, with both writers idle, has no step. The fact runs
keep it on.

*Seed*: two lines of one order, because the tombstones of a deleted order and a line's own
deletion meet in it; two commits, so that one lies before a snapshot and one after it, or
one on each side of a window; one version of each product (versions are FactPipeline's
subject). `MaxIncidents` allows two seeds or a seed and a failure, and `StillRepairable`
cuts off states in which the last seed was mixed up, where the properties claim nothing.
What this run is too small for is a change that was applied and then lost (see FactSeed above):
that takes three commits and two failed runs, which together with seeds take TLC too long. The
same properties hold in the instance without seeds that has them (`MaxTx = 3`,
`MaxFailures = 2`, `Retries = 0`, `MaxSeeds = 0`, one product, one seeded line; no constraint,
4.1 million states), and the theorems cover both.
*Dimension DAGs*: the task graph falls into parts that share no table but geography
(suppliers and products; customers, with shippers; employees, territories, hierarchy and
bridge), so each behaviour is about one of them. Two suppliers let a product move between
them, two employees are one manager and one report. An overlap counts as two of the three
events. `MaxVersions` bounds a member's versions when a warehouse run begins; runs of the
staging DAG go on, so it never ends a behaviour.

**Fairness** (`FairSpec` of FactPipeline, only for `EveryChangeDelivered`): weak fairness of the capture
job (SQL Server Agent restarts it), of `StartRun` (the schedule has no end) and of the
run's own next step. Nothing is assumed of clerks, of the dimension load, or of failures,
except that the bound makes them finitely many; with failures for ever nothing can be
delivered, and the code makes no such promise. `FairSpec` of DimensionDag, for
`EventuallyAgrees`: weak fairness of each DAG as a whole, because the nightly schedule starts
the one and its dataset event the other, and a worker goes on with any task that is ready.
Within a DAG no task is preferred: a run ends only when nothing is left that could run.

## Findings

Each is a sentence of the repository that TLC refutes; `PROJECT.json` quotes them in full.

1. `NetEffectResolved` - "the pipeline resolves net effect itself from the raw rows"
   (`01_enable_cdc.sql:48-50`). The split by operation drops the order, the tables are
   applied insert, update, delete, and two updates share a `_version`.
2. `OneLiveRowPerLine` - "Reprocessing is harmless because the fact table deduplicates on
   (order_id, product_key)" (`cdc_reader.py:7-8`). The product key is looked up again
   and may be another one. (The orders' and the lines' rows of one single run look it up
   twice, too; the run's instance leaves that out, so that only a second application can do it.)
3. `FailedRunSafeToRetry` - "nothing is marked as processed until it actually is"
   (`04_etl_settings/00_create_etl_settings.sql:37-39`). The task can fail after the
   watermark was written, and its retry may stop half way through.
4. `StubFilledIn` - the stub "takes the type 1 path" (`inferred_member.py:10-12`). Its
   type-2 attributes are blank too, so it is closed, blank, and facts keep pointing at it.
5. `FreshKeys` - "insert with a fresh surrogate key" (`scd_utils.py:7`). Two writers read
   the same maximum.
6. `ForeignKeysValid` - "The order lands with a valid foreign key"
   (`inferred_member.py:9-10`). Between the closing and the opening insert of a version
   the lookup finds nothing and 0 is written.
7. `ClosedAsStored` - "Close: reinsert the stored version with end_date set to now"
   (`staging_to_dw.py:624`). The stored columns come back, `reports_to` among them, except that
   `with_defaults` sets `parent_employee_key` to 0, as the root's. The closed version still
   names the manager, but is no longer joined to a row of his.

Two sentences are contradicted without a run of their own, because the states concerned
are exactly those that `mixed` and `lost` describe: `initial_load` says "the DAGs keep the
two apart" (`staging_to_dw_facts.py:295`), but `max_active_runs` limits each DAG by
itself; and the manual entry point is "Safe here because both stages run seconds apart by
hand" (`:472`), which a commit captured in those seconds disproves.

## Proofs

A theorem holds for every value of the constants that the assumptions allow: any sets of
orders, products, members and values, any bounds. All the invariants named here were model-checked
in the instances of the runs before they were proved.

| Module | Theorem | Statement |
|---|---|---|
| `FactPipelineProofs` | `TypeCorrect` | `Spec => []TypeOK` |
| | `DeliveryInvariant`, `NeverSkips` | `Spec => []DeliveryInv`, `Spec => []NoSkippedChange` |
| | `Refinement` | `Spec => ImplementsDelivery`: the pipeline implements `CdcDelivery` |
| | `DeletionInvariant`, `DeletedOrdersStayDeleted` | `Spec => []DeletionInv`, `Spec => []DeletedOrderGone` |
| `FactConvergenceProofs` | `ConvergenceInvariant` | `Spec => [](SourceInv /\ RunInv /\ ConvergenceInv)` |
| | `Converges` | `Spec => []ConvergesUnlessCoalesced` |
| `FactSeedProofs` | `SeedTypeCorrect` | `SeedSpec => [](TypeOK /\ SeedTypeOK)` |
| | `SeedDeliveryInvariant`, `MissesOnlyTheLost` | `SeedSpec => []SeedDeliveryInv`, `SeedSpec => []MissedOnlyIfLost` |
| `FactRepairProofs` | `SeedRepairInvariant`, `SeedsRepair` | `SeedSpec => []SeedRepairInv`, `SeedSpec => []SeedRepairs` |
| `ScdDimensionProofs` | `TypeCorrect`, `ScdInvariant` | `Spec => []TypeOK`, `Spec => []ScdInv` |
| | `OneVersionInForce`, `KeysAreDistinct` | `Spec => []VersionsDisjoint`, `Spec => []KeysDistinct` |
| | `FactsKeepTheirMember`, `Enriches` | `Spec => []FactKeysResolve`, `Spec => []EnrichedAfterLoad` |
| | `HistoryIsKept` | `Spec => HistoryKept`, an action property |
| `DimensionDagProofs` | `ManagersAreReportedTo` | `Spec => []ManagerIsReportedTo` |
| `DimensionLoadProofs` | `DagTypeCorrect` | `Spec => []TypeOK` |
| | `VersionsInvariant`, `OneVersionOpen` | `Spec => [](TurnsInv /\ VersionsInv)`, `Spec => []OneOpenVersion` |
| | `LoadedInvariant`, `AgreesWithStaging` | `Spec => [](TurnsInv /\ LoadedInv)`, `Spec => []AgreesAfterRun` |

**Assumptions.** *FactPipeline*: `NoneAssumption` (the NULL value is no datum),
`SeedAssumption` and `BoundsAssumption`, which only types the bounds; *FactSeed*:
`SeedBoundsAssumption`, likewise. *ScdDimension*: `SourceAssumption`
types the source, `ValuesAssumption` and `NoneAssumption` set the blank and NULL values
apart, `BoundsAssumption` types the bounds, and `MembersAssumption` says that business keys
are numbers and finitely many, since new rows draw their keys in that order. *DimensionDag*: `InitialAssumption` and
`AttributesAssumption` type the source; `ReferencesAssumption` is its foreign keys (an
address that is staged, a product's supplier, an employee's manager); `PartsAssumption` says
that a part with employees has the pass that resolves their managers, as the DAG's graph
does. No set but `ScdDimension`'s members is assumed finite.

*Delivery* (FactPipeline). `NoSkippedChange` is not inductive: the step that writes a
watermark must know that everything up to the window's end was applied, and by then nothing
in the state says what the window covered but the window itself. `DeliveryInv` therefore
follows a run: neither watermark nor window passes what is captured (`WithinCaptured`); a
window that was read begins no later than the change after the watermark, *also after its
own end has been written*, which is the state of a retry behind `markOrders`
(`WindowsJoin`); from landing on the window's changes are staged (`Landed`); and by the step
the run is at, the staged changes of the operations before it are applied (`Applied`). A
failure goes back to a step that claims less, so every retry keeps the invariant. The
refinement then needs only case analysis: `MarkOrders` and `MarkDetails` are `Acknowledge`,
the six applications are `Apply`, commits are `Commit`, all else stutters.

*Deletion* (FactPipeline). `DeletedOrderGone` needs three facts besides `DeliveryInv`: an
order id is never used again, so a deleted order and its lines have left the source for good
(`SourceGone`); a snapshot taken after the deletion was staged or acknowledged therefore
lacks it (`SnapshotGone`); and from the tombstones on its rows are not live
(`WarehouseGone`). Every application in between joins to that snapshot, and so writes
nothing for it. This is also why a window of its lines, read again after a failed run,
cannot bring a row back.

*Convergence* (FactPipeline). `ConvergesUnlessCoalesced` says something only when nothing is
left to read, and the step that gets there, a watermark or the end of a run, writes no row:
the rows are written long before, with freights and quantities from a snapshot
that may be newer than the change being applied, and a retry writes them all once more. Its
invariant has three parts, on top of the two above.
`SourceInv` ties the log to the source: the last change of an order or a line says what the
source holds, an insert follows a deletion, an order that is absent was deleted or never
known.
`RunInv` says what a run carries: only its own windows' changes (`StagedFromWindows`), none
acknowledged before stage two, since a window begins at the watermark
(`WindowsFromWatermarks`); a snapshot that equals the source for every order and line whose
changes have all been read (`SnapshotsCurrent`), so that a snapshot that is too new is one whose
newer change comes in a later window and brings its own row; and that a line which is not
`coalesced` has staged changes of which the last says what is due (`MixedUpKnown`).
`ConvergenceInv` then states when the newest row must be right: when every change of the line,
and of its order, is acknowledged or staged (`Settled`) and the last staged one has been
applied. The last one is enough because what an operation writes after it agrees with it:
staged deletions go last, an insertion is the first of its order, and the orders side joins
to the line's snapshot. A line that is gone has a clause of its own (`GoneLine`) because it needs only
its own changes to be settled, and must not be revived by its order's. A retry goes back to
`ordersInsert`, where nothing has been applied and thus nothing is due, except that a retry
after a watermark was written applies *acknowledged* changes once more; there the newest row was right
before, and stays right as long as at most one staged change touches it (`AppliedAgain`).
That is what `HalfReapplied` excuses, and no more. `KeysOpened` says that no row stands under a key
newer than the open one, so whatever is written is the newest row.

*Delivery beside a seed* (FactSeed). `SeedDeliveryInv` is `DeliveryInv` for changes that may
also be in a seed or lost. Windows need no longer begin where the watermark ends (a first
read begins at the minimum LSN, a run by hand where it likes), so `WindowsJoin` gives way to
`WindowsCover`: whatever lies before a window's end is applied, in `base`, lost, staged, or
still to be landed by this run. Truncating the facts resets `applied`; that this drops
nothing is `SeedCovers`, the snapshot of a seed that has been alone holds every acknowledged
change, and `OverlapMixes`, two DAGs that are active at once are `mixed` and nothing is
claimed. `WindowsStart`, proved first and in mixed states too, says that a table's window
begins right after its watermark until stage one ends and never ends before it. The
incremental steps are FactPipeline's, so its lemmas are used for them.

*Repair by a seed* (FactSeed). `SeedRepairInv` has a part that always holds and one that holds
while nothing is mixed up. The first, `SeedInv`, is about the seed: `SourceInv` and
`SourceGone` as before; a snapshot, however mixed, has no order the source never knew
(`KnownOrders`); the snapshot of a seed that has been alone equals the source for all whose
changes lie at or before `seedBase` (`SeedSnapshots`), though orders and lines are read in two
queries and commits fall between; and it is written under open keys over an empty table
(`SeedRows`). So in the step that ends `mixed`, `base` is such that everything at or before it
is right and everything acknowledged is at or before it.
The second, `HeldInv`, is FactPipeline's `DeletionInv`, `RunInv` and `ConvergenceInv` once more,
but for what is lost. What is lost of a line is also missing from what a run knows of it,
hence `Whole` before each claim about an order's or a line's changes. A window no longer holds every
change up to its end, so the last staged change stands for all before it only by `NoGaps`:
from a staged change on, every later one of its table up to the window's end is staged too,
or lost. That nothing acknowledged is staged before stage two (`StagedByRun`) comes from
`WindowsStart`. `LinesHeld` uses the clauses `GoneLine` and `PresentLine` of
`ConvergenceInv`, whose lemmas apply to both. The replay after a seed, which never sets the
watermark, needs no clause of its own: a change that the seed holds and no watermark covers is
not `Settled`, so nothing is claimed of its line until a run has staged and applied it, and
that run joins it to a snapshot of its own.

*A dimension and its two writers* (ScdDimension). None of the five invariants is inductive.
`ScdInv` says what each writer may rely on between any two of its statements although
the other may come between them, for the members that are not `overlapped`: what the load has
fetched is still so, and the second of its `run_time` and the keys from `next_key` on are
still free (`LoadFresh`); what it has written is still there, which covers a load
that crashed after closing a version, since the next one finds the member without an open
row (`LoadDone`); and the fact load's missing keys are still missing, its key and second
free (`StubsFresh`). `VersionsOrdered` orders a member's versions in time, from which
`VersionsDisjoint` follows. That a maximum key exists is `KeysBounded`; that the ranks drawn
for new rows are distinct is proved from the least element of a set of naturals (`WFMin` of
WellFoundedInduction, which takes a set where the induction theorems take an operator).

*Managers* (DimensionDag). `HierarchyInv` says that every stored row of an employee is in
`Reporting`, and types the source, the staging table and the rows a load holds in memory. Of
the latter it says nothing about managers, and need not: a row in memory may be as old as
the load, but each of the four places that write it resets the key. The hierarchy pass looks
the key up under the name that stands in the very row it writes. No assumption about overlaps
is needed, and none about whether the key is still open; that is `AgreesAfterRun`.

*One open version* (DimensionDag). `VersionsInv` says of a load between its statements that
the rows it holds are all the open ones of their members, and that the members it is about to open
a row for have none (`HeldRows`). The latter is about `Type2`, which is evaluated again when
the rows are opened, over staging and over keys that other loads write; so it survives their
steps only because `Type2` does not change, and that rests on `TurnsInv`: staging stands
still (`TakeTurns`), and a load that has begun waits for nothing any more, so what it looks
keys up in is not being written (`InOrder`, the edges of the DAG). A failed task
drops what it held and claims nothing.

*Agreement* (DimensionDag). `LoadedInv` is independent of `VersionsInv`: `AgreesAfterRun`
holds with two open versions about. From its first statement on, a load has for every staged
member an open row that says what staging says, or a row it is about to open
(`DimensionLoaded`); the three tasks that load no dimension have theirs (`GeographyLoaded`,
`ManagersResolved`, `BridgeLoaded`). Again `TurnsInv` says why nothing later undoes this:
employees are not loaded once their managers are resolved, nor employees or territories once
the bridge is being written.

**Only model-checked:** liveness under fairness (`EveryChangeDelivered`,
`EventuallyAgrees`), which the prover does not handle, nor `ENABLED`. Each counterexample run
is TLC's alone. Every invariant and safety property of the other runs is proved.

## Not modelled, and simplifications

- Source updates that change a key column: `OrderID` and the line's key are never
  updated by the application. One transaction changes one row.
- In FactSeed the seed reads its change windows and lands them in one step, since no seed
  reads those tables again. The incremental run's set of affected orders is derived from
  staging, while the code keeps it in memory, and a row whose product key was not found is
  left out rather than written under key 0: both differ only while the DAGs overlap, where
  the properties wait for the next seed. A run by hand takes the place of a scheduled run's
  stage two rather than running beside it.
- A run by hand computes its two windows in one step, so they end at the same LSN, unlike those
  that stage one computes; and the minimum LSN after a cleanup is the one right behind the last
  change dropped, where SQL Server's is the next commit's. LSNs are only compared.
- In DimensionDag the source tables have all their members from the start: members change, and
  assignments come and go, but no member is inserted or deleted. A loader's new rows are those
  of the first load and of members left without an open row, by a task that failed between
  closing and opening or by an overlap.
- DimensionDag has no fact load, hence no stubs; an employee's address is resolved like a
  supplier's and not repeated there, and the ship addresses of orders add rows to
  `DimGeography` that no dimension refers to.
- Customer, employee, shipper and geography keys of a fact are not part of its key and
  are left out of FactPipeline; ScdDimension stands for any of the type-2 dimensions.
- In ScdDimension the staging table does not change during a load; a staging run that
  overlaps a warehouse run is DimensionDag's.
- `NULL`s in a member's attributes are values like others, because the loaders coalesce
  and `apply_scd` compares null-safely.
- DimDate, the ETL log, dashboards and deployment hold no state that another component
  reads back. Neither does the photo lake: its manual DAG writes files, registers them and
  verifies them, each a whole pass that a rerun repeats; the window in which the catalogue
  describes other bytes is listed as a hazard.

## Plan

1. *FactPipeline*, *CdcDelivery* - done, all safety properties and the refinement proved.
2. *ScdDimension* - done, all its properties proved.
3. *FactSeed* - done, all its properties proved.
4. *DimensionDag* - done, all its safety properties proved.

Left, should the code around them grow: the photo lake's files and catalogue, and
stage two of the facts against `ScdDimension`'s single inserts in one module.
