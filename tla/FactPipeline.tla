---------------------------- MODULE FactPipeline ----------------------------
(***************************************************************************)
(* The half-hourly fact DAG: committed changes of Orders and Order Details *)
(* travel through SQL Server CDC, the PostgreSQL staging tables and the    *)
(* two-stage Spark job into the ClickHouse table FactOrders, while clerks  *)
(* keep changing the source and the nightly dimension load keeps opening   *)
(* new versions of products.                                               *)
(*                                                                         *)
(*   source   orders, lines      Orders.Freight, [Order Details].Quantity  *)
(*   CDC      log, captured      one row change per commit; the capture    *)
(*                               job has published the first captured ones *)
(*   state    wm                 ETL_Settings.CDC_State                    *)
(*   staging  staged             the six operation tables, as the set of   *)
(*                               positions of log whose rows they hold     *)
(*            snapOrders,        staging_orders, staging_order_details     *)
(*            snapLines                                                    *)
(*   DAG      pc, attempt        the step the run is at, Airflow's retries *)
(*            window             the two CdcWindows, carried by XCom       *)
(*   DW       version            how many keys a product has in            *)
(*                               DimProducts; the newest one is open       *)
(*            facts              FactOrders FINAL, with tombstones visible *)
(*                                                                         *)
(* An order is abstracted to its freight and a line to its quantity: the   *)
(* one attribute of each that the fact row copies.  A surrogate            *)
(* product_key is the pair of a product and the number of its version.     *)
(***************************************************************************)
EXTENDS Integers, Sequences, FiniteSets

CONSTANTS
    Orders,         \* order ids
    Products,       \* product ids (the business key)
    Values,         \* freights and quantities
    None,           \* SQL NULL: no row, no watermark
    Seeded,         \* the lines that existed, and were seeded, before CDC
    SeedValue,      \* their freight and quantity
    Retries,        \* Airflow's retries of a task
    MaxTx,          \* bound: committed source changes
    MaxVersions,    \* bound: versions (keys) of one product
    MaxFailures     \* bound: task failures

Tables   == {"orders", "details"}
Ops      == {"insert", "update", "delete"}
Lines    == Orders \X Products
FactKeys == Lines \X (1..MaxVersions)    \* ORDER BY (order_id, product_key)

Changes == [table: Tables, op: Ops, order: Orders,
            product: Products \cup {None}, value: Values]
Rows    == [freight: Values, qty: Values, deleted: BOOLEAN]

ASSUME NoneAssumption   == None \notin Nat \cup Values \cup Products \cup Rows
ASSUME SeedAssumption   == Seeded \subseteq Lines /\ SeedValue \in Values
ASSUME BoundsAssumption == /\ Retries \in Nat
                           /\ MaxTx \in Nat
                           /\ MaxVersions \in Nat \ {0}
                           /\ MaxFailures \in Nat

VARIABLES
    orders, lines, log, captured,                   \* SQL Server
    wm,                                             \* ETL_Settings
    pc, attempt, failures, window,                  \* Airflow
    staged, snapOrders, snapLines,                  \* PostgreSQL
    version, facts,                                 \* ClickHouse
    applied, coalesced                              \* history variables

source  == <<orders, lines, log>>
staging == <<staged, snapOrders, snapLines>>
history == <<applied, coalesced>>
vars    == <<source, captured, wm, pc, attempt, failures, window, staging,
             version, facts, history>>

-----------------------------------------------------------------------------
(* Where a run is.                                                         *)

StageOne == {"clear", "orderWindow", "detailWindow", "landOrders",
             "landDetails", "snapOrders", "snapLines"}
StageTwo == {"ordersInsert", "ordersUpdate", "detailsInsert",
             "detailsUpdate", "detailsDelete", "tombstone", "markOrders",
             "markDetails", "report"}

\* The step of a task at which it starts, and starts again when retried.
TaskStart == IF pc \in StageOne THEN "clear" ELSE "ordersInsert"

\* A step of the run's own code: it leaves source, CDC and retries alone.
Step(here, next) ==
    /\ pc = here
    /\ pc' = next
    /\ UNCHANGED <<source, captured, failures>>

Within == UNCHANGED attempt         \* the next step is in the same task
Fresh  == attempt' = 0              \* the next task, or no task, follows

-----------------------------------------------------------------------------
(* CDC: positions, LSNs and windows.                                       *)

\* The LSN of a commit.  The log records of a transaction lie between two
\* commits, so fn_cdc_increment_lsn of one commit never is the next one.
Lsn(i) == 2 * i
MinLsn == 1

\* A watermark at or past a change: the pipeline will not read it again.
Acknowledged(i) == LET w == wm[log[i].table]
                   IN  w # None /\ Lsn(i) <= w

\* Mutant of IsEmpty: an LSN too early.
EmptyOneEarly(w) == w.from + 1 >= w.to

IsEmpty(w) == w.from >= w.to

FromLsn(t) == IF wm[t] = None THEN MinLsn ELSE wm[t] + 1

InWindow(t) == {i \in 1..captured : /\ log[i].table = t
                                    /\ ~IsEmpty(window[t])
                                    /\ window[t].from <= Lsn(i)
                                    /\ Lsn(i) <= window[t].to}

Staged(t, op) == {i \in staged : log[i].table = t /\ log[i].op = op}

\* Mutant of Affected: a changed line does not bring in its order.
AffectedByOrdersOnly ==
    {log[i].order : i \in Staged("orders", "insert") \cup Staged("orders", "update")}

\* The orders stage one snapshots: those of every change but order deletes.
Affected == {log[i].order : i \in staged \ Staged("orders", "delete")}

LineOf(i) == <<log[i].order, log[i].product>>

-----------------------------------------------------------------------------
(* The six operation tables carry no position: once a window is split by   *)
(* operation, the order of changes with different operations, and of two   *)
(* updates, is gone.  These are the lines a window leaves undetermined.    *)

\* Detail changes S that end with the line present, after a deletion or
\* after more than one update.
UndeterminedLines(S) ==
    {l \in Lines :
        LET h == {i \in S : LineOf(i) = l}
        IN  /\ \E i \in h : /\ \A j \in h : j <= i
                            /\ log[i].op # "delete"
            /\ \E i, j \in h : \/ log[i].op = "delete"
                               \/ i # j /\ log[i].op = "update"
                                        /\ log[j].op = "update"}

\* The lines of an order that order changes S update more than once.
UndeterminedOrders(S) ==
    {l \in Lines : \E i, j \in S : /\ i # j
                                   /\ log[i].order = l[1]
                                   /\ log[j].order = l[1]
                                   /\ log[i].op = "update"
                                   /\ log[j].op = "update"}

\* The lines a second, unfinished application of acknowledged staging rows
\* leaves at an intermediate change.
HalfReapplied ==
    {l \in Lines : \E i, j \in staged :
        /\ i # j /\ log[i].table = log[j].table
        /\ log[i].order = l[1] /\ log[j].order = l[1]
        /\ log[i].product \in {None, l[2]} /\ log[j].product \in {None, l[2]}
        /\ Acknowledged(i)}

-----------------------------------------------------------------------------
TypeOK ==
    /\ orders \in [Orders -> Values \cup {None}]
    /\ lines \in [Lines -> Values \cup {None}]
    /\ log \in Seq(Changes)
    /\ captured \in 0..Len(log)
    /\ wm \in [Tables -> Nat \cup {None}]
    /\ pc \in {"idle"} \cup StageOne \cup StageTwo
    /\ attempt \in 0..Retries
    /\ failures \in 0..MaxFailures
    /\ window \in [Tables -> [from: Nat, to: Nat]]
    /\ staged \subseteq 1..captured
    /\ snapOrders \in [Orders -> Values \cup {None}]
    /\ snapLines \in [Lines -> Values \cup {None}]
    /\ version \in [Products -> 0..MaxVersions]
    /\ facts \in [FactKeys -> Rows \cup {None}]
    /\ applied \subseteq 1..captured
    /\ coalesced \subseteq Lines

SeedRow == [freight |-> SeedValue, qty |-> SeedValue, deleted |-> FALSE]

\* CDC is enabled on a source whose rows the dimension load and the manual
\* fact seed have already carried to the warehouse; CDC_State holds NULLs.
Init ==
    /\ orders = [o \in Orders |->
                    IF \E p \in Products : <<o, p>> \in Seeded
                    THEN SeedValue ELSE None]
    /\ lines = [l \in Lines |-> IF l \in Seeded THEN SeedValue ELSE None]
    /\ log = <<>>
    /\ captured = 0
    /\ wm = [t \in Tables |-> None]
    /\ pc = "idle" /\ attempt = 0 /\ failures = 0
    /\ window = [t \in Tables |-> [from |-> MinLsn, to |-> 0]]
    /\ staged = {}
    /\ snapOrders = [o \in Orders |-> None]
    /\ snapLines = [l \in Lines |-> None]
    /\ version = [p \in Products |->
                    IF \E o \in Orders : <<o, p>> \in Seeded THEN 1 ELSE 0]
    /\ facts = [k \in FactKeys |->
                    IF k[1] \in Seeded /\ k[2] = 1 THEN SeedRow ELSE None]
    /\ applied = {} /\ coalesced = {}

-----------------------------------------------------------------------------
(* The source: clerks, one row change per transaction.                     *)

Commit(t, op, o, p, v) ==
    /\ Len(log) < MaxTx
    /\ log' = Append(log, [table |-> t, op |-> op, order |-> o,
                           product |-> p, value |-> v])
    /\ UNCHANGED <<captured, wm, pc, attempt, failures, window, staging,
                   version, facts, history>>

\* OrderID is an IDENTITY column: an id is never used again.
InsertOrder(o, v) ==
    /\ orders[o] = None
    /\ \A i \in DOMAIN log : log[i].order # o
    /\ orders' = [orders EXCEPT ![o] = v]
    /\ Commit("orders", "insert", o, None, v)
    /\ UNCHANGED lines

UpdateOrder(o, v) ==
    /\ orders[o] \notin {None, v}
    /\ orders' = [orders EXCEPT ![o] = v]
    /\ Commit("orders", "update", o, None, v)
    /\ UNCHANGED lines

\* FK_Order_Details_Orders does not cascade: the lines go first.
DeleteOrder(o) ==
    /\ orders[o] # None
    /\ \A p \in Products : lines[<<o, p>>] = None
    /\ orders' = [orders EXCEPT ![o] = None]
    /\ Commit("orders", "delete", o, None, orders[o])
    /\ UNCHANGED lines

InsertLine(l, v) ==
    /\ orders[l[1]] # None /\ lines[l] = None
    /\ lines' = [lines EXCEPT ![l] = v]
    /\ Commit("details", "insert", l[1], l[2], v)
    /\ UNCHANGED orders

UpdateLine(l, v) ==
    /\ lines[l] \notin {None, v}
    /\ lines' = [lines EXCEPT ![l] = v]
    /\ Commit("details", "update", l[1], l[2], v)
    /\ UNCHANGED orders

DeleteLine(l) ==
    /\ lines[l] # None
    /\ lines' = [lines EXCEPT ![l] = None]
    /\ Commit("details", "delete", l[1], l[2], lines[l])
    /\ UNCHANGED orders

\* The CDC capture job publishes commits in order, some at a time.
Capture ==
    /\ \E n \in captured + 1 .. Len(log) : captured' = n
    /\ UNCHANGED <<source, wm, pc, attempt, failures, window, staging,
                   version, facts, history>>

\* The nightly dimension load inserts a product, or closes its open row and
\* opens another under a new key.
NewVersion(p) ==
    /\ version[p] < MaxVersions
    /\ version' = [version EXCEPT ![p] = @ + 1]
    /\ UNCHANGED <<source, captured, wm, pc, attempt, failures, window,
                   staging, facts, history>>

-----------------------------------------------------------------------------
(* Stage one: op_to_staging_facts.                                         *)

StartRun ==
    /\ Step("idle", "clear") /\ Fresh
    /\ UNCHANGED <<wm, window, staging, version, facts, history>>

\* The health check, then the truncation of the six operation tables.
ClearStaging ==
    /\ Step("clear", "orderWindow") /\ Within
    /\ captured > 0
    /\ staged' = {}
    /\ UNCHANGED <<wm, window, snapOrders, snapLines, version, facts, history>>

\* get_cdc_window: each table asks for the maximum LSN at its own moment.
GetCdcWindow(t, here, next) ==
    /\ Step(here, next) /\ Within
    /\ window' = [window EXCEPT ![t] = [from |-> FromLsn(t),
                                        to   |-> Lsn(captured)]]
    /\ UNCHANGED <<wm, staging, version, facts, history>>

GetOrderWindow  == GetCdcWindow("orders", "orderWindow", "detailWindow")
GetDetailWindow == GetCdcWindow("details", "detailWindow", "landOrders")

Land(t) ==
    /\ staged' = staged \cup InWindow(t)
    /\ UNCHANGED <<wm, window, snapOrders, snapLines, version, facts, applied>>

LandOrders ==
    /\ Step("landOrders", "landDetails") /\ Within
    /\ Land("orders")
    /\ coalesced' = coalesced \cup UndeterminedOrders(InWindow("orders"))

LandDetails ==
    /\ Step("landDetails", "snapOrders") /\ Within
    /\ Land("details")
    /\ LET touched == {LineOf(i) : i \in InWindow("details")}
       IN  coalesced' = (coalesced \ touched)
                            \cup UndeterminedLines(InWindow("details"))

\* load_snapshot truncates both tables, then reads the affected orders ...
SnapshotOrders ==
    /\ Step("snapOrders", "snapLines") /\ Within
    /\ snapOrders' = [o \in Orders |->
                        IF o \in Affected THEN orders[o] ELSE None]
    /\ snapLines' = [l \in Lines |-> None]
    /\ UNCHANGED <<wm, window, staged, version, facts, history>>

\* ... and, in another query, their lines.  The task ends: XCom is pushed.
SnapshotLines ==
    /\ Step("snapLines", "ordersInsert") /\ Fresh
    /\ snapLines' = [l \in Lines |->
                        IF l[1] \in Affected THEN lines[l] ELSE None]
    /\ UNCHANGED <<wm, window, staged, snapOrders, version, facts, history>>

-----------------------------------------------------------------------------
(* Stage two: staging_to_dw_facts.                                         *)

\* Changed orders joined to the snapshot of their lines ...
OrderRows(op) ==
    {[line |-> x[2],
      row  |-> [freight |-> log[x[1]].value, qty |-> snapLines[x[2]],
                deleted |-> FALSE]] :
        x \in {y \in Staged("orders", op) \X Lines :
                  y[2][1] = log[y[1]].order /\ snapLines[y[2]] # None}}

\* Mutant of LineRows: the is_deleted argument is not passed on.
LiveLineRows(op) ==
    {[line |-> LineOf(i),
      row  |-> [freight |-> snapOrders[log[i].order], qty |-> log[i].value,
                deleted |-> FALSE]] :
        i \in {j \in Staged("details", op) : snapOrders[log[j].order] # None}}

\* ... and changed lines joined to the snapshot of their order.
LineRows(op) ==
    {[line |-> LineOf(i),
      row  |-> [freight |-> snapOrders[log[i].order], qty |-> log[i].value,
                deleted |-> op = "delete"]] :
        i \in {j \in Staged("details", op) : snapOrders[log[j].order] # None}}

\* _lookup_table, after create_inferred_members for the products it misses.
OpenVersion(batch, p) ==
    IF version[p] = 0 /\ \E b \in batch : b.line[2] = p THEN 1 ELSE version[p]

\* Rows of one insert carry one _version: of those with the same key any may
\* be the one that FINAL shows.
Survivors(batch) ==
    {w \in [{b.line : b \in batch} -> {b.row : b \in batch}] :
        \A l \in DOMAIN w : [line |-> l, row |-> w[l]] \in batch}

\* _transform and write_to_dw: the rows land under the keys open now, and
\* hide whatever those keys held.
WriteToDw(batch) ==
    /\ version' = [p \in Products |-> OpenVersion(batch, p)]
    /\ \E w \in Survivors(batch) :
        facts' = [k \in FactKeys |->
                    IF k[1] \in DOMAIN w /\ k[2] = OpenVersion(batch, k[1][2])
                    THEN w[k[1]] ELSE facts[k]]

ApplyOrders(op, here, next) ==
    /\ Step(here, next) /\ Within
    /\ WriteToDw(OrderRows(op))
    /\ applied' = applied \cup Staged("orders", op)
    /\ UNCHANGED <<wm, window, staging, coalesced>>

ApplyLines(op, here, next) ==
    /\ Step(here, next) /\ Within
    /\ WriteToDw(LineRows(op))
    /\ applied' = applied \cup Staged("details", op)
    /\ UNCHANGED <<wm, window, staging, coalesced>>

ApplyOrdersInsert  == ApplyOrders("insert", "ordersInsert", "ordersUpdate")
ApplyOrdersUpdate  == ApplyOrders("update", "ordersUpdate", "detailsInsert")
ApplyDetailsInsert == ApplyLines("insert", "detailsInsert", "detailsUpdate")
ApplyDetailsUpdate == ApplyLines("update", "detailsUpdate", "detailsDelete")
ApplyDetailsDelete == ApplyLines("delete", "detailsDelete", "tombstone")

\* Mutant of TombstoneDeletedOrders: only the rows of open keys.
TombstoneOpenKeys ==
    LET gone == {log[i].order : i \in Staged("orders", "delete")}
    IN  /\ Step("tombstone", "markOrders") /\ Within
        /\ facts' = [k \in FactKeys |->
                        IF /\ k[1][1] \in gone /\ facts[k] # None
                           /\ k[2] = version[k[1][2]]
                        THEN [facts[k] EXCEPT !.deleted = TRUE] ELSE facts[k]]
        /\ applied' = applied \cup Staged("orders", "delete")
        /\ UNCHANGED <<wm, window, staging, version, coalesced>>

\* Every live row of a deleted order, under whatever key, is read back and
\* reinserted with the tombstone set.
TombstoneDeletedOrders ==
    LET gone == {log[i].order : i \in Staged("orders", "delete")}
    IN  /\ Step("tombstone", "markOrders") /\ Within
        /\ facts' = [k \in FactKeys |->
                        IF k[1][1] \in gone /\ facts[k] # None
                        THEN [facts[k] EXCEPT !.deleted = TRUE] ELSE facts[k]]
        /\ applied' = applied \cup Staged("orders", "delete")
        /\ UNCHANGED <<wm, window, staging, version, coalesced>>

\* Mutant of WriteWatermark: the end of the window is read again.
WriteCurrentLsn(t, here, next) ==
    /\ Step(here, next) /\ Within
    /\ wm' = [wm EXCEPT ![t] = Lsn(captured)]
    /\ UNCHANGED <<window, staging, version, facts, history>>

\* write_watermark, with the LSN stage one read, if its window had any.
WriteWatermark(t, here, next) ==
    /\ Step(here, next) /\ Within
    /\ wm' = IF IsEmpty(window[t]) THEN wm
             ELSE [wm EXCEPT ![t] = window[t].to]
    /\ UNCHANGED <<window, staging, version, facts, history>>

\* Mutant of MarkOrders: both watermarks take the later window's end.
MarkOrdersWithDetails ==
    /\ Step("markOrders", "markDetails") /\ Within
    /\ wm' = [wm EXCEPT !["orders"] = window["details"].to]
    /\ UNCHANGED <<window, staging, version, facts, history>>

MarkOrders  == WriteWatermark("orders", "markOrders", "markDetails")
MarkDetails == WriteWatermark("details", "markDetails", "report")

\* _report_inferred only reads, but the task can still fail there.
EndRun ==
    /\ Step("report", "idle") /\ Fresh
    /\ UNCHANGED <<wm, window, staging, version, facts, history>>

-----------------------------------------------------------------------------
(* Failures: an exception, a killed worker or a timeout.  Airflow starts   *)
(* the task again, with the same XCom, until its retries are used up; then *)
(* the run has failed and the next one begins with stage one.              *)

\* Mutant of Retry: one attempt too many.
RetryOnceMore ==
    /\ attempt <= Retries
    /\ attempt' = attempt + 1
    /\ pc' = TaskStart
    /\ UNCHANGED coalesced

Retry ==
    /\ attempt < Retries
    /\ attempt' = attempt + 1
    /\ pc' = TaskStart
    /\ UNCHANGED coalesced

FailRun ==
    /\ attempt = Retries
    /\ pc' = "idle" /\ Fresh
    /\ coalesced' = IF pc \in StageTwo THEN coalesced \cup HalfReapplied
                    ELSE coalesced

TaskFails ==
    /\ Retry \/ FailRun
    /\ UNCHANGED <<source, captured, wm, window, staging, version, facts,
                   applied>>

Fail ==
    /\ pc # "idle"
    /\ failures < MaxFailures
    /\ failures' = failures + 1
    /\ TaskFails

\* cdc_is_healthy: nothing has ever been captured.
Unhealthy ==
    /\ pc = "clear" /\ captured = 0
    /\ UNCHANGED failures
    /\ TaskFails

-----------------------------------------------------------------------------
Source == \/ \E o \in Orders, v \in Values : InsertOrder(o, v) \/ UpdateOrder(o, v)
          \/ \E o \in Orders : DeleteOrder(o)
          \/ \E l \in Lines, v \in Values : InsertLine(l, v) \/ UpdateLine(l, v)
          \/ \E l \in Lines : DeleteLine(l)

RunStageOne == \/ ClearStaging
               \/ GetOrderWindow \/ GetDetailWindow
               \/ LandOrders \/ LandDetails
               \/ SnapshotOrders \/ SnapshotLines

RunStageTwo == \/ ApplyOrdersInsert \/ ApplyOrdersUpdate
               \/ ApplyDetailsInsert \/ ApplyDetailsUpdate \/ ApplyDetailsDelete
               \/ TombstoneDeletedOrders
               \/ MarkOrders \/ MarkDetails
               \/ EndRun

RunTask == RunStageOne \/ RunStageTwo \/ Unhealthy

Next == \/ Source
        \/ Capture
        \/ \E p \in Products : NewVersion(p)
        \/ StartRun
        \/ RunTask
        \/ Fail

Spec == Init /\ [][Next]_vars

\* SQL Server Agent keeps capturing, the scheduler keeps starting runs, and a
\* task that is not killed goes on.  Clerks, the dimension load and failures
\* need not do anything.
Fairness == WF_vars(Capture) /\ WF_vars(StartRun) /\ WF_vars(RunTask)

FairSpec == Spec /\ Fairness

-----------------------------------------------------------------------------
(* Safety.                                                                 *)

\* A change at or before its table's watermark has been applied: the CDC
\* reader never skips one, whatever fails, is retried, or is committed
\* between two steps of a run (cdc_reader.py, write_watermark).
NoSkippedChange ==
    \A i \in DOMAIN log : Acknowledged(i) => i \in applied

\* Nothing is left to read: every commit is captured and acknowledged.
Quiescent == /\ pc = "idle"
             /\ captured = Len(log)
             /\ \A i \in DOMAIN log : Acknowledged(i)

RowsOf(l) == {n \in 1..MaxVersions : facts[<<l, n>>] # None}

\* What the source says of a line, against the row of one of its keys.
Agrees(l, k) == IF lines[l] = None
                THEN facts[k] = None \/ facts[k].deleted
                ELSE facts[k] = [freight |-> orders[l[1]], qty |-> lines[l],
                                 deleted |-> FALSE]

\* The row written under the newest key a line has had.
NewestAgrees(l) == LET n == CHOOSE n \in RowsOf(l) : \A m \in RowsOf(l) : m <= n
                   IN  IF RowsOf(l) = {} THEN lines[l] = None
                       ELSE Agrees(l, <<l, n>>)

\* When the pipeline has caught up, the newest row of every line, freight and
\* quantity together, is the source's: joining each changed side to a later
\* snapshot of the other one loses nothing, however commits, snapshots,
\* product versions and retries interleave.  Excepted are the lines whose
\* changes one window mixed up (NetEffectResolved is about those).
ConvergesUnlessCoalesced ==
    Quiescent => \A l \in Lines \ coalesced : NewestAgrees(l)

NotLive(o) == \A k \in FactKeys :
                    k[1][1] = o => facts[k] = None \/ facts[k].deleted

\* Once the deletion of an order is acknowledged, none of its rows is ever
\* live again under any key, in the middle of a run included: neither a stale
\* snapshot nor a window of its lines read again brings one back.
DeletedOrderGone ==
    \A i \in DOMAIN log :
        log[i].op = "delete" /\ log[i].table = "orders" /\ Acknowledged(i) =>
            NotLive(log[i].order)

-----------------------------------------------------------------------------
(* The inductive invariant behind NoSkippedChange and ImplementsDelivery:  *)
(* what a run still owes the changes of its windows, by the step it is at. *)

HasWindow(t) ==
    pc \in StageTwo \cup {"landOrders", "landDetails", "snapOrders", "snapLines"}
             \cup (IF t = "orders" THEN {"detailWindow"} ELSE {})

HasLanded(t) ==
    pc \in StageTwo \cup {"snapOrders", "snapLines"}
             \cup (IF t = "orders" THEN {"landDetails"} ELSE {})

Marking == {"markOrders", "markDetails", "report"}

HasApplied(t, op) ==
    \/ pc \in Marking
    \/ t = "orders" /\ op # "delete" /\ pc \in {"detailsInsert",
            "detailsUpdate", "detailsDelete", "tombstone"}
    \/ t = "orders" /\ op = "insert" /\ pc = "ordersUpdate"
    \/ t = "details" /\ pc = "tombstone"
    \/ t = "details" /\ op # "delete" /\ pc = "detailsDelete"
    \/ t = "details" /\ op = "insert" /\ pc = "detailsUpdate"

\* Neither watermark nor window reaches past what is captured.
WithinCaptured ==
    \A t \in Tables : /\ wm[t] # None => wm[t] <= Lsn(captured)
                      /\ \E n \in 0..captured : window[t].to = Lsn(n)

\* A window that was read begins at or before the next unacknowledged LSN,
\* also once its own end has been written, and never ends before it.
WindowsJoin ==
    \A t \in Tables : HasWindow(t) =>
        /\ window[t].from <= FromLsn(t)
        /\ wm[t] # None /\ ~IsEmpty(window[t]) => wm[t] <= window[t].to

Landed == \A t \in Tables : HasLanded(t) => InWindow(t) \subseteq staged

Applied == \A t \in Tables, op \in Ops :
                HasApplied(t, op) => Staged(t, op) \subseteq applied

\* Every step of a run still covers the changes between its table's watermark
\* and its window's end, which is what lets a retry start anywhere.
DeliveryInv == /\ WithinCaptured
               /\ WindowsJoin
               /\ Landed
               /\ Applied
               /\ NoSkippedChange

(* And behind DeletedOrderGone.                                            *)

OrderDeletes == {i \in DOMAIN log : log[i].table = "orders" /\ log[i].op = "delete"}

\* A deleted order has left the source for good, and its lines with it.
SourceGone == \A i \in OrderDeletes :
                    /\ orders[log[i].order] = None
                    /\ \A p \in Products : lines[<<log[i].order, p>>] = None

\* A snapshot read after a deletion was seen does not hold the order.
SnapshotGone == \A i \in OrderDeletes :
                    Acknowledged(i) \/ i \in staged =>
                        /\ pc \in StageTwo \cup {"snapLines"} =>
                                snapOrders[log[i].order] = None
                        /\ pc \in StageTwo => \A p \in Products :
                                snapLines[<<log[i].order, p>>] = None

WarehouseGone == \A i \in OrderDeletes :
                    Acknowledged(i) \/ (i \in staged /\ pc \in Marking) =>
                        NotLive(log[i].order)

DeletionInv == SourceGone /\ SnapshotGone /\ WarehouseGone

-----------------------------------------------------------------------------
(* The inductive invariant behind ConvergesUnlessCoalesced.  First, what   *)
(* the log says of the source.                                             *)

OrderChanges(o) == {i \in DOMAIN log : log[i].table = "orders" /\ log[i].order = o}
LineChanges(l)  == {i \in DOMAIN log : log[i].table = "details" /\ LineOf(i) = l}

IsLast(k, S) == k \in S /\ \A i \in S : i <= k

\* A line needs its order, and the last change of either says what it holds.
LastChangeHolds ==
    /\ \A l \in Lines : lines[l] # None => orders[l[1]] # None
    /\ \A o \in Orders : OrderChanges(o) # {} =>
            \E k \in OrderChanges(o) :
                /\ IsLast(k, OrderChanges(o))
                /\ orders[o] = IF log[k].op = "delete" THEN None ELSE log[k].value
    /\ \A l \in Lines : LineChanges(l) # {} =>
            \E k \in LineChanges(l) :
                /\ IsLast(k, LineChanges(l))
                /\ lines[l] = IF log[k].op = "delete" THEN None ELSE log[k].value

\* An order is inserted once, a line again only after it was deleted.
InsertsFollowDeletes ==
    /\ \A o \in Orders : \A i, k \in OrderChanges(o) :
            log[k].op = "insert" => k <= i
    /\ \A l \in Lines : \A i, k \in LineChanges(l) :
            i < k /\ log[k].op = "insert" =>
                \E m \in LineChanges(l) : i <= m /\ m < k /\ log[m].op = "delete"

\* An order that is absent was deleted, or nothing is known of it.
AbsentOrders ==
    \A o \in Orders : orders[o] = None =>
        \/ \E i \in OrderChanges(o) : log[i].op = "delete"
        \/ /\ \A i \in DOMAIN log : log[i].order # o
           /\ \A k \in FactKeys : k[1][1] = o => facts[k] = None

OrdersNameNoProduct ==
    \A i \in DOMAIN log : log[i].table = "orders" => log[i].product = None

SourceInv == /\ LastChangeHolds
             /\ InsertsFollowDeletes
             /\ AbsentOrders
             /\ OrdersNameNoProduct

(* Then what a run holds: only its windows' changes, none of which was     *)
(* acknowledged before stage two; snapshots that differ from the source    *)
(* only where a change is still to be read; and which lines it mixed up.   *)

StagedIn(t) == {i \in staged : log[i].table = t}

StagedFromWindows ==
    pc \notin {"idle", "clear"} =>
        /\ \A t \in Tables : \A i \in StagedIn(t) : HasLanded(t) /\ i \in InWindow(t)
        /\ pc \in StageOne => \A i \in staged : ~Acknowledged(i)

WindowsFromWatermarks ==
    pc \in StageOne => \A t \in Tables : HasWindow(t) => window[t].from = FromLsn(t)

Read(S) == \A i \in S : Acknowledged(i) \/ i \in staged

SnapshotsCurrent ==
    /\ pc \in StageTwo \cup {"snapLines"} =>
        \A o \in Affected :
            /\ orders[o] # None => snapOrders[o] # None
            /\ Read(OrderChanges(o)) => snapOrders[o] = orders[o]
    /\ pc \in StageTwo =>
        \A l \in Lines : l[1] \in Affected /\ Read(LineChanges(l)) =>
            snapLines[l] = lines[l]

MixedUpKnown ==
    /\ pc = "landDetails" => UndeterminedOrders(StagedIn("orders")) \subseteq coalesced
    /\ HasLanded("details") =>
        \A l \in Lines \ coalesced :
            /\ l \notin UndeterminedLines(StagedIn("details"))
            /\ l \in UndeterminedOrders(StagedIn("orders")) =>
                    \E i \in StagedIn("details") : LineOf(i) = l

RunInv == StagedFromWindows /\ WindowsFromWatermarks /\ SnapshotsCurrent /\ MixedUpKnown

(* Last, the warehouse.                                                    *)

\* Nothing is written under a key that is not there yet.
KeysOpened ==
    \A l \in Lines : /\ \A n \in RowsOf(l) : n <= version[l[2]]
                     /\ RowsOf(l) # {} => \E n \in RowsOf(l) : IsLast(n, RowsOf(l))

NewestIs(l, R) == \E n \in RowsOf(l) : IsLast(n, RowsOf(l)) /\ facts[<<l, n>>] \in R

SourceRow(l) == [freight |-> orders[l[1]], qty |-> lines[l], deleted |-> FALSE]
DeletedRows  == {r \in Rows : r.deleted}

\* No change of S is left to a later run.
Settled(S) == \A i \in S : Acknowledged(i) \/ (i \in staged /\ pc \in StageTwo)

\* In stage two: the last staged change of S has been applied, or at most one
\* is staged at all, and this is not the first time.
LastApplied(S) == \E k \in S : IsLast(k, S) /\ HasApplied(log[k].table, log[k].op)
AppliedAgain(S) == /\ \A i \in S : Acknowledged(i)
                   /\ \A i, j \in S : i = j

LineDone(l)  == LastApplied(staged \cap LineChanges(l))
OrderDone(l) == /\ staged \cap LineChanges(l) = {}
                /\ LastApplied(staged \cap OrderChanges(l[1]))

\* Everything that decides about a line that is gone, or about one that is
\* there, has been written, and nothing older after it.
GoneDue(l) ==
    /\ Settled(LineChanges(l))
    /\ pc \in StageTwo => LineDone(l) \/ AppliedAgain(staged \cap LineChanges(l))

PresentDue(l) ==
    /\ Settled(LineChanges(l)) /\ Settled(OrderChanges(l[1]))
    /\ pc \in StageTwo =>
            \/ LineDone(l) \/ OrderDone(l)
            \/ /\ AppliedAgain(staged \cap LineChanges(l))
               /\ AppliedAgain(staged \cap OrderChanges(l[1]))

\* A line that is gone has no live newest row once its own changes are
\* settled, whatever happens to its order ...
GoneLine(l) ==
    lines[l] = None /\ orders[l[1]] # None /\ GoneDue(l) =>
        RowsOf(l) = {} \/ NewestIs(l, DeletedRows)

\* ... and one that is not has exactly the source's once its order's are too.
PresentLine(l) ==
    lines[l] # None /\ PresentDue(l) => NewestIs(l, {SourceRow(l)})

LinesConverge == \A l \in Lines \ coalesced : GoneLine(l) /\ PresentLine(l)

ConvergenceInv == KeysOpened /\ LinesConverge

-----------------------------------------------------------------------------
(* Liveness and refinement.                                                *)

\* Every committed change is some day acknowledged, as long as tasks fail
\* only finitely often: no window is taken for empty when it is not.
EveryChangeDelivered ==
    \A i \in 1..MaxTx : i <= Len(log) ~> (i <= Len(log) /\ Acknowledged(i))

Delivery == INSTANCE CdcDelivery
                WITH acked <- {i \in DOMAIN log : Acknowledged(i)}

\* The pipeline implements at-least-once delivery in log order.
ImplementsDelivery == Delivery!Spec

-----------------------------------------------------------------------------
(* What comments of the code say, and what it does not do.                 *)

\* 01_enable_cdc.sql:48-50: "the pipeline resolves net effect itself from the
\* raw rows": a caught-up line agrees with the source whatever its window held.
NetEffectResolved == Quiescent => \A l \in Lines : NewestAgrees(l)

\* cdc_reader.py:7-8: "Reprocessing is harmless because the fact table
\* deduplicates on (order_id, product_key)": a line has one live row at most.
OneLiveRowPerLine ==
    \A l \in Lines : \A m, n \in RowsOf(l) :
        ~facts[<<l, m>>].deleted /\ ~facts[<<l, n>>].deleted => m = n

\* 00_create_etl_settings.sql:37-39: "updates it only after the load has
\* succeeded. That ordering is what makes a failed run safe to retry": a line
\* whose deletion is acknowledged is not live once the pipeline has caught up.
FailedRunSafeToRetry ==
    Quiescent => \A l \in Lines, n \in 1..MaxVersions :
        lines[l] = None => facts[<<l, n>>] = None \/ facts[<<l, n>>].deleted
=============================================================================
