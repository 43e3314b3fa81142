---------------------------- MODULE DimensionDag ----------------------------
(***************************************************************************)
(* The nightly dimension load: the DAG dim_op_to_staging copies the source *)
(* tables into staging, and its dataset event starts dim_staging_to_dw,    *)
(* whose tasks look up keys that the tasks before them created.            *)
(*                                                                         *)
(*   src        the source tables                                          *)
(*   staging    the staging tables                                         *)
(*   stRun, stTask    the staging DAG's run, and where its tasks are       *)
(*   pending    the dataset STAGING_DIMENSIONS was updated                 *)
(*   whRun, whTask    the warehouse DAG's                                  *)
(*   current    the open rows a type-2 load has fetched, by key            *)
(*   table      the versions of every member of every dimension            *)
(*   geography  DimGeography      bridge   FactEmployeeTerritories         *)
(*   part       the tasks a behaviour is about                             *)
(*                                                                         *)
(* A surrogate key is the pair of a member and the number of its version   *)
(* (ScdDimension is about how the numbers are drawn), an address its own   *)
(* key, and NoKey the 0 of a failed lookup.  A member has one attribute of *)
(* each kind: t1, which is overwritten; t2, which is versioned; and ref,   *)
(* the address, supplier or manager it refers to, versioned too.  An       *)
(* employee's address, resolved as a supplier's is, is left to t2.         *)
(*                                                                         *)
(* History variables: clean says that no staging run overlapped with the   *)
(* warehouse run so far, torn that the two DAGs have not always taken      *)
(* turns, and events counts source changes, task failures and such runs.   *)
(***************************************************************************)
EXTENDS Integers, Sequences, FiniteSets

CONSTANTS
    Parts,          \* task sets that the DAG does not connect
    Addresses,
    Members,        \* [Dimensions -> set of business keys]
    Attributes,     \* [Dimensions -> set of records: what a member may be]
    Initial,        \* the source at first
    NoKey,          \* 0: no manager, no row found
    MaxEvents,      \* bound: source changes, task failures, overlaps (twice)
    MaxVersions     \* bound: versions of a member when a run begins

Dimensions == {"shippers", "territories", "suppliers", "customer", "products",
               "employees"}
Tables     == Dimensions \cup {"geography", "assignments"}
Tasks      == Dimensions \cup {"geography", "hierarchy", "bridge"}

Pairs     == Members["employees"] \X Members["territories"]
Keys(d)   == Members[d] \X (Nat \ {0})

ASSUME PartsAssumption  == \A p \in Parts : /\ p \subseteq Tables \cup Tasks
                                            /\ "employees" \in p => "hierarchy" \in p
ASSUME BoundsAssumption == MaxEvents \in Nat /\ MaxVersions \in Nat

ASSUME AttributesAssumption ==
    \A d \in Dimensions : Attributes[d] \subseteq [t1: {r.t1 : r \in Attributes[d]},
                                                t2: {r.t2 : r \in Attributes[d]},
                                                ref: {r.ref : r \in Attributes[d]}]

\* An address is staged as such; a product has a supplier, and a manager is an
\* employee (foreign keys).
ASSUME ReferencesAssumption ==
    /\ \A d \in {"suppliers", "customer"} : \A r \in Attributes[d] : r.ref \in Addresses
    /\ \A r \in Attributes["products"] : r.ref \in Members["suppliers"]
    /\ \A r \in Attributes["employees"] : r.ref \in Members["employees"] \cup {NoKey}

ASSUME InitialAssumption ==
    /\ DOMAIN Initial = Dimensions \cup {"assignments"}
    /\ \A d \in Dimensions : Initial[d] \in [Members[d] -> Attributes[d]]
    /\ Initial["assignments"] \subseteq Pairs

VARIABLES
    src,                                                \* SQL Server
    stRun, stTask, pending, whRun, whTask,              \* Airflow
    staging,                                            \* PostgreSQL
    current,                                            \* Spark
    table, geography, bridge,                           \* ClickHouse
    part, clean, torn, events

staged    == <<stRun, stTask, staging>>
warehouse == <<whRun, whTask, current, table, geography, bridge>>
watched   == <<clean, torn>>
vars      == <<src, staged, pending, warehouse, part, watched, events>>

-----------------------------------------------------------------------------
(* Rows and keys.                                                          *)

OpenKeys(d, m) == {<<m, n>> : n \in {i \in DOMAIN table[d][m] : table[d][m][i].open}}

OpenRows(d) == UNION {OpenKeys(d, m) : m \in Members[d]}

RowOf(d, k) == table[d][k[1]][k[2]]

\* Mutant of OrNoKey: a key that is not found stays NULL.
OrNull(K) == IF K = {} THEN {<<>>} ELSE K

OrNoKey(K) == IF K = {} THEN {NoKey} ELSE K

NewRow(r) == [t1 |-> r.t1, t2 |-> r.t2, ref |-> r.ref, parent |-> NoKey, open |-> TRUE]

\* resolve_geography_keys, against DimGeography as it is now.
GeographyKeys(a) == OrNoKey({a} \cap geography)

\* _resolve_supplier_keys.
SupplierKeys(s) == OrNoKey(OpenKeys("suppliers", s))

-----------------------------------------------------------------------------
(* The source.                                                             *)

Events(n) == events + n <= MaxEvents /\ events' = events + n

Commit == Events(1) /\ UNCHANGED <<staged, pending, warehouse, part, watched>>

ChangeMember(d, m) ==
    /\ d \in part
    /\ \E r \in Attributes[d] \ {src[d][m]} : src' = [src EXCEPT ![d][m] = r]
    /\ Commit

Reassign ==
    /\ "assignments" \in part
    /\ \E p \in Pairs : src' = [src EXCEPT !["assignments"] =
                            IF p \in @ THEN @ \ {p} ELSE @ \cup {p}]
    /\ Commit

-----------------------------------------------------------------------------
(* The staging DAG: op_to_staging.                                         *)

\* The bound: no warehouse run begins any more.
Full == \E d \in Dimensions : \E m \in Members[d] : Len(table[d][m]) >= MaxVersions

\* Nightly at 22:00, or by hand.  max_active_runs counts runs of this DAG.
StartStaging ==
    /\ ~stRun /\ stRun' = TRUE
    /\ stTask' = [t \in Tables |-> IF t \in part THEN "todo" ELSE "done"]
    /\ clean' = (clean /\ ~whRun)
    /\ torn' = (torn \/ whRun \/ pending)
    /\ Events(IF whRun \/ (pending /\ ~Full) THEN 2 ELSE 0)
    /\ UNCHANGED <<src, staging, pending, warehouse, part>>

StagingStep(t, here, next, content) ==
    /\ stRun /\ stTask[t] = here
    /\ stTask' = [stTask EXCEPT ![t] = next]
    /\ staging' = [staging EXCEPT ![t] = content]
    /\ UNCHANGED <<src, stRun, pending, events, warehouse, part, watched>>

\* Every loader truncates its table, then runs its query and writes.
StagingLoad(t, query, empty) == \/ StagingStep(t, "todo", "cleared", empty)
                                \/ StagingStep(t, "cleared", "done", query)

NoRows == <<>>

\* Mutant of LoadGeography: one of the tables of the UNION is left out.
LoadGeographyWithoutCustomers ==
    StagingLoad("geography",
                {src["suppliers"][m].ref : m \in Members["suppliers"]}, {})

LoadGeography ==
    StagingLoad("geography",
                UNION {{src[d][m].ref : m \in Members[d]} : d \in {"suppliers", "customer"}},
                {})
LoadProducts    == StagingLoad("products", src["products"], NoRows)
LoadSuppliers   == StagingLoad("suppliers", src["suppliers"], NoRows)
LoadCustomers   == StagingLoad("customer", src["customer"], NoRows)
LoadEmployees   == StagingLoad("employees", src["employees"], NoRows)
LoadShippers    == StagingLoad("shippers", src["shippers"], NoRows)
LoadTerritories == StagingLoad("territories", src["territories"], NoRows)
LoadEmployeeTerritories == StagingLoad("assignments", src["assignments"], {})

\* A task fails before or between its statements.  Airflow starts it again,
\* or its retries are used up.
StagingTaskFails(t) ==
    /\ stRun /\ stTask[t] \in {"todo", "cleared"}
    /\ Events(1)
    /\ \E next \in {"todo", "failed"} : stTask' = [stTask EXCEPT ![t] = next]
    /\ UNCHANGED <<src, stRun, staging, pending, warehouse, part, watched>>

\* staging_ready, whose outlet is the dataset, runs when all eight succeeded.
EndStaging ==
    /\ stRun /\ \A t \in Tables : stTask[t] \in {"done", "failed"}
    /\ stRun' = FALSE
    /\ stTask' = [t \in Tables |-> "done"]
    /\ pending' = (pending \/ \A t \in Tables : stTask[t] = "done")
    /\ UNCHANGED <<src, staging, events, warehouse, part, watched>>

-----------------------------------------------------------------------------
(* The warehouse DAG.                                                      *)

\* Mutant of Upstream: the bridge waits for pass one only.
UpstreamWithoutHierarchy(t) ==
    CASE t \in {"suppliers", "customer", "employees"} -> {"geography"}
      [] t = "products"  -> {"suppliers"}
      [] t = "hierarchy" -> {"employees"}
      [] t = "bridge"    -> {"territories"}
      [] OTHER           -> {}

Upstream(t) ==
    CASE t \in {"suppliers", "customer", "employees"} -> {"geography"}
      [] t = "products"  -> {"suppliers"}
      [] t = "hierarchy" -> {"employees"}
      [] t = "bridge"    -> {"hierarchy", "territories"}
      [] OTHER           -> {}

Running(t) == whRun /\ \A u \in Upstream(t) : whTask[u] = "done"

\* One run consumes whatever events have come.
StartWarehouse ==
    /\ ~whRun /\ pending /\ whRun' = TRUE /\ pending' = FALSE
    /\ ~Full
    /\ whTask' = [t \in Tasks |-> IF t \in part THEN "todo" ELSE "done"]
    /\ clean' = ~stRun
    /\ UNCHANGED <<src, staged, current, table, geography,
                   bridge, part, torn, events>>

Task(t, here, next) ==
    /\ Running(t) /\ whTask[t] = here
    /\ whTask' = [whTask EXCEPT ![t] = next]
    /\ UNCHANGED <<src, staged, pending, events, whRun, part, watched>>

\* load_dim_geography inserts the addresses it does not have.
DimGeography ==
    /\ Task("geography", "todo", "done")
    /\ geography' = geography \cup staging["geography"]
    /\ UNCHANGED <<current, table, bridge>>

-----------------------------------------------------------------------------
(* A type-2 load.  The open rows and the keys it looks up stay in memory;  *)
(* the staging table is read again for every statement.                    *)

\* The key columns that can come for a reference.
Lookup(d, a) ==
    CASE d \in {"suppliers", "customer"} -> GeographyKeys(a)
      [] d = "products"                  -> SupplierKeys(a)
      [] OTHER                           -> {a}

\* A member with two open rows of what it refers to comes twice.
Incoming(d, m) == IF m \notin DOMAIN staging[d] THEN {}
                  ELSE {[staging[d][m] EXCEPT !.ref = k] : k \in Lookup(d, staging[d][m].ref)}

Differs(row, r) == r.t2 # row.t2 \/ r.ref # row.ref

\* apply_scd: each open row that changes, with what comes for it.
Type1(d, rows) ==
    UNION {{<<k, r>> : r \in {s \in Incoming(d, k[1]) :
                ~Differs(rows[k], s) /\ s.t1 # rows[k].t1}} : k \in DOMAIN rows}
Type2(d, rows) ==
    UNION {{<<k, r>> : r \in {s \in Incoming(d, k[1]) : Differs(rows[k], s)}} :
        k \in DOMAIN rows}

\* One of the records that come for each x in X: rows with one ORDER BY tuple.
Picks(X, Rows) == {f \in [X -> {y[2] : y \in Rows}] : \A x \in X : <<x, f[x]>> \in Rows}

SetRows(d, f, g) ==
    table' = [table EXCEPT ![d] = [m \in Members[d] |->
        [n \in DOMAIN table[d][m] |->
            IF <<m, n>> \in DOMAIN f THEN f[<<m, n>>] ELSE table[d][m][n]]
        \o IF m \in DOMAIN g THEN <<NewRow(g[m])>> ELSE <<>>]]

\* New members get a row.  Where only t1 differs it is overwritten, and the
\* key of an employee's manager goes back to its default.
FetchAndInsert(d) ==
    LET rows  == [k \in OpenRows(d) |-> RowOf(d, k)]
        new   == UNION {{<<m, r>> : r \in Incoming(d, m)} :
                            m \in {n \in Members[d] : OpenKeys(d, n) = {}}}
        type1 == Type1(d, rows)
        more  == Type2(d, rows) # {}
    IN  /\ Task(d, "todo", IF more THEN "close" ELSE "done")
        /\ current' = IF more THEN [current EXCEPT ![d] = rows] ELSE current
        /\ \E f \in Picks({y[1] : y \in type1}, type1), g \in Picks({y[1] : y \in new}, new) :
            SetRows(d, [k \in DOMAIN f |-> [rows[k] EXCEPT !.t1 = f[k].t1, !.parent = NoKey]], g)
        /\ UNCHANGED <<geography, bridge>>

\* Mutant of CloseVersions: end_date is set back with the other columns.
CloseVersionsStored(d) ==
    LET closed == {y[1] : y \in Type2(d, current[d])}
    IN  /\ Task(d, "close", "open")
        /\ SetRows(d, [k \in closed |-> [current[d][k] EXCEPT !.parent = NoKey]], <<>>)
        /\ UNCHANGED <<current, geography, bridge>>

\* The stored version is inserted again with its end_date set ...
CloseVersions(d) ==
    LET closed == {y[1] : y \in Type2(d, current[d])}
    IN  /\ Task(d, "close", "open")
        /\ SetRows(d, [k \in closed |-> [current[d][k] EXCEPT !.open = FALSE,
                                                             !.parent = NoKey]], <<>>)
        /\ UNCHANGED <<current, geography, bridge>>

\* Mutant of OpenVersions: the key of the manager is carried over.
OpenVersionsKeepingManager(d) ==
    /\ Task(d, "open", "done")
    /\ current' = [current EXCEPT ![d] = NoRows]
    /\ \E f \in Picks({y[1] : y \in Type2(d, current[d])}, Type2(d, current[d])) :
        table' = [table EXCEPT ![d] = [m \in Members[d] |-> table[d][m] \o
            IF \E k \in DOMAIN f : k[1] = m
            THEN LET k == CHOOSE k \in DOMAIN f : k[1] = m
                 IN  <<[NewRow(f[k]) EXCEPT !.parent = current[d][k].parent]>>
            ELSE <<>>]]
    /\ UNCHANGED <<geography, bridge>>

\* ... and then a new one, with what comes from staging by now.
OpenVersions(d) ==
    LET type2 == {<<y[1][1], y[2]>> : y \in Type2(d, current[d])}
    IN  /\ Task(d, "open", "done")
        /\ current' = [current EXCEPT ![d] = NoRows]
        /\ \E g \in Picks({y[1] : y \in type2}, type2) : SetRows(d, <<>>, g)
        /\ UNCHANGED <<geography, bridge>>

WriteType2(d) == FetchAndInsert(d) \/ CloseVersions(d) \/ OpenVersions(d)

DimShippers    == FetchAndInsert("shippers")
DimTerritories == WriteType2("territories")
DimSuppliers   == WriteType2("suppliers")
DimCustomer    == WriteType2("customer")
DimProducts    == WriteType2("products")
DimEmployees   == WriteType2("employees")

-----------------------------------------------------------------------------
(* The employees' second pass, and the bridge.                             *)

ManagerKeys(e) == IF e = NoKey THEN {NoKey} ELSE OrNoKey(OpenKeys("employees", e))

\* resolve_employee_hierarchy reads, joins and reinserts the open rows.
EmployeeHierarchy ==
    /\ Task("hierarchy", "todo", "done")
    /\ \E f \in [OpenRows("employees") -> OpenRows("employees") \cup {NoKey}] :
        /\ \A k \in DOMAIN f : f[k] \in ManagerKeys(RowOf("employees", k).ref)
        /\ SetRows("employees", [k \in DOMAIN f |->
                [RowOf("employees", k) EXCEPT !.parent = f[k]]], <<>>)
    /\ UNCHANGED <<current, geography, bridge>>

Join(pairs) == UNION {OpenKeys("employees", p[1]) \X OpenKeys("territories", p[2]) : p \in pairs}

CanBridge == OpenRows("employees") # {} /\ OpenRows("territories") # {}

BridgeNothing ==
    /\ Task("bridge", "todo", "done") /\ ~CanBridge
    /\ UNCHANGED <<current, table, geography, bridge>>

TruncateBridge ==
    /\ Task("bridge", "todo", "write") /\ CanBridge
    /\ bridge' = {}
    /\ UNCHANGED <<current, table, geography>>

\* The staging table is read when the rows are collected.
WriteBridge ==
    /\ Task("bridge", "write", "done")
    /\ bridge' = bridge \cup Join(staging["assignments"])
    /\ UNCHANGED <<current, table, geography>>

-----------------------------------------------------------------------------
\* A task that starts again looks everything up anew; what is downstream of
\* one that has failed never runs.
WarehouseTaskFails(t) ==
    /\ Running(t) /\ whTask[t] \notin {"done", "failed"}
    /\ Events(1)
    /\ \E next \in {"todo", "failed"} : whTask' = [whTask EXCEPT ![t] = next]
    /\ current' = [d \in Dimensions |-> IF d = t THEN NoRows ELSE current[d]]
    /\ UNCHANGED <<src, staged, pending, whRun, table, geography, bridge, part, watched>>

\* Nothing is running and nothing can start.
EndWarehouse ==
    /\ whRun /\ \A t \in Tasks : Running(t) => whTask[t] \in {"done", "failed"}
    /\ whRun' = FALSE
    /\ whTask' = [t \in Tasks |-> "done"]
    /\ clean' = TRUE
    /\ UNCHANGED <<src, staged, pending, events, current, table, geography,
                   bridge, part, torn>>

-----------------------------------------------------------------------------
Row(d) == [t1: {r.t1 : r \in Attributes[d]}, t2: {r.t2 : r \in Attributes[d]},
           ref: {r.ref : r \in Attributes[d]} \cup {NoKey} \cup Keys("suppliers"),
           parent: Keys("employees") \cup {NoKey}, open: BOOLEAN]

TypeOK ==
    /\ DOMAIN src = Dimensions \cup {"assignments"} /\ DOMAIN staging = Tables
    /\ DOMAIN table = Dimensions /\ DOMAIN current = Dimensions
    /\ \A d \in Dimensions : /\ src[d] \in [Members[d] -> Attributes[d]]
                             /\ staging[d] \in [Members[d] -> Attributes[d]] \cup {NoRows}
                             /\ table[d] \in [Members[d] -> Seq(Row(d))]
                             /\ DOMAIN current[d] \subseteq Keys(d)
                             /\ \A k \in DOMAIN current[d] : current[d][k] \in Row(d)
    /\ src["assignments"] \subseteq Pairs /\ staging["assignments"] \subseteq Pairs
    /\ geography \cup staging["geography"] \subseteq Addresses
    /\ bridge \subseteq Keys("employees") \X Keys("territories")
    /\ stTask \in [Tables -> {"todo", "cleared", "done", "failed"}]
    /\ whTask \in [Tasks -> {"todo", "close", "open", "write", "done", "failed"}]
    /\ {stRun, whRun, pending, clean, torn} \subseteq BOOLEAN
    /\ events \in 0..MaxEvents
    /\ part \in Parts

Init ==
    /\ src = Initial /\ events = 0
    /\ part \in Parts
    /\ stRun = FALSE /\ stTask = [t \in Tables |-> "done"]
    /\ whRun = FALSE /\ whTask = [t \in Tasks |-> "done"]
    /\ pending = FALSE
    /\ staging = [t \in Tables |-> IF t \in Dimensions THEN NoRows ELSE {}]
    /\ current = [d \in Dimensions |-> NoRows]
    /\ table = [d \in Dimensions |-> [m \in Members[d] |-> <<>>]]
    /\ geography = {} /\ bridge = {}
    /\ clean = TRUE /\ torn = FALSE

Source == (\E d \in Dimensions : \E m \in Members[d] : ChangeMember(d, m)) \/ Reassign

StagingDag ==
    \/ LoadGeography \/ LoadProducts \/ LoadSuppliers \/ LoadCustomers
    \/ LoadEmployees \/ LoadShippers \/ LoadTerritories \/ LoadEmployeeTerritories
    \/ EndStaging

WarehouseDag ==
    \/ DimGeography \/ DimShippers \/ DimTerritories \/ DimSuppliers
    \/ DimCustomer \/ DimProducts \/ DimEmployees
    \/ EmployeeHierarchy \/ BridgeNothing \/ TruncateBridge \/ WriteBridge
    \/ EndWarehouse

Next == \/ Source
        \/ StartStaging \/ StagingDag \/ \E t \in Tables : StagingTaskFails(t)
        \/ StartWarehouse \/ WarehouseDag \/ \E t \in Tasks : WarehouseTaskFails(t)

Spec == Init /\ [][Next]_vars

\* The scheduler starts a run every night and another when there is an event,
\* and tasks that are not killed go on.
Fairness == /\ WF_vars(StartStaging \/ StagingDag)
            /\ WF_vars(StartWarehouse \/ WarehouseDag)

FairSpec == Spec /\ Fairness

-----------------------------------------------------------------------------
(* Properties.                                                             *)

\* An open row of a member says what r says, with the keys of today.
Carried(d, m, r) ==
    \E k \in OpenKeys(d, m) : LET row == RowOf(d, k) IN
        /\ row.t1 = r.t1 /\ row.t2 = r.t2 /\ row.ref \in Lookup(d, r.ref)
        /\ d = "employees" => row.parent \in ManagerKeys(r.ref)

\* When a warehouse run has succeeded and no staging run came between, every
\* staged member has an open row with what staging says, every key it carries
\* is one that is open now, or 0 if there is none, addresses that were staged
\* are resolved, and the bridge is the join of the staged pairs: whatever
\* failed, was retried, or was left behind by earlier runs, overlapping ones
\* included (the edges of dim_staging_to_dw_dag).
AgreesAfterRun ==
    whRun /\ clean /\ (\A t \in Tasks : whTask[t] = "done") =>
        /\ \A d \in Dimensions \cap part : \A m \in DOMAIN staging[d] :
                Carried(d, m, staging[d][m])
        /\ staging["geography"] \subseteq geography
        /\ "bridge" \in part /\ CanBridge => bridge = Join(staging["assignments"])

\* As long as no two runs overlap, no member ever has two open versions, with
\* crashes between closing and opening, and retries (_write_type2_dimension).
OneOpenVersion ==
    ~torn => \A d \in Dimensions : \A m \in Members[d] : Cardinality(OpenKeys(d, m)) <= 1

\* In no state does an employee's row carry the key of someone it does not
\* report to: not between the two passes, not when the second one failed, and
\* not when a run overlapped with another (extra_defaults).
ManagerIsReportedTo ==
    \A e \in Members["employees"] : \A n \in DOMAIN table["employees"][e] :
        LET row == table["employees"][e][n]
        IN  row.parent = NoKey \/ row.parent[1] = row.ref

DimensionsAgree ==
    \A d \in Dimensions \cap part : \A m \in Members[d] :
        /\ Carried(d, m, src[d][m])
        /\ d \in {"suppliers", "customer"} => src[d][m].ref \in geography

BridgeAgrees == "bridge" \in part => bridge = Join(src["assignments"])

\* If the two DAGs never overlap, the dimensions end up as the source is, for
\* good, once it stops changing and tasks stop failing, and the bridge does
\* every night, when it is not being rebuilt.
EventuallyAgrees == [](~torn) => <>[]DimensionsAgree /\ []<>BridgeAgrees

(* What a comment of the code says, and what it does not do.               *)

\* staging_to_dw.py:624: "Close: reinsert the stored version with end_date set
\* to now": closing a version changes nothing else of its row.
ClosedAsStored ==
    [][\A d \in Dimensions : \A m \in Members[d] : \A n \in DOMAIN table[d][m] :
        table[d][m][n].open /\ ~table'[d][m][n].open =>
            table'[d][m][n] = [table[d][m][n] EXCEPT !.open = FALSE]]_vars

-----------------------------------------------------------------------------
(* The inductive invariant behind OneOpenVersion and AgreesAfterRun.       *)

\* Staging stands still during a clean warehouse run, and DAGs that have
\* always taken turns have had no other.
TakeTurns ==
    /\ whRun /\ clean => ~stRun
    /\ ~torn => (whRun => clean) /\ ~(pending /\ (stRun \/ whRun))

\* Only tasks of the part ever have something to do ...
PartsOnly ==
    /\ \A t \in Tasks : whTask[t] # "done" => whRun /\ t \in part
    /\ \A t \in Tables : stTask[t] # "done" => t \in part
    /\ "geography" \notin part => staging["geography"] = {}

\* ... and none has begun before what it waits for was done.
InOrder == \A t \in Tasks :
    whRun /\ t \in part /\ whTask[t] \notin {"todo", "failed"} => Running(t)

\* Between the statements of a load: the rows in memory are the open ones,
\* and where it is about to open a row there is no other.
HeldRows(d) ==
    /\ whTask[d] = "close" => \A k \in DOMAIN current[d] : OpenKeys(d, k[1]) \subseteq {k}
    /\ whTask[d] = "open" => \A y \in Type2(d, current[d]) : OpenKeys(d, y[1][1]) = {}

SingleVersion(d) == \A m \in Members[d] : \A j, k \in OpenKeys(d, m) : j = k

VersionsInv == ~torn => \A d \in Dimensions : HeldRows(d) /\ SingleVersion(d)

\* What staging says of a member is in an open row, but for the manager ...
Stored(d, m) ==
    \E k \in OpenKeys(d, m) : LET row == RowOf(d, k) IN
        /\ row.t1 = staging[d][m].t1 /\ row.t2 = staging[d][m].t2
        /\ row.ref \in Lookup(d, staging[d][m].ref)

\* ... or among what the load is about to open.
Promised(d, m) == \E y \in Type2(d, current[d]) : y[1][1] = m

DimensionLoaded(d) ==
    whTask[d] \in {"close", "open", "done"} => \A m \in DOMAIN staging[d] :
        Stored(d, m) \/ (whTask[d] # "done" /\ Promised(d, m))

GeographyLoaded == whTask["geography"] = "done" => staging["geography"] \subseteq geography

ManagersResolved ==
    "employees" \in part /\ whTask["hierarchy"] = "done" =>
        \A k \in OpenRows("employees") : LET row == RowOf("employees", k) IN
            row.ref \in Members["employees"] \cup {NoKey} => row.parent \in ManagerKeys(row.ref)

BridgeLoaded ==
    "bridge" \in part =>
        /\ whTask["bridge"] = "write" => bridge = {}
        /\ whTask["bridge"] = "done" /\ CanBridge => bridge = Join(staging["assignments"])

LoadedInv == whRun /\ clean => /\ \A d \in Dimensions \cap part : DimensionLoaded(d)
                               /\ GeographyLoaded
                               /\ ManagersResolved
                               /\ BridgeLoaded

\* What both rest on.
TurnsInv == TakeTurns /\ PartsOnly /\ InOrder
=============================================================================
