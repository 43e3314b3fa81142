------------------------- MODULE DimensionDagProofs -------------------------
(***************************************************************************)
(* ManagerIsReportedTo holds in every state of DimensionDag, with any      *)
(* members and attributes, any number of runs, failures and overlaps.      *)
(*                                                                         *)
(* The invariant says that each stored row of an employee is in Reporting, *)
(* and types what the rows are made of: the source and staging rows of     *)
(* employees, and the rows a load holds in memory, about whose manager     *)
(* nothing is known, since the load never writes it back.                  *)
(***************************************************************************)
EXTENDS DimensionDag, SequenceTheorems, TLAPS

EmployeeRecords == [Members["employees"] -> Attributes["employees"]]

Reporting == {r \in Row("employees") : r.parent = NoKey \/ r.parent[1] = r.ref}

SourceOK  == "employees" \in DOMAIN src /\ src["employees"] \in EmployeeRecords

StagingOK == /\ "employees" \in DOMAIN staging
             /\ staging["employees"] \in EmployeeRecords \cup {NoRows}

TableOK   == /\ "employees" \in DOMAIN table
             /\ table["employees"] \in [Members["employees"] -> Seq(Reporting)]

CurrentOK == /\ "employees" \in DOMAIN current
             /\ \A k \in DOMAIN current["employees"] :
                    k \in Keys("employees") /\ current["employees"][k] \in Row("employees")

HierarchyInv == SourceOK /\ StagingOK /\ TableOK /\ CurrentOK

-----------------------------------------------------------------------------
(* Rows.                                                                   *)

\* What comes for an employee is a record of its source: load_dim_employees
\* looks no key up for what ref stands for.
LEMMA IncomingTyped ==
    ASSUME StagingOK, NEW m \in Members["employees"], NEW r \in Incoming("employees", m)
    PROVE  r \in Attributes["employees"]
<1>1. m \in DOMAIN staging["employees"]
  BY DEF Incoming
<1>2. staging["employees"] \in EmployeeRecords
  BY <1>1 DEF StagingOK, NoRows
<1>3. staging["employees"][m] \in Attributes["employees"]
  BY <1>2 DEF EmployeeRecords
<1>4. PICK k \in Lookup("employees", staging["employees"][m].ref) :
            r = [staging["employees"][m] EXCEPT !.ref = k]
  BY <1>1 DEF Incoming
<1>5. k = staging["employees"][m].ref
  BY DEF Lookup
<1>6. staging["employees"][m] \in [t1: {x.t1 : x \in Attributes["employees"]},
                                   t2: {x.t2 : x \in Attributes["employees"]},
                                   ref: {x.ref : x \in Attributes["employees"]}]
  BY <1>3, AttributesAssumption DEF Dimensions
<1>7. r = staging["employees"][m]
  BY <1>4, <1>5, <1>6
<1> QED BY <1>3, <1>7

\* A new version starts without a manager (extra_defaults).
LEMMA NewRowReports ==
    ASSUME NEW r \in Attributes["employees"]
    PROVE  NewRow(r) \in Reporting
<1>1. /\ r.t1 \in {x.t1 : x \in Attributes["employees"]}
      /\ r.t2 \in {x.t2 : x \in Attributes["employees"]}
      /\ r.ref \in {x.ref : x \in Attributes["employees"]}
  OBVIOUS
<1> QED BY <1>1 DEF NewRow, Reporting, Row

LEMMA StoredRow ==
    ASSUME TableOK, NEW k \in OpenRows("employees")
    PROVE  RowOf("employees", k) \in Reporting
<1>1. PICK m \in Members["employees"] : k \in OpenKeys("employees", m)
  BY DEF OpenRows
<1>2. PICK n \in DOMAIN table["employees"][m] : k = <<m, n>>
  BY <1>1 DEF OpenKeys
<1>3. table["employees"][m] \in Seq(Reporting)
  BY DEF TableOK
<1> QED BY <1>2, <1>3 DEF RowOf

LEMMA OpenRowIsKey ==
    ASSUME TableOK
    PROVE  OpenRows("employees") \subseteq Keys("employees")
<1> SUFFICES ASSUME NEW k \in OpenRows("employees") PROVE k \in Keys("employees")
  OBVIOUS
<1>1. PICK m \in Members["employees"] : k \in OpenKeys("employees", m)
  BY DEF OpenRows
<1>2. PICK n \in DOMAIN table["employees"][m] : k = <<m, n>>
  BY <1>1 DEF OpenKeys
<1>3. table["employees"][m] \in Seq(Reporting)
  BY DEF TableOK
<1>4. n \in Nat \ {0}
  BY <1>3
<1> QED BY <1>2, <1>4 DEF Keys

\* Writing rows that report to their manager, and new rows, keeps the table.
LEMMA SetRowsKeeps ==
    ASSUME TableOK, NEW f, NEW g, SetRows("employees", f, g),
           \A k \in DOMAIN f : f[k] \in Reporting,
           \A m \in DOMAIN g : NewRow(g[m]) \in Reporting
    PROVE  TableOK'
<1> DEFINE old(m) == [n \in DOMAIN table["employees"][m] |->
                IF <<m, n>> \in DOMAIN f THEN f[<<m, n>>] ELSE table["employees"][m][n]]
           more(m) == IF m \in DOMAIN g THEN <<NewRow(g[m])>> ELSE <<>>
<1>1. "employees" \in DOMAIN table'
  BY DEF SetRows, TableOK
<1>2. table'["employees"] = [m \in Members["employees"] |-> old(m) \o more(m)]
  BY DEF SetRows, TableOK
<1>3. ASSUME NEW m \in Members["employees"] PROVE old(m) \o more(m) \in Seq(Reporting)
  <2>1. table["employees"][m] \in Seq(Reporting)
    BY DEF TableOK
  <2>2. old(m) \in Seq(Reporting)
    <3> DEFINE s == table["employees"][m]
    <3>1. Len(s) \in Nat /\ DOMAIN s = 1..Len(s) /\ \A n \in DOMAIN s : s[n] \in Reporting
      BY <2>1
    <3>2. old(m) \in [1..Len(s) -> Reporting]
      BY <3>1
    <3> HIDE DEF old, s
    <3> QED BY <3>1, <3>2, SeqDef
  <2>3. more(m) \in Seq(Reporting)
    OBVIOUS
  <2> QED BY <2>2, <2>3
<1> QED BY <1>1, <1>2, <1>3 DEF TableOK

LEMMA SetRowsElsewhere ==
    ASSUME TableOK, NEW d \in Dimensions \ {"employees"}, NEW f, NEW g, SetRows(d, f, g)
    PROVE  TableOK'
BY DEF TableOK, SetRows

-----------------------------------------------------------------------------
(* A type-2 load.                                                          *)

LEMMA FetchAndInsertKeeps ==
    ASSUME HierarchyInv, NEW d \in Dimensions, FetchAndInsert(d)
    PROVE  HierarchyInv'
<1> DEFINE rows  == [k \in OpenRows(d) |-> RowOf(d, k)]
           new   == UNION {{<<m, r>> : r \in Incoming(d, m)} :
                               m \in {n \in Members[d] : OpenKeys(d, n) = {}}}
           type1 == Type1(d, rows)
           more  == Type2(d, rows) # {}
<1>1. UNCHANGED <<src, staging>>
  BY DEF FetchAndInsert, Task, staged
<1>2. current' = IF more THEN [current EXCEPT ![d] = rows] ELSE current
  BY DEF FetchAndInsert
<1>3. PICK f \in Picks({y[1] : y \in type1}, type1), g \in Picks({y[1] : y \in new}, new) :
            SetRows(d, [k \in DOMAIN f |-> [rows[k] EXCEPT !.t1 = f[k].t1, !.parent = NoKey]], g)
  BY DEF FetchAndInsert
<1>4. CurrentOK'
  <2>1. CASE d = "employees"
    <3>1. \A k \in DOMAIN rows : k \in Keys("employees") /\ rows[k] \in Row("employees")
      BY <2>1, StoredRow, OpenRowIsKey DEF HierarchyInv, Reporting
    <3> QED BY <1>2, <2>1, <3>1 DEF HierarchyInv, CurrentOK
  <2>2. CASE d # "employees"
    BY <1>2, <2>2 DEF HierarchyInv, CurrentOK
  <2> QED BY <2>1, <2>2
<1>5. TableOK'
  <2>1. CASE d = "employees"
    <3> DEFINE written == [k \in DOMAIN f |-> [rows[k] EXCEPT !.t1 = f[k].t1, !.parent = NoKey]]
    <3>1. ASSUME NEW k \in DOMAIN written PROVE written[k] \in Reporting
      <4>1. <<k, f[k]>> \in type1
        BY DEF Picks
      <4>2. PICK j \in DOMAIN rows : \E r \in Incoming("employees", j[1]) : <<k, f[k]>> = <<j, r>>
        BY <4>1, <2>1 DEF Type1
      <4>3. k \in OpenRows("employees") /\ f[k] \in Incoming("employees", k[1])
        BY <4>2, <2>1
      <4>4. k[1] \in Members["employees"]
        BY <4>3, OpenRowIsKey DEF HierarchyInv, Keys
      <4>5. f[k] \in Attributes["employees"]
        BY <4>3, <4>4, IncomingTyped DEF HierarchyInv
      <4>6. rows[k] \in Row("employees")
        BY <4>3, <2>1, StoredRow DEF HierarchyInv, Reporting
      <4>7. written[k] = [rows[k] EXCEPT !.t1 = f[k].t1, !.parent = NoKey]
        OBVIOUS
      <4> HIDE DEF rows, written
      <4> QED BY <4>5, <4>6, <4>7 DEF Reporting, Row
    <3>2. ASSUME NEW m \in DOMAIN g PROVE NewRow(g[m]) \in Reporting
      <4>1. <<m, g[m]>> \in new
        BY DEF Picks
      <4>2. m \in Members["employees"] /\ g[m] \in Incoming("employees", m)
        BY <4>1, <2>1
      <4>3. g[m] \in Attributes["employees"]
        BY <4>2, IncomingTyped DEF HierarchyInv
      <4> QED BY <4>3, NewRowReports
    <3>3. SetRows("employees", written, g)
      BY <1>3, <2>1
    <3> HIDE DEF written
    <3> QED BY <3>1, <3>2, <3>3, SetRowsKeeps DEF HierarchyInv
  <2>2. CASE d # "employees"
    BY <1>3, <2>2, SetRowsElsewhere DEF HierarchyInv
  <2> QED BY <2>1, <2>2
<1> QED BY <1>1, <1>4, <1>5 DEF HierarchyInv, SourceOK, StagingOK

\* What Type2 pairs is an open row in memory and what comes for its member.
LEMMA Type2Pairs ==
    ASSUME NEW d, NEW rows, NEW y \in Type2(d, rows)
    PROVE  y[1] \in DOMAIN rows /\ y[2] \in Incoming(d, y[1][1])
BY DEF Type2

LEMMA CloseVersionsKeeps ==
    ASSUME HierarchyInv, NEW d \in Dimensions, CloseVersions(d)
    PROVE  HierarchyInv'
<1> DEFINE closed  == {y[1] : y \in Type2(d, current[d])}
           written == [k \in closed |-> [current[d][k] EXCEPT !.open = FALSE, !.parent = NoKey]]
<1>1. UNCHANGED <<src, staging, current>>
  BY DEF CloseVersions, Task, staged
<1>2. SetRows(d, written, <<>>)
  BY DEF CloseVersions
<1>3. TableOK'
  <2>1. CASE d = "employees"
    <3>1. ASSUME NEW k \in DOMAIN written PROVE written[k] \in Reporting
      <4>1. k \in DOMAIN current["employees"]
        BY <2>1, Type2Pairs
      <4>2. current["employees"][k] \in Row("employees")
        BY <4>1 DEF HierarchyInv, CurrentOK
      <4>3. written[k] = [current["employees"][k] EXCEPT !.open = FALSE, !.parent = NoKey]
        BY <2>1
      <4> HIDE DEF written
      <4> QED BY <4>2, <4>3 DEF Reporting, Row
    <3>2. SetRows("employees", written, <<>>)
      BY <1>2, <2>1
    <3> HIDE DEF written
    <3> QED BY <3>1, <3>2, SetRowsKeeps DEF HierarchyInv
  <2>2. CASE d # "employees"
    <3> HIDE DEF written
    <3> QED BY <1>2, <2>2, SetRowsElsewhere DEF HierarchyInv
  <2> QED BY <2>1, <2>2
<1> QED BY <1>1, <1>3 DEF HierarchyInv, SourceOK, StagingOK, CurrentOK

LEMMA OpenVersionsKeeps ==
    ASSUME HierarchyInv, NEW d \in Dimensions, OpenVersions(d)
    PROVE  HierarchyInv'
<1> DEFINE type2 == {<<y[1][1], y[2]>> : y \in Type2(d, current[d])}
<1>1. UNCHANGED <<src, staging>>
  BY DEF OpenVersions, Task, staged
<1>2. CurrentOK'
  <2>1. current' = [current EXCEPT ![d] = NoRows]
    BY DEF OpenVersions
  <2>2. DOMAIN NoRows = {}
    BY DEF NoRows
  <2> QED BY <2>1, <2>2 DEF HierarchyInv, CurrentOK
<1>3. PICK g \in Picks({y[1] : y \in type2}, type2) : SetRows(d, <<>>, g)
  BY DEF OpenVersions
<1>4. TableOK'
  <2>1. CASE d = "employees"
    <3>1. ASSUME NEW m \in DOMAIN g PROVE NewRow(g[m]) \in Reporting
      <4>1. <<m, g[m]>> \in type2
        BY DEF Picks
      <4>2. PICK y \in Type2("employees", current["employees"]) : m = y[1][1] /\ g[m] = y[2]
        BY <4>1, <2>1
      <4>3. y[1] \in DOMAIN current["employees"] /\ g[m] \in Incoming("employees", m)
        BY <4>2, Type2Pairs
      <4>4. m \in Members["employees"]
        BY <4>2, <4>3 DEF HierarchyInv, CurrentOK, Keys
      <4>5. g[m] \in Attributes["employees"]
        BY <4>3, <4>4, IncomingTyped DEF HierarchyInv
      <4> QED BY <4>5, NewRowReports
    <3>2. SetRows("employees", <<>>, g)
      BY <1>3, <2>1
    <3> QED BY <3>1, <3>2, SetRowsKeeps DEF HierarchyInv
  <2>2. CASE d # "employees"
    BY <1>3, <2>2, SetRowsElsewhere DEF HierarchyInv
  <2> QED BY <2>1, <2>2
<1> QED BY <1>1, <1>2, <1>4 DEF HierarchyInv, SourceOK, StagingOK

LEMMA WriteType2Keeps ==
    ASSUME HierarchyInv, NEW d \in Dimensions, WriteType2(d)
    PROVE  HierarchyInv'
BY FetchAndInsertKeeps, CloseVersionsKeeps, OpenVersionsKeeps DEF WriteType2

-----------------------------------------------------------------------------
(* The hierarchy pass, and everything else.                                *)

\* Pass two writes 0 or a key of the member that the row says it reports to.
LEMMA EmployeeHierarchyKeeps ==
    ASSUME HierarchyInv, EmployeeHierarchy
    PROVE  HierarchyInv'
<1>1. UNCHANGED <<src, staging, current>>
  BY DEF EmployeeHierarchy, Task, staged
<1>2. PICK f \in [OpenRows("employees") -> OpenRows("employees") \cup {NoKey}] :
        /\ \A k \in DOMAIN f : f[k] \in ManagerKeys(RowOf("employees", k).ref)
        /\ SetRows("employees", [k \in DOMAIN f |->
                [RowOf("employees", k) EXCEPT !.parent = f[k]]], <<>>)
  BY DEF EmployeeHierarchy
<1> DEFINE written == [k \in DOMAIN f |-> [RowOf("employees", k) EXCEPT !.parent = f[k]]]
<1>3. ASSUME NEW k \in DOMAIN written PROVE written[k] \in Reporting
  <2> DEFINE row == RowOf("employees", k)
  <2>1. row \in Row("employees")
    BY StoredRow DEF HierarchyInv, Reporting
  <2>2. f[k] \in Keys("employees") \cup {NoKey}
    BY OpenRowIsKey DEF HierarchyInv
  <2>3. f[k] = NoKey \/ f[k][1] = row.ref
    <3>1. f[k] \in ManagerKeys(row.ref)
      BY <1>2
    <3>2. f[k] = NoKey \/ f[k] \in OpenKeys("employees", row.ref)
      BY <3>1 DEF ManagerKeys, OrNoKey
    <3> QED BY <3>2 DEF OpenKeys
  <2>4. written[k] = [row EXCEPT !.parent = f[k]]
    OBVIOUS
  <2> HIDE DEF row, written
  <2> QED BY <2>1, <2>2, <2>3, <2>4 DEF Reporting, Row
<1>4. TableOK'
  <2>1. SetRows("employees", written, <<>>)
    BY <1>2
  <2> HIDE DEF written
  <2> QED BY <1>3, <2>1, SetRowsKeeps DEF HierarchyInv
<1> QED BY <1>1, <1>4 DEF HierarchyInv, SourceOK, StagingOK, CurrentOK

LEMMA SourceKeeps ==
    ASSUME HierarchyInv, Source
    PROVE  HierarchyInv'
<1>1. UNCHANGED <<staging, current, table>>
  BY DEF Source, ChangeMember, Reassign, Commit, staged, warehouse
<1>2. SourceOK'
  <2>1. ASSUME NEW d \in Dimensions, NEW m \in Members[d], ChangeMember(d, m)
        PROVE  SourceOK'
    <3>1. PICK r \in Attributes[d] : src' = [src EXCEPT ![d][m] = r]
      BY <2>1 DEF ChangeMember
    <3> QED BY <3>1 DEF HierarchyInv, SourceOK, EmployeeRecords
  <2>2. CASE Reassign
    BY <2>2 DEF Reassign, HierarchyInv, SourceOK
  <2> QED BY <2>1, <2>2 DEF Source
<1> QED BY <1>1, <1>2 DEF HierarchyInv, StagingOK, TableOK, CurrentOK

LEMMA StagingKeeps ==
    ASSUME HierarchyInv, NEW t, NEW query, NEW empty, StagingLoad(t, query, empty),
           t = "employees" => query = src["employees"] /\ empty = NoRows
    PROVE  HierarchyInv'
<1>1. UNCHANGED <<src, current, table>>
  BY DEF StagingLoad, StagingStep, warehouse
<1>2. staging' = [staging EXCEPT ![t] = query] \/ staging' = [staging EXCEPT ![t] = empty]
  BY DEF StagingLoad, StagingStep
<1>3. StagingOK'
  BY <1>2 DEF HierarchyInv, StagingOK, SourceOK
<1> QED BY <1>1, <1>3 DEF HierarchyInv, SourceOK, TableOK, CurrentOK

LEMMA StagingDagKeeps ==
    ASSUME HierarchyInv, StagingDag
    PROVE  HierarchyInv'
<1>1. CASE LoadEmployees
  BY <1>1, StagingKeeps DEF LoadEmployees
<1>2. CASE LoadGeography
  BY <1>2, StagingKeeps, "geography" # "employees" DEF LoadGeography
<1>3. CASE LoadProducts
  BY <1>3, StagingKeeps, "products" # "employees" DEF LoadProducts
<1>4. CASE LoadSuppliers
  BY <1>4, StagingKeeps, "suppliers" # "employees" DEF LoadSuppliers
<1>5. CASE LoadCustomers
  BY <1>5, StagingKeeps, "customer" # "employees" DEF LoadCustomers
<1>6. CASE LoadShippers
  BY <1>6, StagingKeeps, "shippers" # "employees" DEF LoadShippers
<1>7. CASE LoadTerritories
  BY <1>7, StagingKeeps, "territories" # "employees" DEF LoadTerritories
<1>8. CASE LoadEmployeeTerritories
  BY <1>8, StagingKeeps, "assignments" # "employees" DEF LoadEmployeeTerritories
<1>9. CASE EndStaging
  BY <1>9 DEF EndStaging, warehouse, HierarchyInv, SourceOK, StagingOK, TableOK, CurrentOK
<1> QED BY <1>1, <1>2, <1>3, <1>4, <1>5, <1>6, <1>7, <1>8, <1>9 DEF StagingDag

LEMMA WarehouseDagKeeps ==
    ASSUME HierarchyInv, WarehouseDag
    PROVE  HierarchyInv'
<1>1. CASE DimShippers
  BY <1>1, FetchAndInsertKeeps, "shippers" \in Dimensions DEF DimShippers, Dimensions
<1>2. CASE DimTerritories \/ DimSuppliers \/ DimCustomer \/ DimProducts \/ DimEmployees
  <2>1. {"territories", "suppliers", "customer", "products", "employees"} \subseteq Dimensions
    BY DEF Dimensions
  <2> QED BY <1>2, <2>1, WriteType2Keeps
          DEF DimTerritories, DimSuppliers, DimCustomer, DimProducts, DimEmployees
<1>3. CASE EmployeeHierarchy
  BY <1>3, EmployeeHierarchyKeeps
<1>4. CASE DimGeography \/ BridgeNothing \/ TruncateBridge \/ WriteBridge
  <2>1. UNCHANGED <<src, staging, current, table>>
    BY <1>4 DEF DimGeography, BridgeNothing, TruncateBridge, WriteBridge, Task, staged
  <2> QED BY <2>1 DEF HierarchyInv, SourceOK, StagingOK, TableOK, CurrentOK
<1>5. CASE EndWarehouse
  <2>1. UNCHANGED <<src, staging, current, table>>
    BY <1>5 DEF EndWarehouse, staged
  <2> QED BY <2>1 DEF HierarchyInv, SourceOK, StagingOK, TableOK, CurrentOK
<1> QED BY <1>1, <1>2, <1>3, <1>4, <1>5 DEF WarehouseDag

LEMMA FailureKeeps ==
    ASSUME HierarchyInv, NEW t \in Tasks, WarehouseTaskFails(t)
    PROVE  HierarchyInv'
<1>1. UNCHANGED <<src, staging, table>>
  BY DEF WarehouseTaskFails, staged
<1>2. CurrentOK'
  <2>1. current' = [d \in Dimensions |-> IF d = t THEN NoRows ELSE current[d]]
    BY DEF WarehouseTaskFails
  <2>2. DOMAIN NoRows = {} /\ "employees" \in Dimensions
    BY DEF NoRows, Dimensions
  <2> QED BY <2>1, <2>2 DEF HierarchyInv, CurrentOK
<1> QED BY <1>1, <1>2 DEF HierarchyInv, SourceOK, StagingOK, TableOK

-----------------------------------------------------------------------------
(* The inductive invariant, and the theorem.                               *)

LEMMA HierarchyInit == Init => HierarchyInv
<1> SUFFICES ASSUME Init PROVE HierarchyInv
  OBVIOUS
<1>1. "employees" \in Dimensions /\ "employees" \in Tables
  BY DEF Tables, Dimensions
<1>2. SourceOK
  BY <1>1, InitialAssumption DEF Init, SourceOK, EmployeeRecords
<1>3. StagingOK
  BY <1>1 DEF Init, StagingOK
<1>4. TableOK
  <2>1. <<>> \in Seq(Reporting)
    OBVIOUS
  <2> QED BY <1>1, <2>1 DEF Init, TableOK
<1>5. CurrentOK
  <2>1. DOMAIN NoRows = {}
    BY DEF NoRows
  <2> QED BY <1>1, <2>1 DEF Init, CurrentOK
<1> QED BY <1>2, <1>3, <1>4, <1>5 DEF HierarchyInv

LEMMA HierarchyNext == HierarchyInv /\ [Next]_vars => HierarchyInv'
<1> SUFFICES ASSUME HierarchyInv, [Next]_vars PROVE HierarchyInv'
  OBVIOUS
<1>1. CASE Source
  BY <1>1, SourceKeeps
<1>2. CASE StartStaging
  BY <1>2 DEF StartStaging, warehouse, HierarchyInv, SourceOK, StagingOK, TableOK, CurrentOK
<1>3. CASE StagingDag
  BY <1>3, StagingDagKeeps
<1>4. CASE \E t \in Tables : StagingTaskFails(t)
  BY <1>4 DEF StagingTaskFails, warehouse, HierarchyInv, SourceOK, StagingOK, TableOK, CurrentOK
<1>5. CASE StartWarehouse
  BY <1>5 DEF StartWarehouse, staged, HierarchyInv, SourceOK, StagingOK, TableOK, CurrentOK
<1>6. CASE WarehouseDag
  BY <1>6, WarehouseDagKeeps
<1>7. CASE \E t \in Tasks : WarehouseTaskFails(t)
  BY <1>7, FailureKeeps
<1>8. CASE UNCHANGED vars
  BY <1>8 DEF vars, staged, warehouse, HierarchyInv, SourceOK, StagingOK, TableOK, CurrentOK
<1> QED BY <1>1, <1>2, <1>3, <1>4, <1>5, <1>6, <1>7, <1>8 DEF Next

LEMMA HierarchyImplies == HierarchyInv => ManagerIsReportedTo
<1> SUFFICES ASSUME HierarchyInv, NEW e \in Members["employees"],
                    NEW n \in DOMAIN table["employees"][e]
             PROVE  LET row == table["employees"][e][n]
                    IN  row.parent = NoKey \/ row.parent[1] = row.ref
  BY DEF ManagerIsReportedTo
<1>1. table["employees"][e] \in Seq(Reporting)
  BY DEF HierarchyInv, TableOK
<1>2. table["employees"][e][n] \in Reporting
  BY <1>1
<1> QED BY <1>2 DEF Reporting

\* An employee's row, open or closed, carries no manager's key or a key of the
\* manager it names, in every state: pass one always writes 0, pass two looks
\* the key up under the name in the same row, and closing resets it
\* (load_dim_employees, resolve_employee_hierarchy).
THEOREM ManagersAreReportedTo == Spec => []ManagerIsReportedTo
BY HierarchyInit, HierarchyNext, HierarchyImplies, PTL DEF Spec
=============================================================================
