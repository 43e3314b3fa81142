------------------------- MODULE DimensionLoadProofs -------------------------
(***************************************************************************)
(* Types, OneOpenVersion and AgreesAfterRun of DimensionDag, for any       *)
(* members and attributes, any parts, and any number of runs, failures and *)
(* overlaps.                                                               *)
(***************************************************************************)
EXTENDS DimensionDagProofs, FiniteSetTheorems

-----------------------------------------------------------------------------
(* Types, one table at a time.                                             *)

SourceTyped == /\ DOMAIN src = Dimensions \cup {"assignments"}
               /\ \A d \in Dimensions : src[d] \in [Members[d] -> Attributes[d]]
               /\ src["assignments"] \subseteq Pairs

StagedTyped == /\ DOMAIN staging = Tables
               /\ \A d \in Dimensions :
                    staging[d] \in [Members[d] -> Attributes[d]] \cup {NoRows}
               /\ staging["assignments"] \subseteq Pairs
               /\ staging["geography"] \subseteq Addresses

StoredTyped == /\ DOMAIN table = Dimensions
               /\ \A d \in Dimensions : table[d] \in [Members[d] -> Seq(Row(d))]

HeldTyped   == /\ DOMAIN current = Dimensions
               /\ \A d \in Dimensions : \A k \in DOMAIN current[d] :
                    k \in Keys(d) /\ current[d][k] \in Row(d)

OutputTyped == /\ geography \subseteq Addresses
               /\ bridge \subseteq Keys("employees") \X Keys("territories")

ControlTyped == /\ stTask \in [Tables -> {"todo", "cleared", "done", "failed"}]
                /\ whTask \in [Tasks -> {"todo", "close", "open", "write", "done", "failed"}]
                /\ part \in Parts

FlagsTyped  == /\ stRun \in BOOLEAN /\ whRun \in BOOLEAN /\ pending \in BOOLEAN
               /\ clean \in BOOLEAN /\ torn \in BOOLEAN

LEMMA TypeParts ==
    TypeOK <=> /\ SourceTyped /\ StagedTyped /\ StoredTyped /\ HeldTyped /\ OutputTyped
               /\ ControlTyped /\ FlagsTyped /\ events \in 0..MaxEvents
<1>1. {stRun, whRun, pending, clean, torn} \subseteq BOOLEAN <=> FlagsTyped
  BY Zenon DEF FlagsTyped
<1>2. (\A d \in Dimensions : /\ src[d] \in [Members[d] -> Attributes[d]]
                             /\ staging[d] \in [Members[d] -> Attributes[d]] \cup {NoRows}
                             /\ table[d] \in [Members[d] -> Seq(Row(d))]
                             /\ DOMAIN current[d] \subseteq Keys(d)
                             /\ \A k \in DOMAIN current[d] : current[d][k] \in Row(d))
      <=> /\ \A d \in Dimensions : src[d] \in [Members[d] -> Attributes[d]]
          /\ \A d \in Dimensions : staging[d] \in [Members[d] -> Attributes[d]] \cup {NoRows}
          /\ \A d \in Dimensions : table[d] \in [Members[d] -> Seq(Row(d))]
          /\ \A d \in Dimensions : \A k \in DOMAIN current[d] :
                    k \in Keys(d) /\ current[d][k] \in Row(d)
  BY Zenon
<1>3. geography \cup staging["geography"] \subseteq Addresses
      <=> geography \subseteq Addresses /\ staging["geography"] \subseteq Addresses
  OBVIOUS
<1> QED BY <1>1, <1>2, <1>3, Zenon
        DEF TypeOK, SourceTyped, StagedTyped, StoredTyped, HeldTyped, OutputTyped, ControlTyped

LEMMA TypePartsNext ==
    /\ SourceTyped' /\ StagedTyped' /\ StoredTyped' /\ HeldTyped' /\ OutputTyped'
    /\ ControlTyped' /\ FlagsTyped' /\ events' \in 0..MaxEvents
    => TypeOK'
<1>1. (TypeOK <=> /\ SourceTyped /\ StagedTyped /\ StoredTyped /\ HeldTyped /\ OutputTyped
                  /\ ControlTyped /\ FlagsTyped /\ events \in 0..MaxEvents)'
  BY TypeParts, PTL
<1> QED BY <1>1

-----------------------------------------------------------------------------
(* Keys and rows.                                                          *)

\* An open key of a member is its own, and there is an open row under it.
LEMMA OpenKey ==
    ASSUME StoredTyped, NEW d \in Dimensions, NEW m \in Members[d], NEW k \in OpenKeys(d, m)
    PROVE  /\ k \in Keys(d) /\ k = <<m, k[2]>> /\ k[1] = m
           /\ k[2] \in DOMAIN table[d][m] /\ k[2] \in Nat \ {0}
           /\ RowOf(d, k) = table[d][m][k[2]]
           /\ RowOf(d, k) \in Row(d) /\ RowOf(d, k).open
<1>1. PICK n \in DOMAIN table[d][m] : k = <<m, n>> /\ table[d][m][n].open
  BY DEF OpenKeys
<1>2. table[d][m] \in Seq(Row(d))
  BY DEF StoredTyped
<1>3. n \in Nat \ {0} /\ table[d][m][n] \in Row(d)
  BY <1>1, <1>2
<1> QED BY <1>1, <1>3 DEF Keys, RowOf

LEMMA OpenRow ==
    ASSUME StoredTyped, NEW d \in Dimensions, NEW k \in OpenRows(d)
    PROVE  /\ k[1] \in Members[d] /\ k \in OpenKeys(d, k[1])
           /\ k \in Keys(d) /\ k = <<k[1], k[2]>>
           /\ k[2] \in DOMAIN table[d][k[1]]
           /\ RowOf(d, k) \in Row(d) /\ RowOf(d, k).open
<1>1. PICK m \in Members[d] : k \in OpenKeys(d, m)
  BY DEF OpenRows
<1> QED BY <1>1, OpenKey

\* Which of its keys are open says the table itself.
LEMMA IsOpenKey ==
    ASSUME NEW d, NEW m, NEW n \in DOMAIN table[d][m], table[d][m][n].open
    PROVE  <<m, n>> \in OpenKeys(d, m)
BY DEF OpenKeys

\* The keys a reference can get (resolve_geography_keys, _resolve_supplier_keys).
LEMMA LookupTyped ==
    ASSUME StoredTyped, NEW d \in Dimensions, NEW r \in Attributes[d],
           NEW k \in Lookup(d, r.ref)
    PROVE  k \in {x.ref : x \in Attributes[d]} \cup {NoKey} \cup Keys("suppliers")
<1>1. CASE d \in {"suppliers", "customer"}
  BY <1>1 DEF Lookup, GeographyKeys, OrNoKey
<1>2. CASE d = "products"
  <2>1. k \in SupplierKeys(r.ref)
    BY <1>2 DEF Lookup
  <2>2. r.ref \in Members["suppliers"] /\ "suppliers" \in Dimensions
    BY <1>2, ReferencesAssumption DEF Dimensions
  <2>3. k = NoKey \/ k \in OpenKeys("suppliers", r.ref)
    BY <2>1 DEF SupplierKeys, OrNoKey
  <2> QED BY <2>2, <2>3, OpenKey
<1>3. CASE d \notin {"suppliers", "customer", "products"}
  BY <1>3 DEF Lookup
<1> QED BY <1>1, <1>2, <1>3

LEMMA LookupNotEmpty ==
    ASSUME NEW d, NEW a PROVE Lookup(d, a) # {}
BY DEF Lookup, GeographyKeys, SupplierKeys, OrNoKey

\* What comes for a member: its staged record, with a key for its reference.
LEMMA IncomingRecord ==
    ASSUME StagedTyped, NEW d \in Dimensions, NEW m
    PROVE  /\ \A r \in Incoming(d, m) :
                /\ m \in Members[d] /\ m \in DOMAIN staging[d]
                /\ staging[d][m] \in Attributes[d]
                /\ r.t1 = staging[d][m].t1 /\ r.t2 = staging[d][m].t2
                /\ r.ref \in Lookup(d, staging[d][m].ref)
           /\ m \in DOMAIN staging[d] => Incoming(d, m) # {}
<1>1. ASSUME m \in DOMAIN staging[d]
      PROVE  /\ m \in Members[d] /\ staging[d][m] \in Attributes[d]
             /\ staging[d][m] \in [t1: {r.t1 : r \in Attributes[d]},
                                   t2: {r.t2 : r \in Attributes[d]},
                                   ref: {r.ref : r \in Attributes[d]}]
  <2>1. staging[d] \in [Members[d] -> Attributes[d]]
    BY <1>1 DEF StagedTyped, NoRows
  <2> QED BY <1>1, <2>1, AttributesAssumption
<1>2. ASSUME NEW r \in Incoming(d, m)
      PROVE  /\ m \in DOMAIN staging[d]
             /\ r.t1 = staging[d][m].t1 /\ r.t2 = staging[d][m].t2
             /\ r.ref \in Lookup(d, staging[d][m].ref)
  <2>1. m \in DOMAIN staging[d]
    BY <1>2 DEF Incoming
  <2>2. PICK k \in Lookup(d, staging[d][m].ref) : r = [staging[d][m] EXCEPT !.ref = k]
    BY <1>2, <2>1 DEF Incoming
  <2> QED BY <1>1, <2>1, <2>2
<1>3. ASSUME m \in DOMAIN staging[d] PROVE Incoming(d, m) # {}
  <2>1. PICK k : k \in Lookup(d, staging[d][m].ref)
    BY LookupNotEmpty
  <2>2. [staging[d][m] EXCEPT !.ref = k] \in Incoming(d, m)
    BY <1>3, <2>1 DEF Incoming
  <2> QED BY <2>2
<1> QED BY <1>1, <1>2, <1>3

LEMMA NewRowTyped ==
    ASSUME StagedTyped, StoredTyped, NEW d \in Dimensions, NEW m, NEW r \in Incoming(d, m)
    PROVE  /\ r.t1 \in {x.t1 : x \in Attributes[d]}
           /\ NewRow(r) \in Row(d)
<1>1. /\ staging[d][m] \in Attributes[d]
      /\ r.t1 = staging[d][m].t1 /\ r.t2 = staging[d][m].t2
      /\ r.ref \in Lookup(d, staging[d][m].ref)
  BY IncomingRecord
<1>2. r.ref \in {x.ref : x \in Attributes[d]} \cup {NoKey} \cup Keys("suppliers")
  BY <1>1, LookupTyped
<1>3. r.t1 \in {x.t1 : x \in Attributes[d]} /\ r.t2 \in {x.t2 : x \in Attributes[d]}
  BY <1>1
<1> QED BY <1>2, <1>3 DEF NewRow, Row

LEMMA NewRowSays ==
    ASSUME NEW r
    PROVE  /\ NewRow(r).t1 = r.t1 /\ NewRow(r).t2 = r.t2 /\ NewRow(r).ref = r.ref
           /\ NewRow(r).open
BY DEF NewRow

\* SetRows writes the rows of f where they are and adds the rows of g.
LEMMA SetRowsEffect ==
    ASSUME StoredTyped, NEW d \in Dimensions, NEW f, NEW g, SetRows(d, f, g),
           \A k \in DOMAIN f : f[k] \in Row(d),
           \A m \in DOMAIN g : NewRow(g[m]) \in Row(d)
    PROVE  /\ StoredTyped'
           /\ \A c \in Dimensions \ {d} : table'[c] = table[c]
           /\ \A m \in Members[d] :
                /\ Len(table[d][m]) \in Nat /\ DOMAIN table[d][m] = 1..Len(table[d][m])
                /\ DOMAIN table'[d][m] = DOMAIN table[d][m] \cup
                        (IF m \in DOMAIN g THEN {Len(table[d][m]) + 1} ELSE {})
                /\ \A n \in DOMAIN table[d][m] : table'[d][m][n] =
                        IF <<m, n>> \in DOMAIN f THEN f[<<m, n>>] ELSE table[d][m][n]
                /\ m \in DOMAIN g => table'[d][m][Len(table[d][m]) + 1] = NewRow(g[m])
<1> DEFINE old(m) == [n \in DOMAIN table[d][m] |->
                IF <<m, n>> \in DOMAIN f THEN f[<<m, n>>] ELSE table[d][m][n]]
           more(m) == IF m \in DOMAIN g THEN <<NewRow(g[m])>> ELSE <<>>
<1>1. table' = [table EXCEPT ![d] = [m \in Members[d] |-> old(m) \o more(m)]]
  BY DEF SetRows
<1>2. /\ DOMAIN table' = Dimensions
      /\ table'[d] = [m \in Members[d] |-> old(m) \o more(m)]
      /\ \A c \in Dimensions \ {d} : table'[c] = table[c]
  BY <1>1 DEF StoredTyped
<1>3. ASSUME NEW m \in Members[d]
      PROVE  /\ old(m) \o more(m) \in Seq(Row(d))
             /\ Len(table[d][m]) \in Nat /\ DOMAIN table[d][m] = 1..Len(table[d][m])
             /\ DOMAIN (old(m) \o more(m)) = DOMAIN table[d][m] \cup
                    (IF m \in DOMAIN g THEN {Len(table[d][m]) + 1} ELSE {})
             /\ \A n \in DOMAIN table[d][m] : (old(m) \o more(m))[n] = old(m)[n]
             /\ m \in DOMAIN g => (old(m) \o more(m))[Len(table[d][m]) + 1] = NewRow(g[m])
  <2> DEFINE s == table[d][m]
  <2>1. s \in Seq(Row(d))
    BY DEF StoredTyped
  <2>2. Len(s) \in Nat /\ DOMAIN s = 1..Len(s) /\ \A n \in DOMAIN s : s[n] \in Row(d)
    BY <2>1
  <2>3. old(m) \in [1..Len(s) -> Row(d)]
    BY <2>2
  <2>4. old(m) \in Seq(Row(d)) /\ Len(old(m)) = Len(s)
    <3> HIDE DEF old, s
    <3>1. old(m) \in Seq(Row(d))
      BY <2>2, <2>3, SeqDef
    <3>2. DOMAIN old(m) = 1..Len(s) /\ DOMAIN old(m) = 1..Len(old(m)) /\ Len(old(m)) \in Nat
      BY <2>3, <3>1
    <3> QED BY <2>2, <3>1, <3>2
  <2>5. CASE m \in DOMAIN g
    <3>1. more(m) = <<NewRow(g[m])>> /\ NewRow(g[m]) \in Row(d)
      BY <2>5
    <3> HIDE DEF old, more, s
    <3>2. /\ old(m) \o more(m) \in Seq(Row(d))
          /\ DOMAIN (old(m) \o more(m)) = 1..(Len(s) + 1)
          /\ \A n \in 1..Len(s) : (old(m) \o more(m))[n] = old(m)[n]
          /\ (old(m) \o more(m))[Len(s) + 1] = NewRow(g[m])
      BY <2>2, <2>4, <3>1
    <3>3. 1..(Len(s) + 1) = 1..Len(s) \cup {Len(s) + 1}
      BY <2>2
    <3> QED BY <2>2, <2>5, <3>2, <3>3 DEF s
  <2>6. CASE m \notin DOMAIN g
    <3>1. more(m) = <<>>
      BY <2>6
    <3> HIDE DEF old, more, s
    <3>2. old(m) \o more(m) = old(m)
      BY <2>4, <3>1
    <3>3. DOMAIN old(m) = 1..Len(s)
      BY <2>3
    <3> QED BY <2>2, <2>4, <2>6, <3>2, <3>3 DEF s
  <2> QED BY <2>5, <2>6
<1>4. table'[d] \in [Members[d] -> Seq(Row(d))]
  <2>1. \A m \in Members[d] : old(m) \o more(m) \in Seq(Row(d))
    BY <1>3
  <2> HIDE DEF old, more
  <2> QED BY <1>2, <2>1
<1>5. StoredTyped'
  <2>1. \A c \in Dimensions : table'[c] \in [Members[c] -> Seq(Row(c))]
    BY <1>2, <1>4 DEF StoredTyped
  <2> QED BY <1>2, <2>1 DEF StoredTyped, Row, Keys
<1>6. ASSUME NEW m \in Members[d]
      PROVE  table'[d][m] = old(m) \o more(m)
             /\ \A n \in DOMAIN table[d][m] : old(m)[n] =
                    IF <<m, n>> \in DOMAIN f THEN f[<<m, n>>] ELSE table[d][m][n]
  BY <1>2
<1>7. ASSUME NEW m \in Members[d]
      PROVE  /\ Len(table[d][m]) \in Nat /\ DOMAIN table[d][m] = 1..Len(table[d][m])
             /\ DOMAIN table'[d][m] = DOMAIN table[d][m] \cup
                        (IF m \in DOMAIN g THEN {Len(table[d][m]) + 1} ELSE {})
             /\ \A n \in DOMAIN table[d][m] : table'[d][m][n] =
                        IF <<m, n>> \in DOMAIN f THEN f[<<m, n>>] ELSE table[d][m][n]
             /\ m \in DOMAIN g => table'[d][m][Len(table[d][m]) + 1] = NewRow(g[m])
  <2> HIDE DEF old, more
  <2>1. table'[d][m] = old(m) \o more(m)
        /\ \A n \in DOMAIN table[d][m] : old(m)[n] =
                IF <<m, n>> \in DOMAIN f THEN f[<<m, n>>] ELSE table[d][m][n]
    BY <1>6
  <2>2. /\ Len(table[d][m]) \in Nat /\ DOMAIN table[d][m] = 1..Len(table[d][m])
        /\ DOMAIN (old(m) \o more(m)) = DOMAIN table[d][m] \cup
               (IF m \in DOMAIN g THEN {Len(table[d][m]) + 1} ELSE {})
        /\ \A n \in DOMAIN table[d][m] : (old(m) \o more(m))[n] = old(m)[n]
        /\ m \in DOMAIN g => (old(m) \o more(m))[Len(table[d][m]) + 1] = NewRow(g[m])
    BY <1>3
  <2> QED BY <2>1, <2>2
<1> HIDE DEF old, more
<1> QED BY <1>2, <1>5, <1>7

LEMMA RewriteRows ==
    ASSUME StoredTyped, NEW d \in Dimensions, NEW f, SetRows(d, f, <<>>),
           \A k \in DOMAIN f : f[k] \in Row(d)
    PROVE  /\ StoredTyped'
           /\ \A c \in Dimensions \ {d} : table'[c] = table[c]
           /\ \A m \in Members[d] :
                /\ DOMAIN table'[d][m] = DOMAIN table[d][m]
                /\ \A n \in DOMAIN table[d][m] : table'[d][m][n] =
                        IF <<m, n>> \in DOMAIN f THEN f[<<m, n>>] ELSE table[d][m][n]
<1> DEFINE g == <<>>
<1>1. DOMAIN g = {} /\ SetRows(d, f, g)
  OBVIOUS
<1> HIDE DEF g
<1>2. \A m \in DOMAIN g : NewRow(g[m]) \in Row(d)
  BY <1>1
<1>3. /\ StoredTyped'
      /\ \A c \in Dimensions \ {d} : table'[c] = table[c]
      /\ \A m \in Members[d] :
            /\ Len(table[d][m]) \in Nat /\ DOMAIN table[d][m] = 1..Len(table[d][m])
            /\ DOMAIN table'[d][m] = DOMAIN table[d][m] \cup
                    (IF m \in DOMAIN g THEN {Len(table[d][m]) + 1} ELSE {})
            /\ \A n \in DOMAIN table[d][m] : table'[d][m][n] =
                    IF <<m, n>> \in DOMAIN f THEN f[<<m, n>>] ELSE table[d][m][n]
            /\ m \in DOMAIN g => table'[d][m][Len(table[d][m]) + 1] = NewRow(g[m])
  BY <1>1, <1>2, SetRowsEffect
<1>4. ASSUME NEW m \in Members[d] PROVE DOMAIN table'[d][m] = DOMAIN table[d][m]
  <2>1. m \notin DOMAIN g
    BY <1>1
  <2> QED BY <1>3, <2>1
<1> QED BY <1>3, <1>4

-----------------------------------------------------------------------------
(* What each statement of a load does to the open rows.                    *)

Fetched(d) == [k \in OpenRows(d) |-> RowOf(d, k)]

LEMMA Fetching ==
    ASSUME StoredTyped, NEW d \in Dimensions
    PROVE  /\ DOMAIN Fetched(d) = OpenRows(d)
           /\ \A k \in OpenRows(d) : Fetched(d)[k] = RowOf(d, k)
           /\ \A k \in DOMAIN Fetched(d) : k \in Keys(d) /\ Fetched(d)[k] \in Row(d)
BY OpenRow DEF Fetched

LEMMA FetchTable ==
    ASSUME StagedTyped, StoredTyped, NEW d \in Dimensions, FetchAndInsert(d)
    PROVE  \E f, g :
        /\ SetRows(d, f, g)
        /\ \A k \in DOMAIN f : /\ k \in OpenRows(d)
                               /\ f[k] \in Row(d) /\ f[k].open
                               /\ f[k].t2 = RowOf(d, k).t2 /\ f[k].ref = RowOf(d, k).ref
                               /\ f[k].t1 = staging[d][k[1]].t1
        /\ \A k \in OpenRows(d) : \A s \in Incoming(d, k[1]) :
                ~Differs(RowOf(d, k), s) /\ s.t1 # RowOf(d, k).t1 => k \in DOMAIN f
        /\ \A m \in DOMAIN g : /\ m \in Members[d] /\ OpenKeys(d, m) = {}
                               /\ g[m] \in Incoming(d, m)
        /\ \A m \in DOMAIN staging[d] :
                m \in Members[d] /\ OpenKeys(d, m) = {} => m \in DOMAIN g
<1> DEFINE rows  == [k \in OpenRows(d) |-> RowOf(d, k)]
           new   == UNION {{<<m, r>> : r \in Incoming(d, m)} :
                               m \in {n \in Members[d] : OpenKeys(d, n) = {}}}
           type1 == Type1(d, rows)
<1>1. PICK f1 \in Picks({y[1] : y \in type1}, type1), g \in Picks({y[1] : y \in new}, new) :
            SetRows(d, [k \in DOMAIN f1 |-> [rows[k] EXCEPT !.t1 = f1[k].t1, !.parent = NoKey]], g)
  BY DEF FetchAndInsert
<1> DEFINE f == [k \in DOMAIN f1 |-> [rows[k] EXCEPT !.t1 = f1[k].t1, !.parent = NoKey]]
<1>2. /\ rows = Fetched(d) /\ DOMAIN rows = OpenRows(d)
      /\ \A k \in OpenRows(d) : rows[k] = RowOf(d, k) /\ rows[k] \in Row(d)
  BY Fetching DEF Fetched
<1>3. /\ DOMAIN f1 = {y[1] : y \in type1} /\ \A k \in DOMAIN f1 : <<k, f1[k]>> \in type1
      /\ DOMAIN g = {y[1] : y \in new} /\ \A m \in DOMAIN g : <<m, g[m]>> \in new
  BY DEF Picks
<1>4. \A k, s : <<k, s>> \in type1 <=> /\ k \in OpenRows(d) /\ s \in Incoming(d, k[1])
                                       /\ ~Differs(rows[k], s) /\ s.t1 # rows[k].t1
  BY <1>2 DEF Type1
<1>5. \A m, r : <<m, r>> \in new <=> /\ m \in Members[d] /\ OpenKeys(d, m) = {}
                                     /\ r \in Incoming(d, m)
  OBVIOUS
<1>6. DOMAIN f = DOMAIN f1
      /\ \A k \in DOMAIN f1 : f[k] = [rows[k] EXCEPT !.t1 = f1[k].t1, !.parent = NoKey]
  OBVIOUS
<1>7. SetRows(d, f, g)
  BY <1>1
<1> HIDE DEF rows, new, type1, f
<1>8. ASSUME NEW k \in DOMAIN f
      PROVE  /\ k \in OpenRows(d)
             /\ f[k] \in Row(d) /\ f[k].open
             /\ f[k].t2 = RowOf(d, k).t2 /\ f[k].ref = RowOf(d, k).ref
             /\ f[k].t1 = staging[d][k[1]].t1
  <2>1. k \in OpenRows(d) /\ f1[k] \in Incoming(d, k[1])
    BY <1>3, <1>4, <1>6
  <2>2. rows[k] = RowOf(d, k) /\ rows[k] \in Row(d) /\ rows[k].open
    BY <1>2, <2>1, OpenRow
  <2>3. f1[k].t1 = staging[d][k[1]].t1 /\ f1[k].t1 \in {x.t1 : x \in Attributes[d]}
    BY <2>1, IncomingRecord, NewRowTyped
  <2>4. f[k] = [rows[k] EXCEPT !.t1 = f1[k].t1, !.parent = NoKey]
    BY <1>6
  <2> QED BY <2>1, <2>2, <2>3, <2>4 DEF Row
<1>9. ASSUME NEW k \in OpenRows(d), NEW s \in Incoming(d, k[1]),
             ~Differs(RowOf(d, k), s), s.t1 # RowOf(d, k).t1
      PROVE  k \in DOMAIN f
  <2>1. <<k, s>> \in type1
    BY <1>2, <1>4, <1>9
  <2>2. <<k, s>>[1] \in DOMAIN f1
    BY <1>3, <2>1
  <2> QED BY <1>6, <2>2
<1>10. ASSUME NEW m \in DOMAIN g
       PROVE  m \in Members[d] /\ OpenKeys(d, m) = {} /\ g[m] \in Incoming(d, m)
  BY <1>3, <1>5
<1>11. ASSUME NEW m \in DOMAIN staging[d], m \in Members[d], OpenKeys(d, m) = {}
       PROVE  m \in DOMAIN g
  <2>1. PICK r : r \in Incoming(d, m)
    BY IncomingRecord
  <2>2. <<m, r>> \in new
    BY <1>5, <1>11, <2>1
  <2>3. <<m, r>>[1] \in DOMAIN g
    BY <1>3, <2>2
  <2> QED BY <2>3
<1> QED BY <1>7, <1>8, <1>9, <1>10, <1>11

\* The first statement leaves open what is, and gives members without an open
\* row one: after it the open rows say what staging does, or Type2 is not empty.
LEMMA FetchEffect ==
    ASSUME StagedTyped, StoredTyped, NEW d \in Dimensions, FetchAndInsert(d)
    PROVE  /\ StoredTyped'
           /\ \A c \in Dimensions \ {d} : table'[c] = table[c]
           /\ \A m \in Members[d] :
                /\ OpenKeys(d, m) # {} => OpenKeys(d, m)' = OpenKeys(d, m)
                /\ OpenKeys(d, m) = {} => \A j, k \in OpenKeys(d, m)' : j = k
                /\ OpenKeys(d, m) = {} /\ m \in DOMAIN staging[d] =>
                        \E k \in OpenKeys(d, m)', r \in Incoming(d, m) : RowOf(d, k)' = NewRow(r)
           /\ \A k \in OpenRows(d) :
                /\ RowOf(d, k)'.t2 = RowOf(d, k).t2 /\ RowOf(d, k)'.ref = RowOf(d, k).ref
                /\ \A s \in Incoming(d, k[1]) :
                        ~Differs(RowOf(d, k), s) => RowOf(d, k)'.t1 = s.t1
<1>1. PICK f, g :
        /\ SetRows(d, f, g)
        /\ \A k \in DOMAIN f : /\ k \in OpenRows(d)
                               /\ f[k] \in Row(d) /\ f[k].open
                               /\ f[k].t2 = RowOf(d, k).t2 /\ f[k].ref = RowOf(d, k).ref
                               /\ f[k].t1 = staging[d][k[1]].t1
        /\ \A k \in OpenRows(d) : \A s \in Incoming(d, k[1]) :
                ~Differs(RowOf(d, k), s) /\ s.t1 # RowOf(d, k).t1 => k \in DOMAIN f
        /\ \A m \in DOMAIN g : /\ m \in Members[d] /\ OpenKeys(d, m) = {}
                               /\ g[m] \in Incoming(d, m)
        /\ \A m \in DOMAIN staging[d] :
                m \in Members[d] /\ OpenKeys(d, m) = {} => m \in DOMAIN g
  BY FetchTable
<1>2. \A m \in DOMAIN g : NewRow(g[m]) \in Row(d)
  BY <1>1, NewRowTyped
<1>3. /\ StoredTyped'
      /\ \A c \in Dimensions \ {d} : table'[c] = table[c]
      /\ \A m \in Members[d] :
            /\ Len(table[d][m]) \in Nat /\ DOMAIN table[d][m] = 1..Len(table[d][m])
            /\ DOMAIN table'[d][m] = DOMAIN table[d][m] \cup
                    (IF m \in DOMAIN g THEN {Len(table[d][m]) + 1} ELSE {})
            /\ \A n \in DOMAIN table[d][m] : table'[d][m][n] =
                    IF <<m, n>> \in DOMAIN f THEN f[<<m, n>>] ELSE table[d][m][n]
            /\ m \in DOMAIN g => table'[d][m][Len(table[d][m]) + 1] = NewRow(g[m])
  BY <1>1, <1>2, SetRowsEffect
<1>4. ASSUME NEW m \in Members[d], NEW n \in DOMAIN table[d][m]
      PROVE  table'[d][m][n].open <=> table[d][m][n].open
  <2>1. CASE <<m, n>> \in DOMAIN f
    <3>1. <<m, n>> \in OpenRows(d) /\ f[<<m, n>>].open
      BY <1>1, <2>1
    <3>2. <<m, n>> \in OpenKeys(d, m)
      BY <3>1, OpenRow
    <3>3. table[d][m][n].open
      BY <3>2 DEF OpenKeys
    <3> QED BY <1>3, <2>1, <3>1, <3>3
  <2>2. CASE <<m, n>> \notin DOMAIN f
    BY <1>3, <2>2
  <2> QED BY <2>1, <2>2
<1>5. ASSUME NEW m \in Members[d], m \notin DOMAIN g
      PROVE  OpenKeys(d, m)' = OpenKeys(d, m)
  BY <1>3, <1>4, <1>5 DEF OpenKeys
<1>6. ASSUME NEW m \in Members[d], m \in DOMAIN g
      PROVE  OpenKeys(d, m)' = {<<m, Len(table[d][m]) + 1>>}
  <2>1. \A n \in DOMAIN table[d][m] : ~ table'[d][m][n].open
    <3>1. OpenKeys(d, m) = {}
      BY <1>1, <1>6
    <3> QED BY <1>4, <3>1, IsOpenKey
  <2>2. table'[d][m][Len(table[d][m]) + 1].open
    <3>1. table'[d][m][Len(table[d][m]) + 1] = NewRow(g[m])
      BY <1>3, <1>6
    <3> QED BY <3>1, NewRowSays
  <2> QED BY <1>3, <1>6, <2>1, <2>2 DEF OpenKeys
<1>7. ASSUME NEW m \in Members[d]
      PROVE  /\ OpenKeys(d, m) # {} => OpenKeys(d, m)' = OpenKeys(d, m)
             /\ OpenKeys(d, m) = {} => \A j, k \in OpenKeys(d, m)' : j = k
             /\ OpenKeys(d, m) = {} /\ m \in DOMAIN staging[d] =>
                    \E k \in OpenKeys(d, m)', r \in Incoming(d, m) : RowOf(d, k)' = NewRow(r)
  <2>1. OpenKeys(d, m) # {} => m \notin DOMAIN g
    BY <1>1
  <2>2. ASSUME m \in DOMAIN g
        PROVE  \E k \in OpenKeys(d, m)', r \in Incoming(d, m) : RowOf(d, k)' = NewRow(r)
    <3>1. PICK n : n = Len(table[d][m]) + 1
      OBVIOUS
    <3>2. table'[d][m][n] = NewRow(g[m]) /\ <<m, n>> \in OpenKeys(d, m)'
      BY <1>3, <1>6, <2>2, <3>1
    <3>3. RowOf(d, <<m, n>>)' = NewRow(g[m])
      BY <3>2 DEF RowOf
    <3> QED BY <1>1, <2>2, <3>2, <3>3
  <2> QED BY <1>1, <1>5, <1>6, <2>1, <2>2
<1>8. ASSUME NEW k \in OpenRows(d)
      PROVE  /\ RowOf(d, k)'.t2 = RowOf(d, k).t2 /\ RowOf(d, k)'.ref = RowOf(d, k).ref
             /\ \A s \in Incoming(d, k[1]) :
                    ~Differs(RowOf(d, k), s) => RowOf(d, k)'.t1 = s.t1
  <2>1. k[1] \in Members[d] /\ k = <<k[1], k[2]>> /\ k[2] \in DOMAIN table[d][k[1]]
    BY OpenRow
  <2>2. RowOf(d, k)' = IF k \in DOMAIN f THEN f[k] ELSE RowOf(d, k)
    BY <1>3, <2>1 DEF RowOf
  <2>3. ASSUME NEW s \in Incoming(d, k[1]), ~Differs(RowOf(d, k), s)
        PROVE  RowOf(d, k)'.t1 = s.t1
    <3>1. s.t1 = staging[d][k[1]].t1
      BY IncomingRecord
    <3>2. k \notin DOMAIN f => s.t1 = RowOf(d, k).t1
      BY <1>1, <2>3
    <3> QED BY <1>1, <2>2, <3>1, <3>2
  <2> QED BY <1>1, <2>2, <2>3
<1> QED BY <1>3, <1>7, <1>8

\* Closing takes the rows Type2 pairs out of the open ones, and no others.
LEMMA CloseEffect ==
    ASSUME StoredTyped, HeldTyped, NEW d \in Dimensions, CloseVersions(d)
    PROVE  /\ StoredTyped'
           /\ \A c \in Dimensions \ {d} : table'[c] = table[c]
           /\ \A m \in Members[d] :
                /\ OpenKeys(d, m)' = OpenKeys(d, m) \ {y[1] : y \in Type2(d, current[d])}
                /\ \A k \in OpenKeys(d, m)' : RowOf(d, k)' = RowOf(d, k)
<1> DEFINE closed == {y[1] : y \in Type2(d, current[d])}
           f == [k \in closed |-> [current[d][k] EXCEPT !.open = FALSE, !.parent = NoKey]]
<1>1. SetRows(d, f, <<>>)
  BY DEF CloseVersions
<1>2. \A k \in closed : current[d][k] \in Row(d)
  BY Type2Pairs DEF HeldTyped
<1>3. DOMAIN f = closed /\ \A k \in closed : f[k] \in Row(d) /\ ~f[k].open
  <2>1. \A k \in closed :
            [current[d][k] EXCEPT !.open = FALSE, !.parent = NoKey] \in Row(d)
            /\ ~[current[d][k] EXCEPT !.open = FALSE, !.parent = NoKey].open
    BY <1>2 DEF Row
  <2> QED BY <2>1
<1> HIDE DEF f, closed
<1>4. /\ StoredTyped'
      /\ \A c \in Dimensions \ {d} : table'[c] = table[c]
      /\ \A m \in Members[d] :
            /\ DOMAIN table'[d][m] = DOMAIN table[d][m]
            /\ \A n \in DOMAIN table[d][m] : table'[d][m][n] =
                    IF <<m, n>> \in DOMAIN f THEN f[<<m, n>>] ELSE table[d][m][n]
  <2>1. \A k \in DOMAIN f : f[k] \in Row(d)
    BY <1>3
  <2> QED BY <1>1, <2>1, RewriteRows
<1>5. ASSUME NEW m \in Members[d]
      PROVE  /\ OpenKeys(d, m)' = OpenKeys(d, m) \ closed
             /\ \A k \in OpenKeys(d, m)' : RowOf(d, k)' = RowOf(d, k)
  <2>1. \A n \in DOMAIN table[d][m] :
            /\ <<m, n>> \in closed => ~table'[d][m][n].open
            /\ <<m, n>> \notin closed => table'[d][m][n] = table[d][m][n]
    BY <1>3, <1>4
  <2>2. OpenKeys(d, m)' = OpenKeys(d, m) \ closed
    BY <1>4, <2>1 DEF OpenKeys
  <2>3. ASSUME NEW k \in OpenKeys(d, m)' PROVE RowOf(d, k)' = RowOf(d, k)
    <3>1. k \in OpenKeys(d, m) /\ k \notin closed
      BY <2>2
    <3>2. k = <<m, k[2]>> /\ k[2] \in DOMAIN table[d][m]
      BY <3>1, OpenKey
    <3> QED BY <2>1, <3>1, <3>2 DEF RowOf
  <2> QED BY <2>2, <2>3
<1> QED BY <1>4, <1>5 DEF closed

\* Opening gives each promised member one more open row, as staging says.
LEMMA OpenEffect ==
    ASSUME StagedTyped, StoredTyped, HeldTyped, NEW d \in Dimensions, OpenVersions(d)
    PROVE  /\ StoredTyped'
           /\ \A c \in Dimensions \ {d} : table'[c] = table[c]
           /\ \A m \in Members[d] :
                /\ ~Promised(d, m) => OpenKeys(d, m)' = OpenKeys(d, m)
                /\ Promised(d, m) => \E k \in OpenKeys(d, m)' :
                        /\ OpenKeys(d, m)' = OpenKeys(d, m) \cup {k}
                        /\ \E r \in Incoming(d, m) : RowOf(d, k)' = NewRow(r)
                /\ \A k \in OpenKeys(d, m) : RowOf(d, k)' = RowOf(d, k)
<1> DEFINE type2 == {<<y[1][1], y[2]>> : y \in Type2(d, current[d])}
<1>1. PICK g \in Picks({y[1] : y \in type2}, type2) : SetRows(d, <<>>, g)
  BY DEF OpenVersions
<1>2. DOMAIN g = {y[1] : y \in type2} /\ \A m \in DOMAIN g : <<m, g[m]>> \in type2
  BY DEF Picks
<1>3. \A m : m \in DOMAIN g <=> Promised(d, m)
  <2>1. ASSUME NEW m \in DOMAIN g PROVE Promised(d, m)
    <3>1. PICK y \in Type2(d, current[d]) : <<m, g[m]>> = <<y[1][1], y[2]>>
      BY <1>2
    <3> QED BY <3>1 DEF Promised
  <2>2. ASSUME NEW m, Promised(d, m) PROVE m \in DOMAIN g
    <3>1. PICK y \in Type2(d, current[d]) : y[1][1] = m
      BY <2>2 DEF Promised
    <3>2. <<m, y[2]>> \in type2
      BY <3>1
    <3>3. <<m, y[2]>>[1] \in {z[1] : z \in type2}
      BY <3>2
    <3> QED BY <1>2, <3>3
  <2> QED BY <2>1, <2>2
<1>4. ASSUME NEW m \in DOMAIN g PROVE m \in Members[d] /\ g[m] \in Incoming(d, m)
  <2>1. PICK y \in Type2(d, current[d]) : m = y[1][1] /\ g[m] = y[2]
    BY <1>2
  <2>2. y[1] \in DOMAIN current[d] /\ y[2] \in Incoming(d, y[1][1])
    BY Type2Pairs
  <2> QED BY <2>1, <2>2 DEF HeldTyped, Keys
<1> HIDE DEF type2
<1>5. \A m \in DOMAIN g : NewRow(g[m]) \in Row(d)
  BY <1>4, NewRowTyped
<1>6. /\ StoredTyped'
      /\ \A c \in Dimensions \ {d} : table'[c] = table[c]
      /\ \A m \in Members[d] :
            /\ Len(table[d][m]) \in Nat /\ DOMAIN table[d][m] = 1..Len(table[d][m])
            /\ DOMAIN table'[d][m] = DOMAIN table[d][m] \cup
                    (IF m \in DOMAIN g THEN {Len(table[d][m]) + 1} ELSE {})
            /\ \A n \in DOMAIN table[d][m] : table'[d][m][n] = table[d][m][n]
            /\ m \in DOMAIN g => table'[d][m][Len(table[d][m]) + 1] = NewRow(g[m])
  <2> DEFINE f == <<>>
  <2>1. DOMAIN f = {} /\ SetRows(d, f, g)
    BY <1>1
  <2> HIDE DEF f
  <2>2. \A k \in DOMAIN f : f[k] \in Row(d)
    BY <2>1
  <2>3. /\ StoredTyped'
        /\ \A c \in Dimensions \ {d} : table'[c] = table[c]
        /\ \A m \in Members[d] :
              /\ Len(table[d][m]) \in Nat /\ DOMAIN table[d][m] = 1..Len(table[d][m])
              /\ DOMAIN table'[d][m] = DOMAIN table[d][m] \cup
                      (IF m \in DOMAIN g THEN {Len(table[d][m]) + 1} ELSE {})
              /\ \A n \in DOMAIN table[d][m] : table'[d][m][n] =
                      IF <<m, n>> \in DOMAIN f THEN f[<<m, n>>] ELSE table[d][m][n]
              /\ m \in DOMAIN g => table'[d][m][Len(table[d][m]) + 1] = NewRow(g[m])
    BY <1>5, <2>1, <2>2, SetRowsEffect
  <2>4. \A m : \A n \in DOMAIN table[d][m] : <<m, n>> \notin DOMAIN f
    BY <2>1
  <2> QED BY <2>3, <2>4
<1>7. ASSUME NEW m \in Members[d], m \notin DOMAIN g
      PROVE  OpenKeys(d, m)' = OpenKeys(d, m)
  BY <1>6, <1>7 DEF OpenKeys
<1>8. ASSUME NEW m \in Members[d], m \in DOMAIN g
      PROVE  \E k \in OpenKeys(d, m)' :
                /\ OpenKeys(d, m)' = OpenKeys(d, m) \cup {k}
                /\ \E r \in Incoming(d, m) : RowOf(d, k)' = NewRow(r)
  <2>1. PICK n : n = Len(table[d][m]) + 1
    OBVIOUS
  <2>2. table'[d][m][n] = NewRow(g[m])
    BY <1>6, <1>8, <2>1
  <2>3. table'[d][m][n].open
    BY <2>2, NewRowSays
  <2>4. OpenKeys(d, m)' = OpenKeys(d, m) \cup {<<m, n>>}
    BY <1>6, <1>8, <2>1, <2>3 DEF OpenKeys
  <2>5. RowOf(d, <<m, n>>)' = NewRow(g[m])
    BY <2>2 DEF RowOf
  <2> QED BY <1>4, <1>8, <2>4, <2>5
<1>9. ASSUME NEW m \in Members[d], NEW k \in OpenKeys(d, m)
      PROVE  RowOf(d, k)' = RowOf(d, k)
  <2>1. k = <<m, k[2]>> /\ k[2] \in DOMAIN table[d][m]
    BY OpenKey
  <2> QED BY <1>6, <2>1 DEF RowOf
<1> QED BY <1>3, <1>6, <1>7, <1>8, <1>9

\* Pass two changes nothing but the managers of the open rows.
LEMMA HierarchyEffect ==
    ASSUME StoredTyped, EmployeeHierarchy
    PROVE  /\ StoredTyped'
           /\ \A c \in Dimensions \ {"employees"} : table'[c] = table[c]
           /\ \A m \in Members["employees"] :
                OpenKeys("employees", m)' = OpenKeys("employees", m)
           /\ \A k \in OpenRows("employees") :
                \E p \in ManagerKeys(RowOf("employees", k).ref) :
                    RowOf("employees", k)' = [RowOf("employees", k) EXCEPT !.parent = p]
<1>1. PICK f0 \in [OpenRows("employees") -> OpenRows("employees") \cup {NoKey}] :
        /\ \A k \in DOMAIN f0 : f0[k] \in ManagerKeys(RowOf("employees", k).ref)
        /\ SetRows("employees", [k \in DOMAIN f0 |->
                [RowOf("employees", k) EXCEPT !.parent = f0[k]]], <<>>)
  BY DEF EmployeeHierarchy
<1> DEFINE f == [k \in DOMAIN f0 |-> [RowOf("employees", k) EXCEPT !.parent = f0[k]]]
<1>2. "employees" \in Dimensions
  BY DEF Dimensions
<1>3. DOMAIN f = OpenRows("employees")
      /\ \A k \in OpenRows("employees") : f[k] = [RowOf("employees", k) EXCEPT !.parent = f0[k]]
  OBVIOUS
<1>4. SetRows("employees", f, <<>>)
  BY <1>1
<1> HIDE DEF f
<1>5. \A k \in OpenRows("employees") : f[k] \in Row("employees") /\ f[k].open
  <2> SUFFICES ASSUME NEW k \in OpenRows("employees")
               PROVE  f[k] \in Row("employees") /\ f[k].open
    OBVIOUS
  <2>1. RowOf("employees", k) \in Row("employees") /\ RowOf("employees", k).open
    BY <1>2, OpenRow
  <2>2. f0[k] \in Keys("employees") \cup {NoKey}
    BY <1>2, OpenRow
  <2> QED BY <1>3, <2>1, <2>2 DEF Row
<1>6. /\ StoredTyped'
      /\ \A c \in Dimensions \ {"employees"} : table'[c] = table[c]
      /\ \A m \in Members["employees"] :
            /\ DOMAIN table'["employees"][m] = DOMAIN table["employees"][m]
            /\ \A n \in DOMAIN table["employees"][m] : table'["employees"][m][n] =
                    IF <<m, n>> \in DOMAIN f THEN f[<<m, n>>] ELSE table["employees"][m][n]
  <2>1. \A k \in DOMAIN f : f[k] \in Row("employees")
    BY <1>3, <1>5
  <2> QED BY <1>2, <1>4, <2>1, RewriteRows
<1>7. ASSUME NEW m \in Members["employees"]
      PROVE  OpenKeys("employees", m)' = OpenKeys("employees", m)
  <2>1. ASSUME NEW n \in DOMAIN table["employees"][m]
        PROVE  table'["employees"][m][n].open <=> table["employees"][m][n].open
    <3>1. <<m, n>> \in OpenRows("employees") => table["employees"][m][n].open
      <4> SUFFICES ASSUME <<m, n>> \in OpenRows("employees") PROVE table["employees"][m][n].open
        OBVIOUS
      <4>1. RowOf("employees", <<m, n>>).open
        BY <1>2, OpenRow
      <4> QED BY <4>1 DEF RowOf
    <3> QED BY <1>3, <1>5, <1>6, <3>1
  <2> QED BY <1>6, <2>1 DEF OpenKeys
<1>8. ASSUME NEW k \in OpenRows("employees")
      PROVE  RowOf("employees", k)' = [RowOf("employees", k) EXCEPT !.parent = f0[k]]
  <2>1. k = <<k[1], k[2]>> /\ k[1] \in Members["employees"]
        /\ k[2] \in DOMAIN table["employees"][k[1]]
    BY <1>2, OpenRow
  <2> QED BY <1>3, <1>6, <2>1 DEF RowOf
<1> QED BY <1>1, <1>6, <1>7, <1>8

-----------------------------------------------------------------------------
(* Type correctness.                                                       *)

\* A load's actions, with what they leave alone.
LEMMA LoadFrame ==
    ASSUME NEW d, FetchAndInsert(d) \/ CloseVersions(d) \/ OpenVersions(d)
    PROVE  /\ UNCHANGED <<src, staging, stRun, stTask, pending, events, whRun, part,
                          clean, torn, geography, bridge>>
           /\ Running(d) /\ whTask[d] \in {"todo", "close", "open"}
           /\ \E next \in {"close", "open", "done"} : whTask' = [whTask EXCEPT ![d] = next]
<1> USE DEF Task, staged, watched
<1>1. CASE FetchAndInsert(d)
  BY <1>1 DEF FetchAndInsert
<1>2. CASE CloseVersions(d)
  BY <1>2 DEF CloseVersions
<1>3. CASE OpenVersions(d)
  BY <1>3 DEF OpenVersions
<1> QED BY <1>1, <1>2, <1>3

LEMMA LoadTypes ==
    ASSUME TypeOK, NEW d \in Dimensions, FetchAndInsert(d) \/ CloseVersions(d) \/ OpenVersions(d)
    PROVE  TypeOK'
<1>1. /\ SourceTyped /\ StagedTyped /\ StoredTyped /\ HeldTyped /\ OutputTyped
      /\ ControlTyped /\ FlagsTyped /\ events \in 0..MaxEvents
  BY TypeParts
<1>2. /\ UNCHANGED <<src, staging, stRun, stTask, pending, events, whRun, part,
                     clean, torn, geography, bridge>>
      /\ \E next \in {"close", "open", "done"} : whTask' = [whTask EXCEPT ![d] = next]
  BY LoadFrame
<1>3. SourceTyped' /\ StagedTyped' /\ OutputTyped' /\ FlagsTyped' /\ events' \in 0..MaxEvents
  BY <1>1, <1>2 DEF SourceTyped, StagedTyped, OutputTyped, FlagsTyped
<1>4. ControlTyped'
  BY <1>1, <1>2 DEF ControlTyped, Tasks
<1>5. StoredTyped'
  BY <1>1, FetchEffect, CloseEffect, OpenEffect
<1>6. HeldTyped'
  <2>1. CASE FetchAndInsert(d)
    <3>1. current' = IF Type2(d, Fetched(d)) # {} THEN [current EXCEPT ![d] = Fetched(d)]
                     ELSE current
      BY <2>1 DEF FetchAndInsert, Fetched
    <3> QED BY <1>1, <3>1, Fetching DEF HeldTyped
  <2>2. CASE CloseVersions(d)
    BY <1>1, <2>2 DEF CloseVersions, HeldTyped
  <2>3. CASE OpenVersions(d)
    <3>1. current' = [current EXCEPT ![d] = NoRows] /\ DOMAIN NoRows = {}
      BY <2>3 DEF OpenVersions, NoRows
    <3> QED BY <1>1, <3>1 DEF HeldTyped
  <2> QED BY <2>1, <2>2, <2>3
<1> QED BY <1>3, <1>4, <1>5, <1>6, TypePartsNext

\* An action that leaves the tables, and what loads hold, alone.
LEMMA FrameTypes ==
    ASSUME TypeOK, UNCHANGED <<table, current>>,
           SourceTyped', StagedTyped', OutputTyped', ControlTyped', FlagsTyped',
           events' \in 0..MaxEvents
    PROVE  TypeOK'
<1>1. StoredTyped /\ HeldTyped
  BY TypeParts
<1>2. StoredTyped' /\ HeldTyped'
  BY <1>1 DEF StoredTyped, HeldTyped
<1> QED BY <1>2, TypePartsNext

LEMMA EventsTyped ==
    ASSUME events \in 0..MaxEvents, NEW n \in Nat, Events(n)
    PROVE  events' \in 0..MaxEvents
BY BoundsAssumption DEF Events

LEMMA SourceTypes == ASSUME TypeOK, Source PROVE TypeOK'
<1>1. /\ SourceTyped /\ StagedTyped /\ OutputTyped
      /\ ControlTyped /\ FlagsTyped /\ events \in 0..MaxEvents
  BY TypeParts
<1>2. Commit
  BY DEF Source, ChangeMember, Reassign
<1>3. /\ UNCHANGED <<stRun, stTask, staging, pending, whRun, whTask, current, table, geography,
                     bridge, part, clean, torn>>
      /\ events' \in 0..MaxEvents
  BY <1>1, <1>2, EventsTyped DEF Commit, staged, warehouse, watched
<1>4. SourceTyped'
  <2>1. ASSUME NEW d \in Dimensions, NEW m \in Members[d], ChangeMember(d, m)
        PROVE  SourceTyped'
    <3>1. PICK r \in Attributes[d] : src' = [src EXCEPT ![d][m] = r]
      BY <2>1 DEF ChangeMember
    <3>2. \A c \in Dimensions : c # "assignments"
      BY DEF Dimensions
    <3>3. DOMAIN src' = DOMAIN src /\ src'["assignments"] = src["assignments"]
      BY <3>1, <3>2
    <3>4. \A c \in Dimensions : src'[c] \in [Members[c] -> Attributes[c]]
      BY <1>1, <3>1 DEF SourceTyped
    <3> QED BY <1>1, <3>3, <3>4 DEF SourceTyped
  <2>2. CASE Reassign
    <3>1. PICK p \in Pairs : src' = [src EXCEPT !["assignments"] =
                IF p \in @ THEN @ \ {p} ELSE @ \cup {p}]
      BY <2>2 DEF Reassign
    <3>2. \A c \in Dimensions : c # "assignments"
      BY DEF Dimensions
    <3>3. src'["assignments"] \subseteq Pairs
      BY <1>1, <3>1 DEF SourceTyped
    <3> QED BY <1>1, <3>1, <3>2, <3>3 DEF SourceTyped
  <2> QED BY <2>1, <2>2 DEF Source
<1>5. StagedTyped' /\ OutputTyped' /\ ControlTyped' /\ FlagsTyped'
  BY <1>1, <1>3 DEF StagedTyped, OutputTyped, ControlTyped, FlagsTyped
<1> QED BY <1>3, <1>4, <1>5, FrameTypes

\* What the loaders of the staging DAG read and what they leave when cleared.
LEMMA StagingLoadTypes ==
    ASSUME TypeOK, NEW t \in Tables, NEW query, NEW empty, StagingLoad(t, query, empty),
           t \in Dimensions => /\ query \in [Members[t] -> Attributes[t]]
                               /\ empty = NoRows,
           t = "geography" => query \subseteq Addresses /\ empty = {},
           t = "assignments" => query \subseteq Pairs /\ empty = {}
    PROVE  TypeOK'
<1>1. /\ SourceTyped /\ StagedTyped /\ OutputTyped
      /\ ControlTyped /\ FlagsTyped /\ events \in 0..MaxEvents
  BY TypeParts
<1>2. PICK content \in {query, empty}, next \in {"cleared", "done"} :
        /\ stTask' = [stTask EXCEPT ![t] = next]
        /\ staging' = [staging EXCEPT ![t] = content]
        /\ UNCHANGED <<src, stRun, pending, events, warehouse, part, watched>>
  BY DEF StagingLoad, StagingStep
<1>3. StagedTyped'
  <2>1. DOMAIN staging' = Tables /\ "geography" \in Tables /\ "assignments" \in Tables
    BY <1>1, <1>2 DEF StagedTyped, Tables
  <2>2. \A d \in Dimensions : staging'[d] \in [Members[d] -> Attributes[d]] \cup {NoRows}
    BY <1>1, <1>2 DEF StagedTyped, Tables
  <2>3. staging'["assignments"] \subseteq Pairs /\ staging'["geography"] \subseteq Addresses
    BY <1>1, <1>2 DEF StagedTyped, Tables
  <2> QED BY <2>1, <2>2, <2>3 DEF StagedTyped
<1>4. SourceTyped' /\ OutputTyped' /\ FlagsTyped' /\ events' \in 0..MaxEvents
      /\ UNCHANGED <<table, current>>
  BY <1>1, <1>2 DEF SourceTyped, OutputTyped, FlagsTyped, warehouse, watched
<1>5. ControlTyped'
  BY <1>1, <1>2 DEF ControlTyped, warehouse
<1> QED BY <1>3, <1>4, <1>5, FrameTypes

LEMMA StagingDagTypes == ASSUME TypeOK, StagingDag PROVE TypeOK'
<1>1. /\ SourceTyped /\ StagedTyped /\ OutputTyped
      /\ ControlTyped /\ FlagsTyped /\ events \in 0..MaxEvents
  BY TypeParts
<1>2. Dimensions \subseteq Tables /\ "geography" \in Tables /\ "assignments" \in Tables
      /\ "geography" \notin Dimensions /\ "assignments" \notin Dimensions
  BY DEF Tables, Dimensions
<1>3. ASSUME NEW d \in Dimensions, StagingLoad(d, src[d], NoRows) PROVE TypeOK'
  <2>1. d \in Tables /\ d # "geography" /\ d # "assignments"
        /\ src[d] \in [Members[d] -> Attributes[d]]
    BY <1>1, <1>2 DEF SourceTyped
  <2> QED BY <1>3, <2>1, StagingLoadTypes
<1>4. CASE LoadProducts \/ LoadSuppliers \/ LoadCustomers \/ LoadEmployees \/ LoadShippers
           \/ LoadTerritories
  <2>1. {"products", "suppliers", "customer", "employees", "shippers", "territories"}
            \subseteq Dimensions
    BY DEF Dimensions
  <2> QED BY <1>3, <1>4, <2>1 DEF LoadProducts, LoadSuppliers, LoadCustomers, LoadEmployees,
                                  LoadShippers, LoadTerritories
<1>5. CASE LoadGeography
  <2> DEFINE query == UNION {{src[d][m].ref : m \in Members[d]} : d \in {"suppliers", "customer"}}
  <2>1. query \subseteq Addresses
    <3>1. ASSUME NEW d \in {"suppliers", "customer"}, NEW m \in Members[d]
          PROVE  src[d][m].ref \in Addresses
      <4>1. src[d][m] \in Attributes[d]
        BY <1>1 DEF SourceTyped, Dimensions
      <4> QED BY <4>1, ReferencesAssumption
    <3> QED BY <3>1
  <2>2. StagingLoad("geography", query, {})
    BY <1>5 DEF LoadGeography
  <2> HIDE DEF query
  <2> QED BY <1>2, <2>1, <2>2, StagingLoadTypes
<1>6. CASE LoadEmployeeTerritories
  <2>1. StagingLoad("assignments", src["assignments"], {}) /\ src["assignments"] \subseteq Pairs
    BY <1>1, <1>6 DEF LoadEmployeeTerritories, SourceTyped
  <2> QED BY <1>2, <2>1, StagingLoadTypes
<1>7. CASE EndStaging
  <2>1. /\ stRun' = FALSE /\ stTask' = [t \in Tables |-> "done"]
        /\ pending' = (pending \/ \A t \in Tables : stTask[t] = "done")
        /\ UNCHANGED <<src, staging, events, warehouse, part, watched>>
    BY <1>7 DEF EndStaging
  <2>2. SourceTyped' /\ StagedTyped' /\ OutputTyped' /\ events' \in 0..MaxEvents
        /\ UNCHANGED <<table, current>>
    BY <1>1, <2>1 DEF SourceTyped, StagedTyped, OutputTyped, warehouse
  <2>3. ControlTyped'
    BY <1>1, <2>1 DEF ControlTyped, warehouse
  <2>4. FlagsTyped'
    BY <1>1, <2>1 DEF FlagsTyped, warehouse, watched
  <2> QED BY <2>2, <2>3, <2>4, FrameTypes
<1> QED BY <1>4, <1>5, <1>6, <1>7 DEF StagingDag

LEMMA WarehouseDagTypes == ASSUME TypeOK, WarehouseDag PROVE TypeOK'
<1>1. /\ SourceTyped /\ StagedTyped /\ StoredTyped /\ HeldTyped /\ OutputTyped
      /\ ControlTyped /\ FlagsTyped /\ events \in 0..MaxEvents
  BY TypeParts
<1>2. CASE DimShippers \/ DimTerritories \/ DimSuppliers \/ DimCustomer \/ DimProducts
           \/ DimEmployees
  <2>1. {"shippers", "territories", "suppliers", "customer", "products", "employees"}
            \subseteq Dimensions
    BY DEF Dimensions
  <2> QED BY <1>2, <2>1, LoadTypes DEF DimShippers, DimTerritories, DimSuppliers, DimCustomer,
                                     DimProducts, DimEmployees, WriteType2
<1>3. ASSUME NEW t \in Tasks, NEW here, NEW next \in {"write", "done"}, Task(t, here, next),
             UNCHANGED <<current, table>>, OutputTyped'
      PROVE  TypeOK'
  <2>1. /\ whTask' = [whTask EXCEPT ![t] = next]
        /\ UNCHANGED <<src, staged, pending, events, whRun, part, watched>>
    BY <1>3 DEF Task
  <2>2. SourceTyped' /\ StagedTyped' /\ FlagsTyped' /\ events' \in 0..MaxEvents
    BY <1>1, <2>1 DEF SourceTyped, StagedTyped, FlagsTyped, staged, watched
  <2>3. ControlTyped'
    BY <1>1, <2>1 DEF ControlTyped, staged
  <2> QED BY <1>3, <2>2, <2>3, FrameTypes
<1>4. "geography" \in Tasks /\ "hierarchy" \in Tasks /\ "bridge" \in Tasks
      /\ "employees" \in Dimensions /\ "territories" \in Dimensions
  BY DEF Tasks, Dimensions
<1>5. CASE DimGeography
  <2>1. Task("geography", "todo", "done") /\ UNCHANGED <<current, table>>
    BY <1>5 DEF DimGeography
  <2>2. OutputTyped'
    BY <1>1, <1>5 DEF DimGeography, OutputTyped, StagedTyped
  <2> QED BY <1>3, <1>4, <2>1, <2>2
<1>6. CASE EmployeeHierarchy
  <2>1. /\ whTask' = [whTask EXCEPT !["hierarchy"] = "done"]
        /\ UNCHANGED <<src, staged, pending, events, whRun, part, watched>>
        /\ UNCHANGED <<current, geography, bridge>>
    BY <1>6 DEF EmployeeHierarchy, Task
  <2>2. SourceTyped' /\ StagedTyped' /\ FlagsTyped' /\ events' \in 0..MaxEvents
        /\ OutputTyped' /\ HeldTyped'
    BY <1>1, <2>1 DEF SourceTyped, StagedTyped, FlagsTyped, OutputTyped, HeldTyped, staged, watched
  <2>3. ControlTyped'
    BY <1>1, <2>1 DEF ControlTyped, staged
  <2>4. StoredTyped'
    BY <1>1, <1>6, HierarchyEffect
  <2> QED BY <2>2, <2>3, <2>4, TypePartsNext
<1>7. CASE BridgeNothing
  <2>1. Task("bridge", "todo", "done") /\ UNCHANGED <<current, table, geography, bridge>>
    BY <1>7 DEF BridgeNothing
  <2>2. OutputTyped'
    BY <1>1, <2>1 DEF OutputTyped
  <2> QED BY <1>3, <1>4, <2>1, <2>2
<1>8. CASE TruncateBridge
  <2>1. Task("bridge", "todo", "write") /\ UNCHANGED <<current, table, geography>> /\ bridge' = {}
    BY <1>8 DEF TruncateBridge
  <2>2. OutputTyped'
    BY <1>1, <2>1 DEF OutputTyped
  <2> QED BY <1>3, <1>4, <2>1, <2>2
<1>9. CASE WriteBridge
  <2>1. Task("bridge", "write", "done") /\ UNCHANGED <<current, table, geography>>
        /\ bridge' = bridge \cup Join(staging["assignments"])
    BY <1>9 DEF WriteBridge
  <2>2. Join(staging["assignments"]) \subseteq Keys("employees") \X Keys("territories")
    <3> SUFFICES ASSUME NEW p \in staging["assignments"]
                 PROVE  OpenKeys("employees", p[1]) \X OpenKeys("territories", p[2])
                            \subseteq Keys("employees") \X Keys("territories")
      BY DEF Join
    <3>1. p[1] \in Members["employees"] /\ p[2] \in Members["territories"]
      BY <1>1 DEF StagedTyped, Pairs
    <3>2. OpenKeys("employees", p[1]) \subseteq Keys("employees")
      BY <1>1, <1>4, <3>1, OpenKey
    <3>3. OpenKeys("territories", p[2]) \subseteq Keys("territories")
      BY <1>1, <1>4, <3>1, OpenKey
    <3> QED BY <3>2, <3>3
  <2>3. OutputTyped'
    BY <1>1, <2>1, <2>2 DEF OutputTyped
  <2> QED BY <1>3, <1>4, <2>1, <2>3
<1>10. CASE EndWarehouse
  <2>1. /\ whRun' = FALSE /\ whTask' = [t \in Tasks |-> "done"] /\ clean' = TRUE
        /\ UNCHANGED <<src, staged, pending, events, current, table, geography,
                       bridge, part, torn>>
    BY <1>10 DEF EndWarehouse
  <2>2. SourceTyped' /\ StagedTyped' /\ OutputTyped' /\ events' \in 0..MaxEvents
    BY <1>1, <2>1 DEF SourceTyped, StagedTyped, OutputTyped, staged
  <2>3. ControlTyped' /\ FlagsTyped'
    BY <1>1, <2>1 DEF ControlTyped, FlagsTyped, staged
  <2> QED BY <2>1, <2>2, <2>3, FrameTypes
<1> QED BY <1>2, <1>5, <1>6, <1>7, <1>8, <1>9, <1>10 DEF WarehouseDag

LEMMA DagTypeInit == Init => TypeOK
<1> SUFFICES ASSUME Init PROVE TypeOK
  OBVIOUS
<1>1. SourceTyped
  <2>1. "assignments" \notin Dimensions
    BY DEF Dimensions
  <2> QED BY <2>1, InitialAssumption DEF Init, SourceTyped
<1>2. StagedTyped
  <2>1. Dimensions \subseteq Tables /\ {"assignments", "geography"} \subseteq Tables \ Dimensions
    BY DEF Tables, Dimensions
  <2> QED BY <2>1 DEF Init, StagedTyped
<1>3. StoredTyped
  <2>1. \A d \in Dimensions : <<>> \in Seq(Row(d))
    OBVIOUS
  <2> QED BY <2>1 DEF Init, StoredTyped
<1>4. HeldTyped
  <2>1. DOMAIN NoRows = {}
    BY DEF NoRows
  <2> QED BY <2>1 DEF Init, HeldTyped
<1>5. OutputTyped /\ ControlTyped /\ FlagsTyped
  BY DEF Init, OutputTyped, ControlTyped, FlagsTyped
<1>6. events \in 0..MaxEvents
  BY BoundsAssumption DEF Init
<1> QED BY <1>1, <1>2, <1>3, <1>4, <1>5, <1>6, TypeParts

LEMMA DagTypeStep == TypeOK /\ [Next]_vars => TypeOK'
<1> SUFFICES ASSUME TypeOK, [Next]_vars PROVE TypeOK'
  OBVIOUS
<1>1. /\ SourceTyped /\ StagedTyped /\ StoredTyped /\ HeldTyped /\ OutputTyped
      /\ ControlTyped /\ FlagsTyped /\ events \in 0..MaxEvents
  BY TypeParts
<1>2. CASE StartStaging
  <2>1. /\ stRun' = TRUE /\ stTask' = [t \in Tables |-> IF t \in part THEN "todo" ELSE "done"]
        /\ clean' = (clean /\ ~whRun) /\ torn' = (torn \/ whRun \/ pending)
        /\ UNCHANGED <<src, staging, pending, warehouse, part>>
        /\ Events(0) \/ Events(2)
    BY <1>2 DEF StartStaging
  <2>2. SourceTyped' /\ StagedTyped' /\ OutputTyped' /\ UNCHANGED <<table, current>>
    BY <1>1, <2>1 DEF SourceTyped, StagedTyped, OutputTyped, warehouse
  <2>3. ControlTyped'
    BY <1>1, <2>1 DEF ControlTyped, warehouse
  <2>4. FlagsTyped'
    BY <1>1, <2>1 DEF FlagsTyped, warehouse
  <2> QED BY <1>1, <2>1, <2>2, <2>3, <2>4, EventsTyped, FrameTypes
<1>3. ASSUME NEW t \in Tables, StagingTaskFails(t) PROVE TypeOK'
  <2>1. /\ Events(1)
        /\ \E next \in {"todo", "failed"} : stTask' = [stTask EXCEPT ![t] = next]
        /\ UNCHANGED <<src, stRun, staging, pending, warehouse, part, watched>>
    BY <1>3 DEF StagingTaskFails
  <2>2. SourceTyped' /\ StagedTyped' /\ OutputTyped' /\ FlagsTyped' /\ UNCHANGED <<table, current>>
    BY <1>1, <2>1 DEF SourceTyped, StagedTyped, OutputTyped, FlagsTyped, warehouse, watched
  <2>3. ControlTyped'
    BY <1>1, <2>1 DEF ControlTyped, warehouse
  <2> QED BY <1>1, <2>1, <2>2, <2>3, EventsTyped, FrameTypes
<1>4. CASE StartWarehouse
  <2>1. /\ whRun' = TRUE /\ pending' = FALSE /\ clean' = ~stRun
        /\ whTask' = [t \in Tasks |-> IF t \in part THEN "todo" ELSE "done"]
        /\ UNCHANGED <<src, staged, current, table, geography, bridge, part, torn, events>>
    BY <1>4 DEF StartWarehouse
  <2>2. SourceTyped' /\ StagedTyped' /\ OutputTyped' /\ events' \in 0..MaxEvents
    BY <1>1, <2>1 DEF SourceTyped, StagedTyped, OutputTyped, staged
  <2>3. ControlTyped'
    BY <1>1, <2>1 DEF ControlTyped, staged
  <2>4. FlagsTyped'
    BY <1>1, <2>1 DEF FlagsTyped, staged
  <2> QED BY <2>1, <2>2, <2>3, <2>4, FrameTypes
<1>5. ASSUME NEW t \in Tasks, WarehouseTaskFails(t) PROVE TypeOK'
  <2>1. /\ Events(1)
        /\ \E next \in {"todo", "failed"} : whTask' = [whTask EXCEPT ![t] = next]
        /\ current' = [d \in Dimensions |-> IF d = t THEN NoRows ELSE current[d]]
        /\ UNCHANGED <<src, staged, pending, whRun, table, geography, bridge, part, watched>>
    BY <1>5 DEF WarehouseTaskFails
  <2>2. SourceTyped' /\ StagedTyped' /\ OutputTyped' /\ FlagsTyped' /\ StoredTyped'
    BY <1>1, <2>1 DEF SourceTyped, StagedTyped, OutputTyped, FlagsTyped, StoredTyped, staged, watched
  <2>3. ControlTyped'
    BY <1>1, <2>1 DEF ControlTyped, staged
  <2>4. HeldTyped'
    <3>1. DOMAIN NoRows = {}
      BY DEF NoRows
    <3> QED BY <1>1, <2>1, <3>1 DEF HeldTyped
  <2> QED BY <1>1, <2>1, <2>2, <2>3, <2>4, EventsTyped, TypePartsNext
<1>6. CASE UNCHANGED vars
  <2>1. UNCHANGED <<src, stRun, stTask, staging, pending, whRun, whTask, current, table,
                    geography, bridge, part, clean, torn, events>>
    BY <1>6 DEF vars, staged, warehouse, watched
  <2> QED BY <2>1 DEF TypeOK
<1> QED BY <1>2, <1>3, <1>4, <1>5, <1>6, SourceTypes, StagingDagTypes, WarehouseDagTypes DEF Next

\* Every table holds what its columns allow, and every task is where it can be.
THEOREM DagTypeCorrect == Spec => []TypeOK
<1> QED BY DagTypeInit, DagTypeStep, PTL DEF Spec

-----------------------------------------------------------------------------
(* Whose turn it is.                                                       *)

LEMMA UpstreamTasks == \A t \in Tasks : Upstream(t) \subseteq Tasks
BY DEF Upstream, Tasks, Dimensions

\* A step of one task, which is at most done.
LEMMA TaskTurn ==
    ASSUME TypeOK, TurnsInv, NEW t \in Tasks, Running(t), whTask[t] # "done",
           NEW next, whTask' = [whTask EXCEPT ![t] = next],
           UNCHANGED <<staging, stRun, stTask, pending, whRun, part, clean, torn>>
    PROVE  TurnsInv'
<1>1. whTask \in [Tasks -> {"todo", "close", "open", "write", "done", "failed"}]
  BY DEF TypeOK
<1>2. whTask'[t] = next /\ \A u \in Tasks \ {t} : whTask'[u] = whTask[u]
  BY <1>1
<1>3. TakeTurns'
  BY DEF TurnsInv, TakeTurns
<1>4. PartsOnly'
  BY <1>2 DEF TurnsInv, PartsOnly
<1>5. ASSUME NEW u \in Tasks, Running(u) PROVE Running(u)'
  <2>1. \A v \in Upstream(u) : v \in Tasks /\ whTask[v] = "done"
    BY <1>5, UpstreamTasks DEF Running
  <2>2. \A v \in Upstream(u) : whTask'[v] = "done"
    BY <1>2, <2>1
  <2> QED BY <1>5, <2>2 DEF Running
<1>6. InOrder'
  BY <1>2, <1>5 DEF TurnsInv, InOrder
<1> QED BY <1>3, <1>4, <1>6 DEF TurnsInv

\* Which steps of the warehouse DAG are a task's, and what they leave alone.
LEMMA WarehouseTask ==
    ASSUME WarehouseDag
    PROVE  \/ EndWarehouse
           \/ \E t \in Tasks, next \in {"close", "open", "write", "done"} :
                /\ Running(t) /\ whTask[t] # "done"
                /\ whTask' = [whTask EXCEPT ![t] = next]
                /\ UNCHANGED <<src, staging, stRun, stTask, pending, whRun, part, clean, torn>>
<1> USE DEF staged, watched, Task
<1>1. CASE DimShippers \/ DimTerritories \/ DimSuppliers \/ DimCustomer \/ DimProducts
           \/ DimEmployees
  <2>1. PICK d \in Dimensions : FetchAndInsert(d) \/ CloseVersions(d) \/ OpenVersions(d)
    BY <1>1 DEF DimShippers, DimTerritories, DimSuppliers, DimCustomer, DimProducts,
                DimEmployees, WriteType2, Dimensions
  <2>2. d \in Tasks
    BY DEF Tasks
  <2>3. /\ UNCHANGED <<src, staging, stRun, stTask, pending, whRun, part, clean, torn>>
        /\ Running(d) /\ whTask[d] \in {"todo", "close", "open"}
        /\ \E next \in {"close", "open", "done"} : whTask' = [whTask EXCEPT ![d] = next]
    BY <2>1, LoadFrame
  <2> QED BY <2>2, <2>3
<1>2. ASSUME NEW t \in Tasks, NEW here \in {"todo", "write"},
             NEW next \in {"write", "done"}, Task(t, here, next)
      PROVE  /\ Running(t) /\ whTask[t] # "done"
             /\ whTask' = [whTask EXCEPT ![t] = next]
             /\ UNCHANGED <<src, staging, stRun, stTask, pending, whRun, part, clean, torn>>
  BY <1>2
<1>3. "geography" \in Tasks /\ "hierarchy" \in Tasks /\ "bridge" \in Tasks
  BY DEF Tasks
<1>4. CASE DimGeography
  <2>1. Task("geography", "todo", "done")
    BY <1>4 DEF DimGeography
  <2> HIDE DEF Task
  <2> QED BY <1>2, <1>3, <2>1
<1>5. CASE EmployeeHierarchy
  <2>1. Task("hierarchy", "todo", "done")
    BY <1>5 DEF EmployeeHierarchy
  <2> HIDE DEF Task
  <2> QED BY <1>2, <1>3, <2>1
<1>6. CASE BridgeNothing \/ TruncateBridge \/ WriteBridge
  <2>1. \/ Task("bridge", "todo", "done") \/ Task("bridge", "todo", "write")
        \/ Task("bridge", "write", "done")
    BY <1>6 DEF BridgeNothing, TruncateBridge, WriteBridge
  <2> HIDE DEF Task
  <2> QED BY <1>2, <1>3, <2>1
<1> QED BY <1>1, <1>4, <1>5, <1>6 DEF WarehouseDag

LEMMA TurnsInit == Init => TurnsInv
BY DEF Init, TurnsInv, TakeTurns, PartsOnly, InOrder, Running, Tables, Dimensions

\* A step of the staging DAG's tasks: staging runs now, and not beside a clean run.
LEMMA StagingTurn ==
    ASSUME TypeOK, TurnsInv, NEW t \in Tables, NEW next, stRun, stTask[t] # "done",
           stTask' = [stTask EXCEPT ![t] = next],
           t # "geography" => staging'["geography"] = staging["geography"],
           UNCHANGED <<stRun, pending, whRun, whTask, part, clean, torn>>
    PROVE  TurnsInv'
<1>1. stTask \in [Tables -> {"todo", "cleared", "done", "failed"}]
  BY DEF TypeOK
<1>2. TakeTurns' /\ InOrder'
  BY DEF TurnsInv, TakeTurns, InOrder, Running
<1>3. t \in part
  BY DEF TurnsInv, PartsOnly
<1>4. PartsOnly'
  BY <1>1, <1>3 DEF TurnsInv, PartsOnly
<1> QED BY <1>2, <1>4 DEF TurnsInv

LEMMA StagingDagTurn ==
    ASSUME TypeOK, TurnsInv, StagingDag
    PROVE  /\ TurnsInv' /\ stRun
           /\ UNCHANGED <<whRun, whTask, current, table, geography, bridge, part, clean, torn>>
<1>1. ASSUME NEW t \in Tables, NEW query, NEW empty, StagingLoad(t, query, empty)
      PROVE  /\ TurnsInv' /\ stRun
             /\ UNCHANGED <<whRun, whTask, current, table, geography, bridge, part, clean, torn>>
  <2>1. PICK content \in {query, empty}, next \in {"cleared", "done"} :
          /\ stRun /\ stTask[t] # "done"
          /\ stTask' = [stTask EXCEPT ![t] = next]
          /\ staging' = [staging EXCEPT ![t] = content]
          /\ UNCHANGED <<stRun, pending, warehouse, part, watched>>
    BY <1>1 DEF StagingLoad, StagingStep
  <2>2. t # "geography" => staging'["geography"] = staging["geography"]
    BY <2>1
  <2> QED BY <2>1, <2>2, StagingTurn DEF warehouse, watched
<1>2. CASE EndStaging
  <2>1. /\ stRun /\ stRun' = FALSE /\ stTask' = [t \in Tables |-> "done"]
        /\ UNCHANGED <<staging, whRun, whTask, current, table, geography, bridge, part,
                       clean, torn>>
    BY <1>2 DEF EndStaging, warehouse, watched
  <2>2. TakeTurns' /\ PartsOnly' /\ InOrder'
    BY <2>1 DEF TurnsInv, TakeTurns, PartsOnly, InOrder, Running
  <2> QED BY <2>1, <2>2 DEF TurnsInv
<1>3. CASE LoadGeography \/ LoadEmployeeTerritories
  BY <1>1, <1>3 DEF LoadGeography, LoadEmployeeTerritories, Tables
<1>4. CASE LoadProducts \/ LoadSuppliers \/ LoadCustomers \/ LoadEmployees \/ LoadShippers
           \/ LoadTerritories
  BY <1>1, <1>4 DEF LoadProducts, LoadSuppliers, LoadCustomers, LoadEmployees, LoadShippers,
                    LoadTerritories, Tables, Dimensions
<1> QED BY <1>2, <1>3, <1>4 DEF StagingDag

\* The other steps, with whether they end or spoil a clean warehouse run.
LEMMA OtherTurns ==
    ASSUME TypeOK, TurnsInv,
           Source \/ StartStaging \/ (\E t \in Tables : StagingTaskFails(t))
             \/ StartWarehouse \/ EndWarehouse \/ UNCHANGED vars
    PROVE  TurnsInv'
<1>1. CASE Source \/ UNCHANGED vars
  <2>1. UNCHANGED <<staging, stRun, stTask, pending, whRun, whTask, part, clean, torn>>
    BY <1>1 DEF Source, ChangeMember, Reassign, Commit, vars, staged, warehouse, watched
  <2> QED BY <2>1 DEF TurnsInv, TakeTurns, PartsOnly, InOrder, Running
<1>2. CASE StartStaging
  <2>1. /\ stRun' = TRUE /\ stTask' = [t \in Tables |-> IF t \in part THEN "todo" ELSE "done"]
        /\ clean' = (clean /\ ~whRun) /\ torn' = (torn \/ whRun \/ pending)
        /\ UNCHANGED <<staging, pending, whRun, whTask, part>>
    BY <1>2 DEF StartStaging, warehouse
  <2>2. TakeTurns' /\ PartsOnly' /\ InOrder'
    BY <2>1 DEF TurnsInv, TakeTurns, PartsOnly, InOrder, Running
  <2> QED BY <2>2 DEF TurnsInv
<1>3. ASSUME NEW t \in Tables, StagingTaskFails(t) PROVE TurnsInv'
  <2>1. PICK next : stTask' = [stTask EXCEPT ![t] = next]
    BY <1>3 DEF StagingTaskFails
  <2>2. stRun /\ stTask[t] # "done"
        /\ UNCHANGED <<staging, stRun, pending, whRun, whTask, part, clean, torn>>
    BY <1>3 DEF StagingTaskFails, warehouse, watched
  <2> QED BY <2>1, <2>2, StagingTurn
<1>4. CASE StartWarehouse
  <2>1. /\ ~whRun /\ pending /\ whRun' = TRUE /\ pending' = FALSE /\ clean' = ~stRun
        /\ whTask' = [t \in Tasks |-> IF t \in part THEN "todo" ELSE "done"]
        /\ UNCHANGED <<staging, stRun, stTask, part, torn>>
    BY <1>4 DEF StartWarehouse, staged
  <2>2. TakeTurns' /\ PartsOnly'
    BY <2>1 DEF TurnsInv, TakeTurns, PartsOnly
  <2>3. InOrder'
    BY <2>1 DEF InOrder
  <2> QED BY <2>2, <2>3 DEF TurnsInv
<1>5. CASE EndWarehouse
  <2>1. /\ whRun' = FALSE /\ whTask' = [t \in Tasks |-> "done"] /\ clean' = TRUE
        /\ UNCHANGED <<staging, stRun, stTask, pending, part, torn>>
    BY <1>5 DEF EndWarehouse, staged
  <2>2. TakeTurns' /\ PartsOnly' /\ InOrder'
    BY <2>1 DEF TurnsInv, TakeTurns, PartsOnly, InOrder
  <2> QED BY <2>2 DEF TurnsInv
<1> QED BY <1>1, <1>2, <1>3, <1>4, <1>5

\* A task that fails was not done.
LEMMA FailureFrame ==
    ASSUME NEW t \in Tasks, WarehouseTaskFails(t)
    PROVE  /\ Running(t) /\ whTask[t] # "done"
           /\ \E next \in {"todo", "failed"} : whTask' = [whTask EXCEPT ![t] = next]
           /\ current' = [d \in Dimensions |-> IF d = t THEN NoRows ELSE current[d]]
           /\ UNCHANGED <<staging, stRun, stTask, pending, whRun, table, geography, bridge,
                          part, clean, torn>>
BY DEF WarehouseTaskFails, staged, watched

LEMMA TurnsStep == TypeOK /\ TurnsInv /\ [Next]_vars => TurnsInv'
<1> SUFFICES ASSUME TypeOK, TurnsInv, [Next]_vars PROVE TurnsInv'
  OBVIOUS
<1>1. CASE WarehouseDag
  BY <1>1, WarehouseTask, TaskTurn, OtherTurns
<1>2. ASSUME NEW t \in Tasks, WarehouseTaskFails(t) PROVE TurnsInv'
  BY <1>2, FailureFrame, TaskTurn
<1> QED BY <1>1, <1>2, StagingDagTurn, OtherTurns DEF Next

-----------------------------------------------------------------------------
(* One open version.                                                       *)

LEMMA OpenKeysFrame ==
    ASSUME NEW d, table'[d] = table[d]
    PROVE  /\ \A m : OpenKeys(d, m)' = OpenKeys(d, m)
           /\ \A k : RowOf(d, k)' = RowOf(d, k)
BY DEF OpenKeys, RowOf

\* A load's references are resolved against what the tasks before it wrote.
LEMMA LookupFrame ==
    ASSUME NEW d, staging'[d] = staging[d],
           d \in {"suppliers", "customer"} => geography' = geography,
           d = "products" => table'["suppliers"] = table["suppliers"]
    PROVE  /\ \A m : Lookup(d, staging[d][m].ref)' = Lookup(d, staging[d][m].ref)
           /\ \A m : Incoming(d, m)' = Incoming(d, m)
<1>1. ASSUME NEW m
      PROVE  Lookup(d, staging[d][m].ref)' = Lookup(d, staging[d][m].ref)
  <2>1. CASE d \in {"suppliers", "customer"}
    BY <2>1 DEF Lookup, GeographyKeys, OrNoKey
  <2>2. CASE d = "products"
    BY <2>2 DEF Lookup, SupplierKeys, OrNoKey, OpenKeys
  <2>3. CASE d \notin {"suppliers", "customer", "products"}
    BY <2>3 DEF Lookup
  <2> QED BY <2>1, <2>2, <2>3
<1>2. ASSUME NEW m PROVE Incoming(d, m)' = Incoming(d, m)
  <2>1. Lookup(d, staging[d][m].ref)' = Lookup(d, staging[d][m].ref)
    BY <1>1
  <2> QED BY <2>1 DEF Incoming
<1> QED BY <1>1, <1>2

Settles(d) == /\ staging' = staging
              /\ d \in {"suppliers", "customer"} => geography' = geography
              /\ d = "products" => table'["suppliers"] = table["suppliers"]

LEMMA Type2Frame ==
    ASSUME NEW d, Settles(d), current'[d] = current[d]
    PROVE  Type2(d, current[d])' = Type2(d, current[d])
<1>1. \A m : Incoming(d, m)' = Incoming(d, m)
  BY LookupFrame DEF Settles
<1> QED BY <1>1 DEF Type2, Differs

\* What a running load resolves is not being written: what wrote it is done.
LEMMA SettledRunning ==
    ASSUME NEW c \in Dimensions, Running(c), NEW t, whTask[t] # "done", staging' = staging,
           t # "geography" => geography' = geography,
           t # "suppliers" => table'["suppliers"] = table["suppliers"]
    PROVE  Settles(c)
<1>1. c \in {"suppliers", "customer"} => whTask["geography"] = "done"
  BY DEF Running, Upstream
<1>2. c = "products" => whTask["suppliers"] = "done"
  BY DEF Running, Upstream
<1> QED BY <1>1, <1>2 DEF Settles

LEMMA Begun ==
    ASSUME TurnsInv, NEW d \in Tasks, whTask[d] \notin {"todo", "failed", "done"}
    PROVE  whRun /\ d \in part /\ Running(d)
BY DEF TurnsInv, PartsOnly, InOrder

\* What a step of another task leaves of a load that has begun.
LEMMA VersionsFrame ==
    ASSUME NEW c, table'[c] = table[c], HeldRows(c), SingleVersion(c),
           whTask'[c] \in {"todo", "failed", "done"}
             \/ (whTask'[c] = whTask[c] /\ current'[c] = current[c]),
           whTask[c] = "open" => Settles(c)
    PROVE  HeldRows(c)' /\ SingleVersion(c)'
<1>1. /\ \A m : OpenKeys(c, m)' = OpenKeys(c, m)
      /\ \A k : RowOf(c, k)' = RowOf(c, k)
  BY OpenKeysFrame
<1>2. SingleVersion(c)'
  BY <1>1 DEF SingleVersion
<1>3. ASSUME whTask'[c] = "close"
      PROVE  \A k \in DOMAIN current'[c] : OpenKeys(c, k[1])' \subseteq {k}
  BY <1>1, <1>3 DEF HeldRows
<1>4. ASSUME whTask'[c] = "open"
      PROVE  \A y \in Type2(c, current[c])' : OpenKeys(c, y[1][1])' = {}
  <2>1. Type2(c, current[c])' = Type2(c, current[c]) /\ whTask[c] = "open"
    BY <1>4, Type2Frame
  <2> QED BY <1>1, <2>1 DEF HeldRows
<1> QED BY <1>2, <1>3, <1>4 DEF HeldRows

\* A load, statement by statement.
LEMMA LoadVersions ==
    ASSUME TypeOK, NEW d \in Dimensions, HeldRows(d), SingleVersion(d),
           FetchAndInsert(d) \/ CloseVersions(d) \/ OpenVersions(d)
    PROVE  HeldRows(d)' /\ SingleVersion(d)'
<1>1. StagedTyped /\ StoredTyped /\ HeldTyped /\ ControlTyped
  BY TypeParts
<1>2. CASE FetchAndInsert(d)
  <2>1. \A m \in Members[d] :
            /\ OpenKeys(d, m) # {} => OpenKeys(d, m)' = OpenKeys(d, m)
            /\ OpenKeys(d, m) = {} => \A j, k \in OpenKeys(d, m)' : j = k
    BY <1>1, <1>2, FetchEffect
  <2>2. SingleVersion(d)'
    BY <2>1 DEF SingleVersion
  <2>3. \/ whTask'[d] = "done"
        \/ whTask'[d] = "close" /\ current'[d] = Fetched(d)
    BY <1>1, <1>2 DEF FetchAndInsert, Task, Fetched, ControlTyped, HeldTyped, Tasks
  <2>4. ASSUME NEW k \in OpenRows(d) PROVE OpenKeys(d, k[1])' \subseteq {k}
    <3>1. k[1] \in Members[d] /\ k \in OpenKeys(d, k[1])
      BY <1>1, OpenRow
    <3> QED BY <2>1, <3>1 DEF SingleVersion
  <2>5. DOMAIN Fetched(d) = OpenRows(d)
    BY <1>1, Fetching
  <2> QED BY <2>2, <2>3, <2>4, <2>5 DEF HeldRows
<1>3. CASE CloseVersions(d)
  <2>1. \A m \in Members[d] :
            OpenKeys(d, m)' = OpenKeys(d, m) \ {y[1] : y \in Type2(d, current[d])}
    BY <1>1, <1>3, CloseEffect
  <2>2. SingleVersion(d)'
    BY <2>1 DEF SingleVersion
  <2>3. whTask[d] = "close" /\ whTask'[d] = "open" /\ current' = current
    BY <1>1, <1>3 DEF CloseVersions, Task, ControlTyped, Tasks
  <2>4. Settles(d)
    <3>1. staging' = staging /\ geography' = geography
      BY LoadFrame
    <3>2. d # "suppliers" => table'["suppliers"] = table["suppliers"]
      BY <1>1, <1>3, CloseEffect DEF Dimensions
    <3> QED BY <3>1, <3>2 DEF Settles
  <2>5. ASSUME NEW y \in Type2(d, current[d]) PROVE OpenKeys(d, y[1][1])' = {}
    <3>1. y[1] \in DOMAIN current[d] /\ y[1][1] \in Members[d]
      BY <1>1, Type2Pairs DEF HeldTyped, Keys
    <3>2. OpenKeys(d, y[1][1]) \subseteq {y[1]}
      BY <2>3, <3>1 DEF HeldRows
    <3> QED BY <2>1, <3>1, <3>2
  <2>6. Type2(d, current[d])' = Type2(d, current[d])
    BY <2>3, <2>4, Type2Frame
  <2> QED BY <2>2, <2>3, <2>5, <2>6 DEF HeldRows
<1>4. CASE OpenVersions(d)
  <2>1. whTask[d] = "open" /\ whTask'[d] = "done"
    BY <1>1, <1>4 DEF OpenVersions, Task, ControlTyped, Tasks
  <2>2. \A m \in Members[d] :
            /\ ~Promised(d, m) => OpenKeys(d, m)' = OpenKeys(d, m)
            /\ Promised(d, m) => \E k \in OpenKeys(d, m)' :
                    OpenKeys(d, m)' = OpenKeys(d, m) \cup {k}
    BY <1>1, <1>4, OpenEffect
  <2>3. \A m : Promised(d, m) => OpenKeys(d, m) = {}
    BY <2>1 DEF HeldRows, Promised
  <2>4. SingleVersion(d)'
    BY <2>2, <2>3 DEF SingleVersion
  <2> QED BY <2>1, <2>4 DEF HeldRows
<1> QED BY <1>2, <1>3, <1>4

\* What any task's step leaves of the other loads.
LEMMA OtherVersions ==
    ASSUME TypeOK, TurnsInv, NEW t \in Tasks, whTask[t] # "done",
           NEW next, whTask' = [whTask EXCEPT ![t] = next], staging' = staging,
           t # "geography" => geography' = geography,
           t # "suppliers" => table'["suppliers"] = table["suppliers"],
           NEW c \in Dimensions, c # t, table'[c] = table[c], current'[c] = current[c],
           HeldRows(c), SingleVersion(c)
    PROVE  HeldRows(c)' /\ SingleVersion(c)'
<1>1. c \in Tasks /\ whTask'[c] = whTask[c]
  BY DEF TypeOK, Tasks
<1>2. whTask[c] = "open" => Settles(c)
  BY <1>1, Begun, SettledRunning
<1> QED BY <1>1, <1>2, VersionsFrame

LEMMA LoadOf ==
    ASSUME DimShippers \/ DimTerritories \/ DimSuppliers \/ DimCustomer \/ DimProducts
             \/ DimEmployees
    PROVE  \E d \in Dimensions : FetchAndInsert(d) \/ CloseVersions(d) \/ OpenVersions(d)
BY DEF DimShippers, DimTerritories, DimSuppliers, DimCustomer, DimProducts, DimEmployees,
       WriteType2, Dimensions

LEMMA LoadStep ==
    ASSUME TypeOK, NEW d \in Dimensions, FetchAndInsert(d) \/ CloseVersions(d) \/ OpenVersions(d)
    PROVE  /\ \A c \in Dimensions \ {d} : table'[c] = table[c] /\ current'[c] = current[c]
           /\ d \in Tasks /\ d # "geography"
           /\ whTask[d] # "done" /\ Running(d)
           /\ \E next \in {"close", "open", "done"} : whTask' = [whTask EXCEPT ![d] = next]
           /\ UNCHANGED <<src, staging, stRun, stTask, pending, events, whRun, part,
                          clean, torn, geography, bridge>>
<1>1. StagedTyped /\ StoredTyped /\ HeldTyped
  BY TypeParts
<1>2. \A c \in Dimensions \ {d} : table'[c] = table[c]
  BY <1>1, FetchEffect, CloseEffect, OpenEffect
<1>3. \A c \in Dimensions \ {d} : current'[c] = current[c]
  <2>1. CASE FetchAndInsert(d)
    <3>1. current' = IF Type2(d, Fetched(d)) # {} THEN [current EXCEPT ![d] = Fetched(d)]
                     ELSE current
      BY <2>1 DEF FetchAndInsert, Fetched
    <3> QED BY <1>1, <3>1 DEF HeldTyped
  <2>2. CASE CloseVersions(d) \/ OpenVersions(d)
    BY <1>1, <2>2 DEF CloseVersions, OpenVersions, HeldTyped
  <2> QED BY <2>1, <2>2
<1>4. d \in Tasks /\ d # "geography"
  BY DEF Tasks, Dimensions
<1> QED BY <1>2, <1>3, <1>4, LoadFrame

LEMMA VersionsDag ==
    ASSUME TypeOK, TurnsInv, VersionsInv, WarehouseDag
    PROVE  VersionsInv'
<1>0. SUFFICES ASSUME NEW c \in Dimensions, ~torn' PROVE HeldRows(c)' /\ SingleVersion(c)'
  BY DEF VersionsInv
<1>1. torn' = torn
  BY WarehouseTask DEF EndWarehouse
<1>2. \A b \in Dimensions : HeldRows(b) /\ SingleVersion(b)
  BY <1>0, <1>1 DEF VersionsInv
<1>3. StoredTyped
  BY TypeParts
<1>4. CASE DimShippers \/ DimTerritories \/ DimSuppliers \/ DimCustomer \/ DimProducts
           \/ DimEmployees
  <2>1. PICK d \in Dimensions : FetchAndInsert(d) \/ CloseVersions(d) \/ OpenVersions(d)
    BY <1>4, LoadOf
  <2>2. CASE c = d
    BY <1>2, <2>1, <2>2, LoadVersions
  <2>3. CASE c # d
    <3>1. /\ table'[c] = table[c] /\ current'[c] = current[c]
          /\ d # "suppliers" => table'["suppliers"] = table["suppliers"]
          /\ d \in Tasks /\ whTask[d] # "done"
          /\ geography' = geography /\ staging' = staging
          /\ \E next : whTask' = [whTask EXCEPT ![d] = next]
      BY <2>1, <2>3, LoadStep DEF Dimensions
    <3> QED BY <1>2, <2>3, <3>1, OtherVersions
  <2> QED BY <2>2, <2>3
<1>5. CASE DimGeography \/ BridgeNothing \/ TruncateBridge \/ WriteBridge
  <2>1. PICK t \in {"geography", "bridge"}, next \in {"write", "done"} :
          /\ whTask[t] # "done" /\ whTask' = [whTask EXCEPT ![t] = next]
          /\ t # "geography" => geography' = geography
          /\ UNCHANGED <<table, current, staging>>
    BY <1>5 DEF DimGeography, BridgeNothing, TruncateBridge, WriteBridge, Task, staged
  <2>2. t \in Tasks /\ c # t
    BY DEF Tasks, Dimensions
  <2> QED BY <1>2, <2>1, <2>2, OtherVersions
<1>6. CASE EmployeeHierarchy
  <2>1. /\ whTask["hierarchy"] = "todo" /\ whTask' = [whTask EXCEPT !["hierarchy"] = "done"]
        /\ Running("hierarchy") /\ UNCHANGED <<current, geography, staging>>
    BY <1>6 DEF EmployeeHierarchy, Task, staged
  <2>2. /\ \A b \in Dimensions \ {"employees"} : table'[b] = table[b]
        /\ \A m \in Members["employees"] :
                OpenKeys("employees", m)' = OpenKeys("employees", m)
    BY <1>3, <1>6, HierarchyEffect
  <2>3. "hierarchy" \in Tasks /\ c # "hierarchy" /\ "suppliers" \in Dimensions
    BY DEF Tasks, Dimensions
  <2>4. CASE c # "employees"
    BY <1>2, <2>1, <2>2, <2>3, <2>4, OtherVersions
  <2>5. CASE c = "employees"
    <3>1. whTask["employees"] = "done"
      BY <2>1 DEF Running, Upstream
    <3>2. whTask'["employees"] = "done"
      BY <2>1, <3>1 DEF TypeOK
    <3>3. HeldRows("employees")'
      BY <3>2 DEF HeldRows
    <3>4. SingleVersion("employees")'
      BY <1>2, <2>2, <2>5 DEF SingleVersion
    <3> QED BY <2>5, <3>3, <3>4
  <2> QED BY <2>4, <2>5
<1>7. CASE EndWarehouse
  <2>1. table' = table /\ whTask'[c] = "done"
    BY <1>7 DEF EndWarehouse, Tasks
  <2>2. SingleVersion(c)'
    BY <1>2, <2>1, OpenKeysFrame DEF SingleVersion
  <2> QED BY <2>1, <2>2 DEF HeldRows
<1> QED BY <1>4, <1>5, <1>6, <1>7 DEF WarehouseDag

LEMMA VersionsStep == TypeOK /\ TurnsInv /\ VersionsInv /\ [Next]_vars => VersionsInv'
<1> SUFFICES ASSUME TypeOK, TurnsInv, VersionsInv, [Next]_vars PROVE VersionsInv'
  OBVIOUS
<1>2. ASSUME torn => torn', table' = table,
             \A c \in Dimensions :
                \/ whTask'[c] \in {"todo", "failed", "done"}
                \/ whTask'[c] = whTask[c] /\ current'[c] = current[c] /\ Settles(c)
      PROVE  VersionsInv'
  <2> SUFFICES ASSUME NEW c \in Dimensions, ~torn' PROVE HeldRows(c)' /\ SingleVersion(c)'
    BY DEF VersionsInv
  <2>1. HeldRows(c) /\ SingleVersion(c)
    BY <1>2 DEF VersionsInv
  <2>2. CASE whTask'[c] \in {"todo", "failed", "done"}
    <3>1. SingleVersion(c)'
      BY <1>2, <2>1, OpenKeysFrame DEF SingleVersion
    <3> QED BY <2>2, <3>1 DEF HeldRows
  <2>3. CASE whTask'[c] = whTask[c] /\ current'[c] = current[c] /\ Settles(c)
    BY <1>2, <2>1, <2>3, VersionsFrame
  <2> QED BY <1>2, <2>2, <2>3
<1>3. CASE Source \/ StartStaging \/ (\E t \in Tables : StagingTaskFails(t)) \/ UNCHANGED vars
  <2>1. UNCHANGED <<staging, whTask, current, table, geography>> /\ (torn => torn')
    <3>1. CASE StartStaging
      <4>1. UNCHANGED <<staging, whTask, current, table, geography>>
        BY <3>1 DEF StartStaging, warehouse
      <4>2. torn' = (torn \/ whRun \/ pending)
        BY <3>1 DEF StartStaging
      <4>3. torn => torn'
        BY <4>2, Zenon
      <4> QED BY <4>1, <4>3
    <3> QED BY <1>3, <3>1 DEF Source, ChangeMember, Reassign, Commit, StagingTaskFails,
                vars, staged, warehouse, watched
  <2>2. \A c \in Dimensions : Settles(c)
    BY <2>1 DEF Settles
  <2> QED BY <1>2, <2>1, <2>2
<1>4. CASE StagingDag
  <2>1. stRun /\ UNCHANGED <<whTask, table, torn>>
    BY <1>4, StagingDagTurn
  <2>2. CASE torn
    BY <2>1, <2>2 DEF VersionsInv
  <2>3. CASE ~torn
    <3>1. ~whRun
      BY <2>1, <2>3 DEF TurnsInv, TakeTurns
    <3>2. \A c \in Dimensions : whTask'[c] = "done"
      BY <2>1, <3>1 DEF TurnsInv, PartsOnly, Tasks
    <3> QED BY <1>2, <2>1, <3>2
  <2> QED BY <2>2, <2>3
<1>5. CASE StartWarehouse
  <2>1. /\ table' = table /\ torn' = torn
        /\ \A c \in Dimensions : whTask'[c] \in {"todo", "done"}
    BY <1>5 DEF StartWarehouse, Tasks
  <2> QED BY <1>2, <2>1
<1>6. ASSUME NEW t \in Tasks, WarehouseTaskFails(t) PROVE VersionsInv'
  <2>1. PICK next \in {"todo", "failed"} :
          /\ whTask' = [whTask EXCEPT ![t] = next]
          /\ current' = [d \in Dimensions |-> IF d = t THEN NoRows ELSE current[d]]
          /\ UNCHANGED <<staging, table, geography, torn>>
    BY <1>6, FailureFrame
  <2>2. \A c \in Dimensions : Settles(c)
    BY <2>1 DEF Settles
  <2>3. \A c \in Dimensions :
            \/ whTask'[c] \in {"todo", "failed"}
            \/ whTask'[c] = whTask[c] /\ current'[c] = current[c]
    BY <2>1 DEF TypeOK, Tasks
  <2> QED BY <1>2, <2>1, <2>2, <2>3
<1> QED BY <1>3, <1>4, <1>5, <1>6, VersionsDag DEF Next

THEOREM VersionsInvariant == Spec => [](TurnsInv /\ VersionsInv)
<1>1. Init => VersionsInv
  <2> SUFFICES ASSUME Init, NEW d \in Dimensions PROVE HeldRows(d) /\ SingleVersion(d)
    BY DEF VersionsInv
  <2>1. \A m \in Members[d] : OpenKeys(d, m) = {}
    BY DEF Init, OpenKeys
  <2>2. whTask[d] = "done"
    BY DEF Init, Tasks
  <2> QED BY <2>1, <2>2 DEF HeldRows, SingleVersion
<1> QED BY <1>1, TurnsInit, TurnsStep, VersionsStep, DagTypeCorrect, PTL DEF Spec

\* Overlapping runs apart, no member ever has two open versions: a load that
\* dies after closing one and starts again opens one and only one
\* (_write_type2_dimension).
THEOREM OneVersionOpen == Spec => []OneOpenVersion
<1>1. VersionsInv => OneOpenVersion
  <2> SUFFICES ASSUME VersionsInv, ~torn, NEW d \in Dimensions, NEW m \in Members[d]
               PROVE  Cardinality(OpenKeys(d, m)) <= 1
    BY DEF OneOpenVersion
  <2>1. \A j, k \in OpenKeys(d, m) : j = k
    BY DEF VersionsInv, SingleVersion
  <2>2. CASE OpenKeys(d, m) = {}
    BY <2>2, FS_EmptySet
  <2>3. CASE OpenKeys(d, m) # {}
    <3>1. PICK k \in OpenKeys(d, m) : OpenKeys(d, m) = {k}
      BY <2>1, <2>3
    <3>2. Cardinality({k}) = 1
      BY FS_Singleton
    <3> QED BY <3>1, <3>2
  <2> QED BY <2>2, <2>3
<1> QED BY <1>1, VersionsInvariant, PTL

-----------------------------------------------------------------------------
(* What a clean warehouse run has loaded so far.                           *)

\* A row that says what comes for a member stores it.
LEMMA StoredByNewRow ==
    ASSUME StagedTyped, NEW d \in Dimensions, Settles(d), NEW m, NEW k \in OpenKeys(d, m)',
           NEW r \in Incoming(d, m), RowOf(d, k)'.t1 = r.t1, RowOf(d, k)'.t2 = r.t2,
           RowOf(d, k)'.ref = r.ref
    PROVE  Stored(d, m)'
<1>1. /\ r.t1 = staging[d][m].t1 /\ r.t2 = staging[d][m].t2
      /\ r.ref \in Lookup(d, staging[d][m].ref)
  BY IncomingRecord
<1>2. /\ Lookup(d, staging[d][m].ref)' = Lookup(d, staging[d][m].ref)
      /\ staging' = staging
  BY LookupFrame DEF Settles
<1>3. /\ RowOf(d, k)'.t1 = staging'[d][m].t1 /\ RowOf(d, k)'.t2 = staging'[d][m].t2
      /\ RowOf(d, k)'.ref \in Lookup(d, staging[d][m].ref)'
  BY <1>1, <1>2
<1> QED BY <1>3 DEF Stored

\* A row that is not written goes on storing what it stored.
LEMMA StillStored ==
    ASSUME NEW d \in Dimensions, Settles(d), NEW m, Stored(d, m),
           \A k \in OpenKeys(d, m) :
                /\ k \in OpenKeys(d, m)'
                /\ RowOf(d, k)'.t1 = RowOf(d, k).t1 /\ RowOf(d, k)'.t2 = RowOf(d, k).t2
                /\ RowOf(d, k)'.ref = RowOf(d, k).ref
    PROVE  Stored(d, m)'
<1>1. PICK k \in OpenKeys(d, m) :
        /\ RowOf(d, k).t1 = staging[d][m].t1 /\ RowOf(d, k).t2 = staging[d][m].t2
        /\ RowOf(d, k).ref \in Lookup(d, staging[d][m].ref)
  BY DEF Stored
<1>2. /\ Lookup(d, staging[d][m].ref)' = Lookup(d, staging[d][m].ref)
      /\ staging' = staging
  BY LookupFrame DEF Settles
<1>3. /\ k \in OpenKeys(d, m)'
      /\ RowOf(d, k)'.t1 = staging'[d][m].t1 /\ RowOf(d, k)'.t2 = staging'[d][m].t2
      /\ RowOf(d, k)'.ref \in Lookup(d, staging[d][m].ref)'
  BY <1>1, <1>2
<1> QED BY <1>3 DEF Stored

LEMMA LoadedFrame ==
    ASSUME NEW c \in Dimensions, table'[c] = table[c], Settles(c), DimensionLoaded(c),
           whTask'[c] \in {"todo", "failed"}
             \/ (whTask'[c] = whTask[c] /\ current'[c] = current[c])
    PROVE  DimensionLoaded(c)'
<1> SUFFICES ASSUME whTask'[c] \in {"close", "open", "done"}, NEW m \in DOMAIN staging'[c]
             PROVE  Stored(c, m)' \/ (whTask'[c] # "done" /\ Promised(c, m)')
  BY DEF DimensionLoaded
<1>1. whTask'[c] = whTask[c] /\ current'[c] = current[c] /\ staging' = staging
  BY DEF Settles
<1>2. Stored(c, m) \/ (whTask[c] # "done" /\ Promised(c, m))
  BY <1>1 DEF DimensionLoaded
<1>3. /\ \A k : RowOf(c, k)' = RowOf(c, k)
      /\ OpenKeys(c, m)' = OpenKeys(c, m)
      /\ Type2(c, current[c])' = Type2(c, current[c])
  BY <1>1, OpenKeysFrame, Type2Frame
<1>4. Stored(c, m) => Stored(c, m)'
  BY <1>3, StillStored
<1>5. Promised(c, m) => Promised(c, m)'
  BY <1>3 DEF Promised
<1> QED BY <1>1, <1>2, <1>4, <1>5

\* A load reads what is staged for a member, and writes it or promises to.
LEMMA FetchLoads ==
    ASSUME TypeOK, NEW d \in Dimensions, FetchAndInsert(d)
    PROVE  DimensionLoaded(d)'
<1>1. StagedTyped /\ StoredTyped /\ HeldTyped /\ ControlTyped
  BY TypeParts
<1>2. Settles(d)
  <2>1. staging' = staging /\ geography' = geography
    BY LoadFrame
  <2>2. d # "suppliers" => table'["suppliers"] = table["suppliers"]
    BY <1>1, FetchEffect DEF Dimensions
  <2> QED BY <2>1, <2>2 DEF Settles
<1> SUFFICES ASSUME NEW m \in DOMAIN staging'[d]
             PROVE  Stored(d, m)' \/ (whTask'[d] # "done" /\ Promised(d, m)')
  BY DEF DimensionLoaded
<1>3. m \in DOMAIN staging[d] /\ m \in Members[d]
  BY <1>1, <1>2, IncomingRecord DEF Settles
<1>4. CASE OpenKeys(d, m) = {}
  <2>1. PICK k \in OpenKeys(d, m)', r \in Incoming(d, m) : RowOf(d, k)' = NewRow(r)
    BY <1>1, <1>3, <1>4, FetchEffect
  <2>2. Stored(d, m)'
    BY <1>1, <1>2, <2>1, NewRowSays, StoredByNewRow
  <2> QED BY <2>2
<1>5. CASE OpenKeys(d, m) # {}
  <2>1. PICK k \in OpenKeys(d, m), s \in Incoming(d, m) : TRUE
    BY <1>1, <1>3, <1>5, IncomingRecord
  <2>2. k \in OpenRows(d) /\ k[1] = m /\ k \in OpenKeys(d, m)'
    BY <1>1, <1>3, <1>5, FetchEffect, OpenKey DEF OpenRows
  <2>3. CASE ~Differs(RowOf(d, k), s)
    <3>1. /\ RowOf(d, k)'.t1 = s.t1 /\ RowOf(d, k)'.t2 = RowOf(d, k).t2
          /\ RowOf(d, k)'.ref = RowOf(d, k).ref
      BY <1>1, <2>2, <2>3, FetchEffect
    <3>2. s.t2 = RowOf(d, k).t2 /\ s.ref = RowOf(d, k).ref
      BY <2>3 DEF Differs
    <3>3. Stored(d, m)'
      BY <1>1, <1>2, <2>2, <3>1, <3>2, StoredByNewRow
    <3> QED BY <3>3
  <2>4. CASE Differs(RowOf(d, k), s)
    <3>1. /\ DOMAIN Fetched(d) = OpenRows(d) /\ Fetched(d)[k] = RowOf(d, k)
      BY <1>1, <2>2, Fetching
    <3>2. <<k, s>> \in Type2(d, Fetched(d))
      BY <2>2, <2>4, <3>1 DEF Type2
    <3>3. whTask'[d] = "close" /\ current'[d] = Fetched(d)
      BY <1>1, <3>2 DEF FetchAndInsert, Task, Fetched, ControlTyped, HeldTyped, Tasks
    <3>4. Incoming(d, m)' = Incoming(d, m)
      BY <1>2, LookupFrame DEF Settles
    <3>5. k \in DOMAIN current'[d] /\ s \in Incoming(d, k[1])' /\ current'[d][k] = RowOf(d, k)
      BY <2>2, <3>1, <3>3, <3>4
    <3>6. <<k, s>> \in Type2(d, current[d])'
      BY <2>4, <3>5 DEF Type2, Differs
    <3>7. Promised(d, m)'
      BY <2>2, <3>6 DEF Promised
    <3> QED BY <3>3, <3>7
  <2> QED BY <2>3, <2>4
<1> QED BY <1>4, <1>5

LEMMA CloseLoads ==
    ASSUME TypeOK, NEW d \in Dimensions, CloseVersions(d), DimensionLoaded(d)
    PROVE  DimensionLoaded(d)'
<1>1. StagedTyped /\ StoredTyped /\ HeldTyped /\ ControlTyped
  BY TypeParts
<1>2. /\ whTask[d] = "close" /\ whTask'[d] = "open" /\ current' = current
      /\ staging' = staging
  BY <1>1, LoadFrame DEF CloseVersions, Task, ControlTyped, Tasks
<1>3. Settles(d)
  <2>1. geography' = geography
    BY LoadFrame
  <2>2. d # "suppliers" => table'["suppliers"] = table["suppliers"]
    BY <1>1, CloseEffect DEF Dimensions
  <2> QED BY <1>2, <2>1, <2>2 DEF Settles
<1> SUFFICES ASSUME NEW m \in DOMAIN staging[d] PROVE Stored(d, m)' \/ Promised(d, m)'
  BY <1>2 DEF DimensionLoaded
<1>4. m \in Members[d]
  BY <1>1, IncomingRecord
<1>5. Promised(d, m)' <=> Promised(d, m)
  BY <1>2, <1>3, Type2Frame DEF Promised
<1>6. CASE ~Promised(d, m)
  <2>1. Stored(d, m)
    BY <1>2, <1>6 DEF DimensionLoaded
  <2>2. ASSUME NEW k \in OpenKeys(d, m)
        PROVE  k \in OpenKeys(d, m)' /\ RowOf(d, k)' = RowOf(d, k)
    <3>1. k[1] = m
      BY <1>1, <1>4, OpenKey
    <3>2. k \notin {y[1] : y \in Type2(d, current[d])}
      BY <1>6, <3>1 DEF Promised
    <3> QED BY <1>1, <1>4, <3>2, CloseEffect
  <2> QED BY <1>3, <2>1, <2>2, StillStored
<1> QED BY <1>5, <1>6

LEMMA OpenLoads ==
    ASSUME TypeOK, NEW d \in Dimensions, OpenVersions(d), DimensionLoaded(d)
    PROVE  DimensionLoaded(d)'
<1>1. StagedTyped /\ StoredTyped /\ HeldTyped /\ ControlTyped
  BY TypeParts
<1>2. whTask[d] = "open" /\ staging' = staging
  BY LoadFrame DEF OpenVersions, Task
<1>3. Settles(d)
  <2>1. geography' = geography
    BY LoadFrame
  <2>2. d # "suppliers" => table'["suppliers"] = table["suppliers"]
    BY <1>1, OpenEffect DEF Dimensions
  <2> QED BY <1>2, <2>1, <2>2 DEF Settles
<1> SUFFICES ASSUME NEW m \in DOMAIN staging[d] PROVE Stored(d, m)'
  BY <1>2 DEF DimensionLoaded
<1>4. m \in Members[d] /\ (Stored(d, m) \/ Promised(d, m))
  BY <1>1, <1>2, IncomingRecord DEF DimensionLoaded
<1>5. CASE Promised(d, m)
  <2>1. PICK k \in OpenKeys(d, m)', r \in Incoming(d, m) : RowOf(d, k)' = NewRow(r)
    BY <1>1, <1>4, <1>5, OpenEffect
  <2> QED BY <1>1, <1>3, <2>1, NewRowSays, StoredByNewRow
<1>6. CASE ~Promised(d, m)
  <2>1. /\ OpenKeys(d, m)' = OpenKeys(d, m)
        /\ \A k \in OpenKeys(d, m) : RowOf(d, k)' = RowOf(d, k)
    BY <1>1, <1>4, <1>6, OpenEffect
  <2> QED BY <1>3, <1>4, <1>6, <2>1, StillStored
<1> QED BY <1>5, <1>6

\* Nothing loads employees once their managers are resolved, nor employees or
\* territories once the bridge is being written.
LEMMA HierarchyIsLast ==
    ASSUME TurnsInv, whRun, "employees" \in part, whTask["hierarchy"] = "done",
           PartsAssumption, ControlTyped
    PROVE  whTask["employees"] = "done"
<1>1. "hierarchy" \in part /\ "hierarchy" \in Tasks
  BY DEF ControlTyped, Tasks
<1>2. Running("hierarchy")
  BY <1>1 DEF TurnsInv, InOrder
<1> QED BY <1>2 DEF Running, Upstream

LEMMA BridgeIsLast ==
    ASSUME TypeOK, TurnsInv, Running("bridge")
    PROVE  /\ whTask["hierarchy"] = "done" /\ whTask["territories"] = "done"
           /\ whTask["employees"] = "done"
<1>1. /\ whRun /\ whTask["hierarchy"] = "done" /\ whTask["territories"] = "done"
  BY DEF Running, Upstream
<1>2. ControlTyped /\ "employees" \in Tasks
  BY TypeParts DEF Tasks, Dimensions
<1>3. "employees" \notin part => whTask["employees"] = "done"
  BY <1>2 DEF TurnsInv, PartsOnly
<1> QED BY <1>1, <1>2, <1>3, HierarchyIsLast, PartsAssumption

\* The key looked up for an employee's manager, when no version opens or closes.
LEMMA ManagerFrame ==
    ASSUME \A m \in Members["employees"] :
                OpenKeys("employees", m)' = OpenKeys("employees", m),
           NEW k, NEW e \in Members["employees"] \cup {NoKey},
           RowOf("employees", k)'.ref = e
    PROVE  ManagerKeys(RowOf("employees", k).ref)' = ManagerKeys(e)
<1>1. CASE e = NoKey
  BY <1>1 DEF ManagerKeys
<1>2. CASE e # NoKey
  <2>1. OpenKeys("employees", e)' = OpenKeys("employees", e)
    BY <1>2
  <2>2. OpenKeys("employees", RowOf("employees", k).ref)' = OpenKeys("employees", e)
    BY <2>1, Zenon DEF OpenKeys
  <2> QED BY <1>2, <2>2, Zenon DEF ManagerKeys, OrNoKey
<1> QED BY <1>1, <1>2

LEMMA ManagersFrame ==
    ASSUME table'["employees"] = table["employees"], part' = part,
           whTask'["hierarchy"] = "done" => whTask["hierarchy"] = "done",
           ManagersResolved
    PROVE  ManagersResolved'
<1> SUFFICES ASSUME "employees" \in part, whTask["hierarchy"] = "done",
                    NEW k \in OpenRows("employees")',
                    RowOf("employees", k)'.ref \in Members["employees"] \cup {NoKey}
             PROVE  RowOf("employees", k)'.parent \in ManagerKeys(RowOf("employees", k).ref)'
  BY DEF ManagersResolved
<1>1. /\ \A m : OpenKeys("employees", m)' = OpenKeys("employees", m)
      /\ RowOf("employees", k)' = RowOf("employees", k)
  BY OpenKeysFrame
<1>2. k \in OpenRows("employees")
  BY <1>1 DEF OpenRows
<1>3. RowOf("employees", k).parent \in ManagerKeys(RowOf("employees", k).ref)
  BY <1>1, <1>2 DEF ManagersResolved
<1>4. ManagerKeys(RowOf("employees", k).ref)' = ManagerKeys(RowOf("employees", k).ref)
  BY <1>1, ManagerFrame
<1> QED BY <1>1, <1>3, <1>4

LEMMA ResolvingManagers ==
    ASSUME StoredTyped, EmployeeHierarchy
    PROVE  ManagersResolved'
<1>1. /\ \A m \in Members["employees"] :
                OpenKeys("employees", m)' = OpenKeys("employees", m)
      /\ \A k \in OpenRows("employees") :
                \E p \in ManagerKeys(RowOf("employees", k).ref) :
                    RowOf("employees", k)' = [RowOf("employees", k) EXCEPT !.parent = p]
  BY HierarchyEffect
<1> SUFFICES ASSUME NEW k \in OpenRows("employees")',
                    RowOf("employees", k)'.ref \in Members["employees"] \cup {NoKey}
             PROVE  RowOf("employees", k)'.parent \in ManagerKeys(RowOf("employees", k).ref)'
  BY DEF ManagersResolved
<1>2. k \in OpenRows("employees") /\ "employees" \in Dimensions
  BY <1>1 DEF OpenRows, Dimensions
<1>3. PICK p \in ManagerKeys(RowOf("employees", k).ref) :
            RowOf("employees", k)' = [RowOf("employees", k) EXCEPT !.parent = p]
  BY <1>1, <1>2
<1>4. /\ RowOf("employees", k)'.ref = RowOf("employees", k).ref
      /\ RowOf("employees", k)'.parent = p
  <2>1. RowOf("employees", k) \in Row("employees")
    BY <1>2, OpenRow
  <2> QED BY <1>3, <2>1 DEF Row
<1>5. ManagerKeys(RowOf("employees", k).ref)' = ManagerKeys(RowOf("employees", k).ref)
  BY <1>1, <1>4, ManagerFrame
<1> QED BY <1>3, <1>4, <1>5

\* The bridge's inputs, when neither of its dimensions is written.
LEMMA BridgeInputs ==
    ASSUME table'["employees"] = table["employees"],
           table'["territories"] = table["territories"], staging' = staging
    PROVE  /\ CanBridge' = CanBridge
           /\ Join(staging["assignments"])' = Join(staging["assignments"])
<1>1. /\ \A m : OpenKeys("employees", m)' = OpenKeys("employees", m)
      /\ \A m : OpenKeys("territories", m)' = OpenKeys("territories", m)
  BY OpenKeysFrame
<1>2. CanBridge' = CanBridge
  BY <1>1 DEF CanBridge, OpenRows
<1>3. Join(staging["assignments"])' = Join(staging["assignments"])
  BY <1>1 DEF Join, OpenKeys
<1> QED BY <1>2, <1>3

LEMMA BridgeFrame ==
    ASSUME staging' = staging, bridge' = bridge, part' = part, BridgeLoaded,
           whTask'["bridge"] \in {"todo", "failed"} \/
                /\ whTask'["bridge"] = whTask["bridge"]
                /\ "bridge" \in part /\ whTask["bridge"] = "done" =>
                        /\ table'["employees"] = table["employees"]
                        /\ table'["territories"] = table["territories"]
    PROVE  BridgeLoaded'
BY BridgeInputs DEF BridgeLoaded

\* The bridge task empties the table and then writes the join.
LEMMA BridgeLoads ==
    ASSUME TypeOK, BridgeLoaded, BridgeNothing \/ TruncateBridge \/ WriteBridge
    PROVE  BridgeLoaded'
<1>1. UNCHANGED <<staging, table, part>>
  BY DEF BridgeNothing, TruncateBridge, WriteBridge, Task, staged
<1>2. /\ CanBridge' = CanBridge
      /\ Join(staging["assignments"])' = Join(staging["assignments"])
  BY <1>1, BridgeInputs
<1>3. "bridge" \in Tasks /\ DOMAIN whTask = Tasks
  BY DEF TypeOK, Tasks
<1>4. CASE BridgeNothing
  <2>1. whTask'["bridge"] = "done" /\ ~CanBridge'
    BY <1>2, <1>3, <1>4 DEF BridgeNothing, Task
  <2> QED BY <2>1 DEF BridgeLoaded
<1>5. CASE TruncateBridge
  <2>1. whTask'["bridge"] = "write" /\ bridge' = {}
    BY <1>3, <1>5 DEF TruncateBridge, Task
  <2> QED BY <2>1 DEF BridgeLoaded
<1>6. CASE WriteBridge
  <2>1. /\ whTask["bridge"] = "write" /\ whTask'["bridge"] = "done"
        /\ bridge' = bridge \cup Join(staging["assignments"])
    BY <1>3, <1>6 DEF WriteBridge, Task
  <2>2. "bridge" \in part' => bridge' = Join(staging["assignments"])'
    BY <1>1, <1>2, <2>1 DEF BridgeLoaded
  <2> QED BY <2>1, <2>2 DEF BridgeLoaded
<1> QED BY <1>4, <1>5, <1>6

\* A step of task t leaves what the other tasks have loaded as it is.
LEMMA LoadedOther ==
    ASSUME TypeOK, TurnsInv, whRun, clean, LoadedInv,
           NEW t \in Tasks, Running(t), whTask[t] # "done",
           NEW next, whTask' = [whTask EXCEPT ![t] = next],
           UNCHANGED <<staging, part>>,
           NEW written \in Dimensions \cup {"none"},
           written = IF t = "hierarchy" THEN "employees"
                     ELSE IF t \in Dimensions THEN t ELSE "none",
           \A c \in Dimensions \ {written} : table'[c] = table[c],
           \A c \in Dimensions \ {t} : current'[c] = current[c],
           t # "geography" => geography' = geography,
           t # "bridge" => bridge' = bridge
    PROVE  /\ \A c \in (Dimensions \cap part) \ {t, written} : DimensionLoaded(c)'
           /\ t # "geography" => GeographyLoaded'
           /\ t # "hierarchy" => ManagersResolved'
           /\ t # "bridge" => BridgeLoaded'
<1>1. ControlTyped /\ DOMAIN whTask = Tasks /\ "hierarchy" \notin Dimensions
  BY TypeParts DEF ControlTyped, Dimensions
<1>2. \A u \in Tasks \ {t} : whTask'[u] = whTask[u]
  BY <1>1
<1>3. ASSUME NEW c \in (Dimensions \cap part) \ {t, written} PROVE DimensionLoaded(c)'
  <2>1. c \in Tasks /\ whTask'[c] = whTask[c] /\ table'[c] = table[c] /\ current'[c] = current[c]
    BY <1>2 DEF Tasks
  <2>2. DimensionLoaded(c)
    BY DEF LoadedInv
  <2>3. CASE whTask[c] \in {"todo", "failed"}
    BY <2>1, <2>3 DEF DimensionLoaded
  <2>4. CASE whTask[c] \notin {"todo", "failed"}
    <3>1. Running(c)
      BY <2>1, <2>4 DEF TurnsInv, InOrder
    <3>2. t # "suppliers" => table'["suppliers"] = table["suppliers"]
      BY <1>1 DEF Dimensions
    <3>3. Settles(c)
      BY <3>1, <3>2, SettledRunning
    <3> QED BY <2>1, <2>2, <3>3, LoadedFrame
  <2> QED BY <2>3, <2>4
<1>4. ASSUME t # "geography" PROVE GeographyLoaded'
  <2>1. whTask'["geography"] = whTask["geography"]
    BY <1>2, <1>4 DEF Tasks
  <2> QED BY <1>4, <2>1 DEF LoadedInv, GeographyLoaded
<1>5. ASSUME t # "hierarchy" PROVE ManagersResolved'
  <2>1. whTask'["hierarchy"] = whTask["hierarchy"]
    BY <1>2, <1>5 DEF Tasks
  <2>2. CASE "employees" \in part /\ whTask["hierarchy"] = "done"
    <3>1. t # "employees"
      BY <1>1, <2>2, HierarchyIsLast, PartsAssumption
    <3>2. table'["employees"] = table["employees"]
      BY <1>5, <3>1 DEF Dimensions
    <3> QED BY <2>1, <3>2, ManagersFrame DEF LoadedInv
  <2>3. CASE ~("employees" \in part /\ whTask["hierarchy"] = "done")
    BY <2>1, <2>3 DEF ManagersResolved
  <2> QED BY <2>2, <2>3
<1>6. ASSUME t # "bridge" PROVE BridgeLoaded'
  <2>1. whTask'["bridge"] = whTask["bridge"] /\ "bridge" \in Tasks
    BY <1>2, <1>6 DEF Tasks
  <2>2. ASSUME "bridge" \in part, whTask["bridge"] = "done"
        PROVE  /\ table'["employees"] = table["employees"]
               /\ table'["territories"] = table["territories"]
    <3>1. Running("bridge")
      BY <2>1, <2>2 DEF TurnsInv, InOrder
    <3>2. t \notin {"hierarchy", "territories", "employees"}
      BY <3>1, BridgeIsLast
    <3> QED BY <3>2 DEF Dimensions
  <2> QED BY <1>6, <2>1, <2>2, BridgeFrame DEF LoadedInv
<1> QED BY <1>3, <1>4, <1>5, <1>6

LEMMA LoadedDag ==
    ASSUME TypeOK, TurnsInv, LoadedInv, WarehouseDag
    PROVE  LoadedInv'
<1>0. ASSUME EndWarehouse PROVE LoadedInv'
  BY <1>0 DEF EndWarehouse, LoadedInv
<1> SUFFICES ASSUME whRun', clean', ~EndWarehouse
             PROVE  /\ \A d \in Dimensions \cap part' : DimensionLoaded(d)'
                    /\ GeographyLoaded' /\ ManagersResolved' /\ BridgeLoaded'
  BY <1>0 DEF LoadedInv
<1>1. /\ whRun /\ clean
      /\ UNCHANGED <<staging, part>>
  BY WarehouseTask
<1>2. StoredTyped /\ ControlTyped
  BY TypeParts
<1>3. CASE DimShippers \/ DimTerritories \/ DimSuppliers \/ DimCustomer \/ DimProducts
           \/ DimEmployees
  <2>1. PICK d \in Dimensions : FetchAndInsert(d) \/ CloseVersions(d) \/ OpenVersions(d)
    BY <1>3, LoadOf
  <2>2. /\ \A c \in Dimensions \ {d} : table'[c] = table[c] /\ current'[c] = current[c]
        /\ d \in Tasks /\ whTask[d] # "done" /\ Running(d)
        /\ \E next : whTask' = [whTask EXCEPT ![d] = next]
        /\ geography' = geography /\ bridge' = bridge
    BY <2>1, LoadStep
  <2>3. d \notin {"hierarchy", "geography", "bridge"}
    BY DEF Dimensions
  <2>4. /\ \A c \in (Dimensions \cap part) \ {d} : DimensionLoaded(c)'
        /\ GeographyLoaded' /\ ManagersResolved' /\ BridgeLoaded'
    BY <1>1, <2>2, <2>3, LoadedOther
  <2>5. d \in part => DimensionLoaded(d)'
    BY <1>1, <2>1, FetchLoads, CloseLoads, OpenLoads DEF LoadedInv
  <2> QED BY <1>1, <2>4, <2>5
<1>4. CASE DimGeography
  <2>1. /\ Running("geography") /\ whTask["geography"] # "done"
        /\ whTask' = [whTask EXCEPT !["geography"] = "done"]
        /\ UNCHANGED <<current, table, bridge>>
        /\ geography' = geography \cup staging["geography"]
    BY <1>4 DEF DimGeography, Task
  <2>2. "geography" \in Tasks /\ "geography" \notin Dimensions
    BY DEF Tasks, Dimensions
  <2>3. /\ \A c \in (Dimensions \cap part) \ {"geography", "none"} : DimensionLoaded(c)'
        /\ ManagersResolved' /\ BridgeLoaded'
    BY <1>1, <2>1, <2>2, LoadedOther
  <2>4. "none" \notin Dimensions
    BY DEF Dimensions
  <2>5. GeographyLoaded'
    BY <1>1, <2>1 DEF GeographyLoaded
  <2> QED BY <1>1, <2>2, <2>3, <2>4, <2>5
<1>5. CASE EmployeeHierarchy
  <2>1. /\ Running("hierarchy") /\ whTask["hierarchy"] # "done"
        /\ whTask' = [whTask EXCEPT !["hierarchy"] = "done"]
        /\ UNCHANGED <<current, geography, bridge>>
    BY <1>5 DEF EmployeeHierarchy, Task
  <2>2. "hierarchy" \in Tasks /\ "hierarchy" \notin Dimensions /\ "employees" \in Dimensions
    BY DEF Tasks, Dimensions
  <2>3. /\ \A c \in Dimensions \ {"employees"} : table'[c] = table[c]
        /\ \A m \in Members["employees"] :
                OpenKeys("employees", m)' = OpenKeys("employees", m)
        /\ \A k \in OpenRows("employees") :
                \E p : RowOf("employees", k)' = [RowOf("employees", k) EXCEPT !.parent = p]
    BY <1>2, <1>5, HierarchyEffect
  <2>4. /\ \A c \in (Dimensions \cap part) \ {"hierarchy", "employees"} : DimensionLoaded(c)'
        /\ GeographyLoaded' /\ BridgeLoaded'
    BY <1>1, <2>1, <2>2, <2>3, LoadedOther
  <2>5. ManagersResolved'
    BY <1>2, <1>5, ResolvingManagers
  <2>6. ASSUME "employees" \in part PROVE DimensionLoaded("employees")'
    <3>1. whTask["employees"] = "done"
      BY <2>1 DEF Running, Upstream
    <3>2. ASSUME NEW m \in DOMAIN staging["employees"] PROVE Stored("employees", m)'
      <4>1. Stored("employees", m)
        BY <1>1, <2>2, <2>6, <3>1, <3>2 DEF LoadedInv, DimensionLoaded
      <4>2. m \in Members["employees"]
        BY <2>2, <3>2, IncomingRecord, TypeParts
      <4>3. ASSUME NEW k \in OpenKeys("employees", m)
            PROVE  /\ k \in OpenKeys("employees", m)'
                   /\ RowOf("employees", k)'.t1 = RowOf("employees", k).t1
                   /\ RowOf("employees", k)'.t2 = RowOf("employees", k).t2
                   /\ RowOf("employees", k)'.ref = RowOf("employees", k).ref
        <5>1. RowOf("employees", k) \in Row("employees") /\ k \in OpenRows("employees")
          BY <1>2, <2>2, <4>2, OpenKey DEF OpenRows
        <5>2. PICK p : RowOf("employees", k)' = [RowOf("employees", k) EXCEPT !.parent = p]
          BY <2>3, <5>1
        <5> QED BY <2>3, <4>2, <5>1, <5>2 DEF Row
      <4>4. Settles("employees")
        BY <1>1 DEF Settles
      <4> QED BY <2>2, <4>1, <4>3, <4>4, StillStored
    <3> QED BY <1>1, <3>2 DEF DimensionLoaded
  <2> QED BY <1>1, <2>2, <2>4, <2>5, <2>6
<1>6. CASE BridgeNothing \/ TruncateBridge \/ WriteBridge
  <2>1. /\ Running("bridge") /\ whTask["bridge"] # "done"
        /\ \E next : whTask' = [whTask EXCEPT !["bridge"] = next]
        /\ UNCHANGED <<current, table, geography>>
    BY <1>6 DEF BridgeNothing, TruncateBridge, WriteBridge, Task
  <2>2. "bridge" \in Tasks /\ "bridge" \notin Dimensions /\ "none" \notin Dimensions
    BY DEF Tasks, Dimensions
  <2>3. /\ \A c \in (Dimensions \cap part) \ {"bridge", "none"} : DimensionLoaded(c)'
        /\ GeographyLoaded' /\ ManagersResolved'
    BY <1>1, <2>1, <2>2, LoadedOther
  <2>4. BridgeLoaded'
    BY <1>1, <1>6, BridgeLoads DEF LoadedInv
  <2> QED BY <1>1, <2>2, <2>3, <2>4
<1> QED BY <1>3, <1>4, <1>5, <1>6 DEF WarehouseDag

LEMMA LoadedFailure ==
    ASSUME TypeOK, TurnsInv, LoadedInv, NEW t \in Tasks, WarehouseTaskFails(t)
    PROVE  LoadedInv'
<1>1. /\ Running(t) /\ whTask[t] # "done"
      /\ current' = [d \in Dimensions |-> IF d = t THEN NoRows ELSE current[d]]
      /\ UNCHANGED <<staging, whRun, table, geography, bridge, part, clean>>
  BY FailureFrame
<1>2. PICK next \in {"todo", "failed"} : whTask' = [whTask EXCEPT ![t] = next]
  BY FailureFrame
<1>3. whTask'[t] \in {"todo", "failed"}
  BY <1>2 DEF TypeOK
<1> SUFFICES ASSUME whRun, clean
             PROVE  /\ \A d \in Dimensions \cap part : DimensionLoaded(d)'
                    /\ GeographyLoaded' /\ ManagersResolved' /\ BridgeLoaded'
  BY <1>1 DEF LoadedInv
<1> DEFINE written == IF t = "hierarchy" THEN "employees"
                      ELSE IF t \in Dimensions THEN t ELSE "none"
<1>4. written \in Dimensions \cup {"none"}
  BY DEF Dimensions
<1>5. /\ \A c \in (Dimensions \cap part) \ {t, written} : DimensionLoaded(c)'
      /\ t # "geography" => GeographyLoaded'
      /\ t # "hierarchy" => ManagersResolved'
      /\ t # "bridge" => BridgeLoaded'
  <2> HIDE DEF written
  <2>1. /\ \A c \in Dimensions \ {written} : table'[c] = table[c]
        /\ \A c \in Dimensions \ {t} : current'[c] = current[c]
    BY <1>1
  <2> QED BY <1>1, <1>2, <1>4, <2>1, LoadedOther DEF written
<1>6. ASSUME NEW d \in Dimensions \cap part PROVE DimensionLoaded(d)'
  <2>1. CASE d = t
    BY <1>3, <2>1 DEF DimensionLoaded
  <2>2. CASE t = "hierarchy" /\ d = "employees"
    <3>1. table'["employees"] = table["employees"] /\ Settles("employees")
      BY <1>1 DEF Settles
    <3>2. whTask'["employees"] = whTask["employees"] /\ current'["employees"] = current["employees"]
      BY <1>1, <1>2, <2>2 DEF TypeOK, Tasks
    <3> QED BY <2>2, <3>1, <3>2, LoadedFrame DEF LoadedInv
  <2>3. CASE d # t /\ ~(t = "hierarchy" /\ d = "employees")
    <3>1. d \notin {t, written}
      BY <2>3 DEF Dimensions
    <3> QED BY <1>5, <3>1
  <2> QED BY <2>1, <2>2, <2>3
<1>7. t = "geography" => GeographyLoaded'
  BY <1>3 DEF GeographyLoaded
<1>8. t = "hierarchy" => ManagersResolved'
  BY <1>3 DEF ManagersResolved
<1>9. t = "bridge" => BridgeLoaded'
  BY <1>3 DEF BridgeLoaded
<1> QED BY <1>5, <1>6, <1>7, <1>8, <1>9

LEMMA LoadedStep == TypeOK /\ TurnsInv /\ LoadedInv /\ [Next]_vars => LoadedInv'
<1> SUFFICES ASSUME TypeOK, TurnsInv, LoadedInv, [Next]_vars PROVE LoadedInv'
  OBVIOUS
<1>1. CASE Source \/ UNCHANGED vars
  <2>1. UNCHANGED <<staging, whRun, whTask, current, table, geography, bridge, part, clean>>
    BY <1>1 DEF Source, ChangeMember, Reassign, Commit, vars, staged, warehouse, watched
  <2> SUFFICES ASSUME whRun, clean
               PROVE  /\ \A d \in Dimensions \cap part : DimensionLoaded(d)'
                      /\ GeographyLoaded' /\ ManagersResolved' /\ BridgeLoaded'
    BY <2>1 DEF LoadedInv
  <2>2. ASSUME NEW d \in Dimensions \cap part PROVE DimensionLoaded(d)'
    BY <2>1, LoadedFrame DEF LoadedInv, Settles
  <2>3. GeographyLoaded' /\ ManagersResolved' /\ BridgeLoaded'
    BY <2>1, ManagersFrame, BridgeFrame DEF LoadedInv, GeographyLoaded
  <2> QED BY <2>2, <2>3
<1>2. CASE StagingDag \/ \E t \in Tables : StagingTaskFails(t)
  <2>1. stRun /\ UNCHANGED <<whRun, clean>>
    BY <1>2, StagingDagTurn DEF StagingTaskFails, warehouse, watched
  <2> QED BY <2>1 DEF LoadedInv, TurnsInv, TakeTurns
<1>3. CASE StartStaging
  <2>1. whRun' = whRun /\ clean' = (clean /\ ~whRun)
    BY <1>3 DEF StartStaging, warehouse
  <2> QED BY <2>1 DEF LoadedInv
<1>4. CASE StartWarehouse
  <2>1. /\ whTask' = [t \in Tasks |-> IF t \in part THEN "todo" ELSE "done"]
        /\ UNCHANGED <<staging, geography, part>>
    BY <1>4 DEF StartWarehouse, staged
  <2>2. \A d \in Dimensions \cap part' : DimensionLoaded(d)'
    BY <2>1 DEF DimensionLoaded, Tasks
  <2>3. GeographyLoaded'
    BY <2>1 DEF GeographyLoaded, TurnsInv, PartsOnly, Tasks
  <2>4. ManagersResolved'
    <3>1. "employees" \in part => "hierarchy" \in part
      BY PartsAssumption, TypeParts DEF ControlTyped
    <3> QED BY <2>1, <3>1 DEF ManagersResolved, Tasks
  <2>5. BridgeLoaded'
    BY <2>1 DEF BridgeLoaded, Tasks
  <2> QED BY <2>2, <2>3, <2>4, <2>5 DEF LoadedInv
<1> QED BY <1>1, <1>2, <1>3, <1>4, LoadedDag, LoadedFailure DEF Next

THEOREM LoadedInvariant == Spec => [](TurnsInv /\ LoadedInv)
<1>1. Init => LoadedInv
  BY DEF Init, LoadedInv
<1> QED BY <1>1, TurnsInit, TurnsStep, LoadedStep, DagTypeCorrect, PTL DEF Spec

LEMMA LoadedAgrees == TypeOK /\ TurnsInv /\ LoadedInv => AgreesAfterRun
<1> SUFFICES ASSUME TypeOK, TurnsInv, LoadedInv, whRun, clean,
                    \A t \in Tasks : whTask[t] = "done"
             PROVE  /\ \A d \in Dimensions \cap part : \A m \in DOMAIN staging[d] :
                            Carried(d, m, staging[d][m])
                    /\ staging["geography"] \subseteq geography
                    /\ "bridge" \in part /\ CanBridge => bridge = Join(staging["assignments"])
  BY DEF AgreesAfterRun
<1>1. StagedTyped /\ StoredTyped
  BY TypeParts
<1>2. \A t \in {"geography", "hierarchy", "bridge"} \cup Dimensions : whTask[t] = "done"
  BY DEF Tasks
<1>3. ASSUME NEW d \in Dimensions \cap part, NEW m \in DOMAIN staging[d]
      PROVE  Carried(d, m, staging[d][m])
  <2>1. PICK k \in OpenKeys(d, m) :
            /\ RowOf(d, k).t1 = staging[d][m].t1 /\ RowOf(d, k).t2 = staging[d][m].t2
            /\ RowOf(d, k).ref \in Lookup(d, staging[d][m].ref)
    BY <1>2 DEF LoadedInv, DimensionLoaded, Stored
  <2>2. m \in Members[d] /\ staging[d][m] \in Attributes[d]
    BY <1>1, IncomingRecord
  <2>3. ASSUME d = "employees" PROVE RowOf(d, k).parent \in ManagerKeys(staging[d][m].ref)
    <3>1. RowOf(d, k).ref = staging[d][m].ref
      BY <2>1, <2>3 DEF Lookup
    <3>2. RowOf(d, k).ref \in Members["employees"] \cup {NoKey}
      BY <2>2, <2>3, <3>1, ReferencesAssumption
    <3>3. k \in OpenRows("employees")
      BY <2>2, <2>3 DEF OpenRows
    <3> QED BY <1>2, <2>3, <3>1, <3>2, <3>3 DEF LoadedInv, ManagersResolved
  <2> QED BY <2>1, <2>3 DEF Carried
<1>4. staging["geography"] \subseteq geography
  BY <1>2 DEF LoadedInv, GeographyLoaded
<1>5. "bridge" \in part /\ CanBridge => bridge = Join(staging["assignments"])
  BY <1>2 DEF LoadedInv, BridgeLoaded
<1> QED BY <1>3, <1>4, <1>5

\* Each warehouse run that succeeds, with no staging run beside it, leaves the
\* dimensions as staging says, with the keys of today, and the bridge their
\* join: whatever failed, was retried or was left by earlier runs
\* (dim_staging_to_dw_dag).
THEOREM AgreesWithStaging == Spec => []AgreesAfterRun
BY LoadedInvariant, LoadedAgrees, DagTypeCorrect, PTL
=============================================================================
