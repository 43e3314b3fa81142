---------------------------- MODULE ScdDimension ----------------------------
(***************************************************************************)
(* One type-2 dimension (DimProducts, DimCustomer, ...) and the two        *)
(* writers that share it: the nightly load, staging_to_dw.py over the SCD  *)
(* engine, and the half-hourly fact load, which creates an inferred member *)
(* (a stub) for every business key it does not find.                       *)
(*                                                                         *)
(*   dim         the dimension as FINAL shows it.  ClickHouse keeps one    *)
(*               row per ORDER BY tuple (alternate key, start_date), the   *)
(*               one with the highest _version                             *)
(*   ghosts      keys of replaced rows that no merge has dropped yet:      *)
(*               max(key) is asked without FINAL                           *)
(*   now         the clock, at the second resolution of start_date         *)
(*   pc, runTime, incoming, current, nextKey     the nightly load: incoming *)
(*               is what the staging table holds of each member            *)
(*   fpc, batch, missing, stubTime, stubKey, batches   the fact load       *)
(*   facts       <<member, surrogate key>> of the fact rows written        *)
(*                                                                         *)
(* The attributes of a member are abstracted to one of each kind: t1 is    *)
(* overwritten, t2 is versioned.                                           *)
(***************************************************************************)
EXTENDS Integers, FiniteSets

CONSTANTS
    Members,        \* business keys, ordered as assign_surrogate_keys does
    Type1Values,    \* values of the overwritten attribute
    Type2Values,    \* and of the versioned one
    Source(_),      \* what the source may hold of a member
    Blank,          \* the zero value every attribute of a stub has
    None,           \* no row
    MaxTime,        \* bound: the clock
    MaxBatches      \* bound: fact loads

Times == 1..MaxTime
Open  == MaxTime + 1        \* the sentinel end_date, 2106-01-01
Slots == Members \X Times   \* ORDER BY (alternate key, start_date)

Attributes == [t1: Type1Values, t2: Type2Values]
Rows == [key: Nat, t1: Type1Values \cup {Blank}, t2: Type2Values \cup {Blank},
         end: Times \cup {Open}]

ASSUME MembersAssumption == IsFiniteSet(Members) /\ Members \subseteq Nat
ASSUME ValuesAssumption  == Blank \notin Type1Values \cup Type2Values
ASSUME SourceAssumption  == \A m \in Members : Source(m) \subseteq Attributes
ASSUME NoneAssumption    == None \notin Rows \cup Attributes
ASSUME BoundsAssumption  == MaxTime \in Nat \ {0} /\ MaxBatches \in Nat

VARIABLES
    dim, ghosts,                                        \* ClickHouse
    now,
    pc, runTime, incoming, current, nextKey,            \* nightly load
    fpc, batch, missing, stubTime, stubKey, batches,    \* fact load
    facts,
    overlapped                                          \* history variable

table    == <<dim, ghosts>>
load     == <<pc, runTime, incoming, current, nextKey>>
factLoad == <<fpc, batch, missing, stubTime, stubKey, batches>>
vars     == <<table, now, load, factLoad, facts, overlapped>>

-----------------------------------------------------------------------------
(* The table.                                                              *)

Filled  == {x \in Slots : dim[x] # None}
IsOpen(x) == dim[x] # None /\ dim[x].end = Open
HasOpen(m) == \E s \in Times : IsOpen(<<m, s>>)

\* Rows inserted after the stored ones: each replaces the one at its slot.
Insert(rows) ==
    /\ dim' = [x \in Slots |-> IF x \in DOMAIN rows THEN rows[x] ELSE dim[x]]
    /\ ghosts' = ghosts \cup {dim[x].key : x \in
            {y \in Filled \cap DOMAIN rows : rows[y].key # dim[y].key}}

KeysOnDisk == {dim[x].key : x \in Filled} \cup ghosts \cup {0}

\* next_surrogate_key: what max(key) + 1 is at this moment.
NextSurrogateKey == 1 + CHOOSE k \in KeysOnDisk : \A j \in KeysOnDisk : j <= k

\* assign_surrogate_keys numbers rows in the order of their business key.
Rank(x, S) == Cardinality({y \in S : \/ y[1] < x[1]
                                     \/ y[1] = x[1] /\ y[2] < x[2]})

\* Background merges: a replaced row is dropped.
Merge ==
    /\ ghosts # {} /\ ghosts' = {}
    /\ UNCHANGED <<dim, now, load, factLoad, facts, overlapped>>

-----------------------------------------------------------------------------
(* apply_scd: the three outcomes, from the open rows read and the staging. *)

New   == {m \in Members : /\ incoming[m] # None
                          /\ \A s \in Times : <<m, s>> \notin current}
Type2 == {x \in current : /\ incoming[x[1]] # None
                          /\ dim[x].t2 # incoming[x[1]].t2}
Type1 == {x \in current : /\ incoming[x[1]] # None
                          /\ dim[x].t2 = incoming[x[1]].t2
                          /\ dim[x].t1 # incoming[x[1]].t1}

\* The staging table after a run of the staging DAG: what the source holds.
Stagings == {f \in [Members -> Attributes \cup {None}] :
                \A m \in Members : f[m] \in Source(m) \cup {None}}

Incoming(m, k) == [key |-> k, t1 |-> incoming[m].t1, t2 |-> incoming[m].t2,
                   end |-> Open]

-----------------------------------------------------------------------------
TypeOK ==
    /\ dim \in [Slots -> Rows \cup {None}]
    /\ ghosts \subseteq Nat
    /\ now \in Times
    /\ pc \in {"idle", "current", "key",
              "new", "type1", "close", "open", "finish"}
    /\ runTime \in 0..MaxTime /\ (pc # "idle" => runTime # 0)
    /\ incoming \in [Members -> Attributes \cup {None}]
    /\ current \subseteq Filled
    /\ nextKey \in Nat
    /\ fpc \in {"idle", "stub", "insert", "resolve"}
    /\ batch \subseteq Members /\ missing \subseteq batch
    /\ stubTime \in Times /\ stubKey \in Nat
    /\ batches \in 0..MaxBatches
    /\ facts \subseteq Members \X Nat
    /\ overlapped \subseteq Members

NoRows == [m \in Members |-> None]

Init ==
    /\ dim = [x \in Slots |-> None] /\ ghosts = {}
    /\ now = 1
    /\ pc = "idle" /\ runTime = 0
    /\ incoming = NoRows /\ current = {} /\ nextKey = 0
    /\ fpc = "idle" /\ batch = {} /\ missing = {}
    /\ stubTime = 1 /\ stubKey = 0 /\ batches = 0
    /\ facts = {} /\ overlapped = {}

\* Time passes between any two steps, and is seen when the clock is read.
ReadClock == now' \in now..MaxTime

-----------------------------------------------------------------------------
(* The nightly load, load_dim_products and _write_type2_dimension.         *)

LoadStep(here, next) ==
    /\ pc = here /\ pc' = next
    /\ UNCHANGED <<factLoad, facts>>

\* run_time is taken first, and two tries lie at least a retry_delay apart.
StartLoad ==
    /\ LoadStep("idle", "current") /\ ReadClock
    /\ now' > runTime /\ runTime' = now'
    /\ overlapped' = overlapped
            \cup {m \in Members : dim[<<m, now'>>] # None}
            \cup (IF fpc # "idle" THEN batch ELSE {})
    /\ UNCHANGED <<table, incoming, current, nextKey>>

\* Mutant of ReadCurrent: without the predicate on end_date.
ReadEveryVersion ==
    /\ LoadStep("current", "key")
    /\ incoming' \in Stagings
    /\ current' = Filled
    /\ UNCHANGED <<now, table, runTime, nextKey, overlapped>>

\* The open rows are fetched.  The staging table, which the staging DAG has
\* filled with whatever the source holds, is first read when they are compared.
ReadCurrent ==
    /\ LoadStep("current", "key")
    /\ incoming' \in Stagings
    /\ current' = {x \in Slots : IsOpen(x)}
    /\ UNCHANGED <<now, table, runTime, nextKey, overlapped>>

ReadKey ==
    /\ LoadStep("key", "new")
    /\ nextKey' = NextSurrogateKey
    /\ UNCHANGED <<now, table, runTime, incoming, current, overlapped>>

\* Mutant of WriteNew: next_key is not moved past the keys handed out.
WriteNewInPlace ==
    /\ LoadStep("new", "type1")
    /\ Insert([x \in New \X {runTime} |->
                    Incoming(x[1], nextKey + Rank(x, New \X {runTime}))])
    /\ UNCHANGED <<now, runTime, incoming, current, nextKey, overlapped>>

WriteNew ==
    /\ LoadStep("new", "type1")
    /\ Insert([x \in New \X {runTime} |->
                    Incoming(x[1], nextKey + Rank(x, New \X {runTime}))])
    /\ nextKey' = nextKey + Cardinality(New)
    /\ UNCHANGED <<now, runTime, incoming, current, overlapped>>

\* Mutant of WriteType1: end_date is left out, and NULL.
WriteType1WithoutEnd ==
    /\ LoadStep("type1", "close")
    /\ Insert([x \in Type1 |->
                [Incoming(x[1], dim[x].key) EXCEPT !.end = None]])
    /\ UNCHANGED <<now, runTime, incoming, current, nextKey, overlapped>>

WriteType1 ==
    /\ LoadStep("type1", "close")
    /\ Insert([x \in Type1 |-> Incoming(x[1], dim[x].key)])
    /\ UNCHANGED <<now, runTime, incoming, current, nextKey, overlapped>>

\* Mutant of WriteClosed: the payload is not set back to the stored one.
WriteClosedIncoming ==
    /\ LoadStep("close", "open")
    /\ Insert([x \in Type2 |->
                [Incoming(x[1], dim[x].key) EXCEPT !.end = runTime]])
    /\ UNCHANGED <<now, runTime, incoming, current, nextKey, overlapped>>

WriteClosed ==
    /\ LoadStep("close", "open")
    /\ Insert([x \in Type2 |-> [dim[x] EXCEPT !.end = runTime]])
    /\ UNCHANGED <<now, runTime, incoming, current, nextKey, overlapped>>

\* Mutant of WriteOpened: the new version keeps the stored attributes.
WriteOpenedStored ==
    /\ LoadStep("open", "finish")
    /\ \E from \in [{x[1] : x \in Type2} -> Type2] :
        /\ \A m \in DOMAIN from : from[m][1] = m
        /\ Insert([x \in (DOMAIN from) \X {runTime} |->
                [dim[from[x[1]]] EXCEPT
                    !.key = nextKey + Rank(from[x[1]], Type2), !.end = Open]])
    /\ UNCHANGED <<now, runTime, incoming, current, nextKey, overlapped>>

\* Two open rows of one member are both numbered, and share their slot.
WriteOpened ==
    /\ LoadStep("open", "finish")
    /\ \E from \in [{x[1] : x \in Type2} -> Type2] :
        /\ \A m \in DOMAIN from : from[m][1] = m
        /\ Insert([x \in (DOMAIN from) \X {runTime} |->
                Incoming(x[1], nextKey + Rank(from[x[1]], Type2))])
    /\ UNCHANGED <<now, runTime, incoming, current, nextKey, overlapped>>

\* What a load has read is gone with it; its run_time is kept for StartLoad.
LoadEnds == incoming' = NoRows /\ current' = {} /\ nextKey' = 0

FinishLoad ==
    /\ LoadStep("finish", "idle") /\ LoadEnds
    /\ UNCHANGED <<now, table, runTime, overlapped>>

\* An exception or a timeout between two statements.  Airflow's retry, or
\* the next night's load, starts over.
LoadFails ==
    /\ pc # "idle" /\ pc' = "idle" /\ LoadEnds
    /\ UNCHANGED <<table, now, runTime, factLoad, facts, overlapped>>

-----------------------------------------------------------------------------
(* The fact load, _resolve_with_inferred and create_inferred_members.      *)

FactStep(here, next) ==
    /\ fpc = here /\ fpc' = next
    /\ UNCHANGED <<load>>

\* The left join with the open rows; a member without any takes key 0.
Resolved(B) ==
    {<<x[1], dim[x].key>> : x \in {y \in Slots : y[1] \in B /\ IsOpen(y)}}
        \cup {<<m, 0>> : m \in {n \in B : ~HasOpen(n)}}

\* Every key of the batch is found: one lookup is enough.
LookupHit(B) ==
    /\ FactStep("idle", "idle")
    /\ batches < MaxBatches /\ batches' = batches + 1
    /\ \A m \in B : HasOpen(m)
    /\ facts' = facts \cup Resolved(B)
    /\ UNCHANGED <<now, table, batch, missing, stubTime, stubKey, overlapped>>

LookupMiss(B) ==
    /\ FactStep("idle", "stub")
    /\ batches < MaxBatches /\ batches' = batches + 1
    /\ batch' = B
    /\ missing' = {m \in B : ~HasOpen(m)} /\ missing' # {}
    /\ overlapped' = IF pc = "idle" THEN overlapped
                     ELSE overlapped \cup B
    /\ UNCHANGED <<now, table, stubTime, stubKey, facts>>

ReadStubKey ==
    /\ FactStep("stub", "insert")
    /\ ReadClock /\ stubTime' = now' /\ stubKey' = NextSurrogateKey
    /\ UNCHANGED <<table, batch, missing, batches, facts, overlapped>>

Stub(k) == [key |-> k, t1 |-> Blank, t2 |-> Blank, end |-> Open]

\* Mutant of InsertStubs: every missing key gets the first free one.
InsertStubsWithOneKey ==
    /\ FactStep("insert", "resolve")
    /\ Insert([x \in (missing \X {stubTime}) \ Filled |-> Stub(stubKey)])
    /\ UNCHANGED <<now, batch, missing, stubTime, stubKey, batches>>
    /\ UNCHANGED <<facts, overlapped>>

\* The _version of a stub is its run_time in milliseconds, so a row of the
\* load in the same slot, stamped when it was inserted, stays visible.
InsertStubs ==
    LET slots == missing \X {stubTime}
        lost  == slots \cap Filled
    IN  /\ FactStep("insert", "resolve")
        /\ dim' = [x \in Slots |-> IF x \in slots \ lost
                                   THEN Stub(stubKey + Rank(x, slots))
                                   ELSE dim[x]]
        /\ ghosts' = ghosts \cup {stubKey + Rank(x, slots) : x \in lost}
        /\ UNCHANGED <<now, batch, missing, stubTime, stubKey, batches>>
        /\ UNCHANGED <<facts, overlapped>>

FactLoadEnds == batch' = {} /\ missing' = {} /\ stubTime' = 1 /\ stubKey' = 0

\* The second lookup, and the write of the facts.
Resolve ==
    /\ FactStep("resolve", "idle") /\ FactLoadEnds
    /\ facts' = facts \cup Resolved(batch)
    /\ UNCHANGED <<now, table, batches, overlapped>>

FactLoadFails ==
    /\ fpc # "idle" /\ fpc' = "idle" /\ FactLoadEnds
    /\ UNCHANGED <<table, now, load, batches, facts, overlapped>>

-----------------------------------------------------------------------------
NightlyLoad == \/ StartLoad \/ ReadCurrent \/ ReadKey
               \/ WriteNew \/ WriteType1 \/ WriteClosed \/ WriteOpened
               \/ FinishLoad \/ LoadFails

FactLoad == \/ \E B \in (SUBSET Members) \ {{}} : LookupHit(B) \/ LookupMiss(B)
            \/ ReadStubKey \/ InsertStubs \/ Resolve \/ FactLoadFails

Next == \/ Merge
        \/ NightlyLoad
        \/ FactLoad

Spec == Init /\ [][Next]_vars

-----------------------------------------------------------------------------
(* Properties.  A member is overlapped when it was in a batch that lacked  *)
(* keys, and the fact load was creating and resolving stubs while the      *)
(* nightly load ran, or in the second the load took as its run_time: the   *)
(* two writers then do not see each other (FreshKeys and ForeignKeysValid  *)
(* are about that).  A batch all of whose keys are found overlaps nothing. *)

Settled == Members \ overlapped

\* When a load ends, every staged member has an open row with the attributes
\* of the source, whatever stubs, earlier crashes between closing and opening,
\* and concurrent fact loads left in the table (_write_type2_dimension).
EnrichedAfterLoad ==
    pc = "finish" => \A m \in Members : incoming[m] # None =>
        \E s \in Times : /\ IsOpen(<<m, s>>)
                         /\ dim[<<m, s>>].t1 = incoming[m].t1
                         /\ dim[<<m, s>>].t2 = incoming[m].t2

InForce(x, t) == dim[x] # None /\ x[2] <= t /\ t < dim[x].end

\* At no instant, past or present, are two versions of a member in force:
\* closing and opening are separate inserts, and a crash, a stub and a retry
\* may come between them.
VersionsDisjoint ==
    \A m \in Settled, t \in Times, r, s \in Times :
        InForce(<<m, r>>, t) /\ InForce(<<m, s>>, t) => r = s

\* No two rows of the dimension have the same surrogate key, although it is
\* max + 1 of a table both writers insert into (next_surrogate_key).
KeysDistinct ==
    \A x, y \in Filled :
        x[1] \in Settled /\ y[1] \in Settled /\ dim[x].key = dim[y].key => x = y

\* The key a fact row was written with denotes, ever after, a version of the
\* fact's own member and of no other (inferred_member.py:10, "a valid foreign
\* key"), however often the member was versioned, closed and stubbed since.
FactKeysResolve ==
    \A f \in facts : f[1] \in Settled =>
        /\ \E x \in Filled : dim[x].key = f[2]
        /\ \A x \in Filled :
                x[1] \in Settled /\ dim[x].key = f[2] => x[1] = f[1]

\* A step never changes the key or the versioned attribute of a stored row,
\* and never a closed row at all: history is appended to.
HistoryKept ==
    [][\A x \in Filled : x[1] \notin overlapped' =>
            /\ dim'[x] # None
            /\ dim'[x].key = dim[x].key /\ dim'[x].t2 = dim[x].t2
            /\ dim[x].end # Open => dim'[x] = dim[x]]_vars

-----------------------------------------------------------------------------
(* The inductive invariant behind them: what each writer may rely on at    *)
(* the step it is at, although the other one can come between any two.     *)

SettledRows == {x \in Filled : x[1] \in Settled}

\* Keys, those of unmerged rows included, have a maximum.
KeysBounded == \E b \in Nat : \A k \in KeysOnDisk : k <= b

\* No row begins in the future, or was closed after the last run_time.
ClockOrder ==
    /\ runTime <= now
    /\ fpc = "insert" => stubTime <= now
    /\ \A x \in Filled : x[2] <= now /\ (dim[x].end = Open \/ dim[x].end <= runTime)

\* A settled member is never in the hands of both writers.
OneWriter == pc # "idle" /\ fpc # "idle" => batch \cap Settled = {}

\* Each version ends after it begins, and before the next one begins.
VersionsOrdered ==
    \A x \in SettledRows :
        /\ x[2] < dim[x].end
        /\ \A y \in Filled : y[1] = x[1] /\ x[2] < y[2] => dim[x].end <= y[2]

\* Until it inserts them, the fact load is right about the keys it misses, and
\* the key and the second it has read are free.
StubsFresh ==
    /\ fpc \in {"stub", "insert"} =>
        /\ \A m \in missing \cap Settled : ~HasOpen(m)
        /\ \A m \in (batch \ missing) \cap Settled : HasOpen(m)
    /\ fpc = "insert" /\ missing \cap Settled # {} =>
        /\ runTime <= stubTime
        /\ \A x \in SettledRows : dim[x].key < stubKey
    /\ fpc = "resolve" => \A m \in batch \cap Settled : HasOpen(m)

\* The stronger half of FactKeysResolve: the row is one of the member's own.
FactsHaveRows ==
    \A f \in facts : f[1] \in Settled =>
        \E x \in Filled : x[1] = f[1] /\ dim[x].key = f[2]

HasCurrent(m) == \E s \in Times : <<m, s>> \in current

Written == {"type1", "close", "open"}

\* Members the load has not written the row of its run_time for.
Unopened == {m \in Settled : \/ pc \in {"current", "key", "new"}
                             \/ pc \in Written /\ HasCurrent(m)}

\* What the load has fetched is still so: the rows are open (until it closes
\* those that change), no others of these members are, and the second of its
\* run_time and the keys from next_key on are free.
LoadFresh ==
    /\ pc \in {"key", "new", "type1", "close"} => \A x \in current : IsOpen(x)
    /\ pc = "open" => \A x \in current : IF x \in Type2 THEN dim[x].end = runTime
                                                       ELSE IsOpen(x)
    /\ \A x \in Filled : x[1] \in Unopened =>
            /\ x[2] < runTime
            /\ pc # "current" /\ IsOpen(x) => x \in current
    /\ pc \in {"new"} \cup Written => \A x \in SettledRows : dim[x].key < nextKey

UpToDate(x) == /\ IsOpen(x)
               /\ dim[x].t1 = incoming[x[1]].t1
               /\ dim[x].t2 = incoming[x[1]].t2

\* What the load has written so far, of every member.
LoadDone ==
    /\ pc \in Written => \A m \in New : UpToDate(<<m, runTime>>)
    /\ pc \in {"close", "open"} => \A x \in current \ Type2 :
            incoming[x[1]] # None => UpToDate(x)

ScdInv == /\ KeysBounded /\ ClockOrder /\ OneWriter
          /\ VersionsOrdered /\ KeysDistinct
          /\ StubsFresh /\ FactsHaveRows
          /\ LoadFresh /\ LoadDone /\ EnrichedAfterLoad

-----------------------------------------------------------------------------
(* What comments of the code say, and what it does not do.                 *)

\* inferred_member.py:10-12: "the next dimension load fills in the rest - the
\* stub is matched on alternate key like any other existing row and takes the
\* type 1 path": the version facts point at is no longer blank after a load.
StubFilledIn ==
    pc = "finish" => \A f \in facts, x \in Filled :
        f[1] \in Settled /\ incoming[f[1]] # None /\ dim[x].key = f[2]
            => dim[x].t2 # Blank

\* inferred_member.py:9-10: "The order lands with a valid foreign key": no
\* fact is written with the 0 that stands for a failed lookup.
ForeignKeysValid == \A f \in facts : f[2] # 0

\* scd_utils.py:7: "new row        insert with a fresh surrogate key".
FreshKeys == \A x, y \in Filled : dim[x].key = dim[y].key => x = y
=============================================================================
