--------------------------- MODULE MCDimensionDag ---------------------------
(* DimensionDag for TLC: the three parts of the DAG, one by one.           *)
EXTENDS DimensionDag, TLC

CONSTANTS a1, a2, s1, s2, p1, c1, e1, e2, t1, h1, x, y, none

DagParts == {{"geography", "suppliers", "products"},
             {"geography", "customer", "shippers"},
             {"employees", "territories", "assignments", "hierarchy", "bridge"}}

TheMembers ==
    [suppliers |-> {s1, s2}, products |-> {p1}, customer |-> {c1},
     shippers |-> {h1}, employees |-> {e1, e2}, territories |-> {t1}]

Records(T1, T2, R) == [t1: T1, t2: T2, ref: R]

TheAttributes ==
    [suppliers   |-> Records({x}, {x}, {a1, a2}),
     products    |-> Records({x}, {x}, {s1, s2}),
     customer    |-> Records({x}, {x}, {a1, a2}),
     shippers    |-> Records({x, y}, {x}, {none}),
     employees   |-> Records({x, y}, {x}, {e1, none}),
     territories |-> Records({x}, {x, y}, {none})]

Plain(r) == [t1 |-> x, t2 |-> x, ref |-> r]

TheSource ==
    [suppliers   |-> (s1 :> Plain(a1)) @@ (s2 :> Plain(a1)),
     products    |-> p1 :> Plain(s1),
     customer    |-> c1 :> Plain(a1),
     shippers    |-> h1 :> Plain(none),
     employees   |-> (e1 :> Plain(none)) @@ (e2 :> Plain(e1)),
     territories |-> t1 :> Plain(none),
     assignments |-> {<<e2, t1>>}]
=============================================================================
