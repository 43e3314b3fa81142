----------------------------- MODULE CdcDelivery -----------------------------
(***************************************************************************)
(* What the fact pipeline promises about the changes of its source, with   *)
(* no windows, staging tables, tasks or retries: every change is committed *)
(* to a log, may be applied to the warehouse any number of times, and is   *)
(* acknowledged, by table and in log order, only once it has been applied. *)
(***************************************************************************)
EXTENDS Integers, Sequences

CONSTANTS
    Tables,         \* the captured tables
    Changes         \* records with at least a field table

VARIABLES
    log,            \* every committed change
    applied,        \* positions of log that have reached the warehouse
    acked           \* positions of log that will not be read again

vars == <<log, applied, acked>>

Init == log = <<>> /\ applied = {} /\ acked = {}

Commit == /\ \E c \in Changes : log' = Append(log, c)
          /\ UNCHANGED <<applied, acked>>

Apply == /\ applied \subseteq applied' /\ applied' \subseteq DOMAIN log
         /\ UNCHANGED <<log, acked>>

\* The changes of table t up to position n: what a watermark acknowledges.
Upto(t, n) == {i \in DOMAIN log : log[i].table = t /\ i <= n}

Acknowledge == /\ \E t \in Tables, n \in DOMAIN log :
                    /\ Upto(t, n) \subseteq applied
                    /\ acked' = acked \cup Upto(t, n)
               /\ UNCHANGED <<log, applied>>

Next == Commit \/ Apply \/ Acknowledge

Spec == Init /\ [][Next]_vars
=============================================================================
