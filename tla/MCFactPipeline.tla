--------------------------- MODULE MCFactPipeline ---------------------------
(* FactPipeline for TLC: one order with one or two lines.                  *)
EXTENDS FactPipeline, TLC

CONSTANTS o1, p1, p2, v1, v2

OneLineSeeded == {<<o1, p1>>}
NothingSeeded == {}
=============================================================================
