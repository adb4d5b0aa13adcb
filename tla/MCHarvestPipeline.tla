-------------------------- MODULE MCHarvestPipeline --------------------------
(* Small instances of HarvestPipeline. *)
EXTENDS HarvestPipeline, TLC

CONSTANTS w1, w2, p1, p2, a, b, c

\* a has the child b.
Family == [s \in Sessions |-> IF s = b THEN a ELSE None]

Half == [kind : {"index"}, size : {1}]

Symmetry == Permutations(Workers) \cup Permutations(Parsers)
==============================================================================
