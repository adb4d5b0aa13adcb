-------------------------- MODULE MCHarvestStaging ---------------------------
(* Small instances of HarvestStaging. *)
EXTENDS HarvestStaging, TLC

CONSTANTS w1, w2, a, b, c

\* a has the child b; the others are roots.
Family == [s \in Sessions |-> IF s = b THEN a ELSE None]
\* Transcripts of almost half of the ring, results that are not indexed,
\* and failures.
Mixed == [kind : {"index"}, size : {2}]
         \cup [kind : {"plain", "error"}, size : {0}]

Symmetry == Permutations(Workers)
==============================================================================
