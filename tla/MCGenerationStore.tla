------------------------- MODULE MCGenerationStore ---------------------------
(* Small instances of GenerationStore for TLC. *)
EXTENDS GenerationStore, TLC

CONSTANTS w1, w2, r1, g1, g2, g3, g4, c1, c2, c3, b1, b2, x1, x2

\* c1 and c2 share body b1; each has a blob of its own under one source ref.
MCObjectsOf ==
    [c \in Contents |-> CASE c = c1 -> {b1, x1}
                          [] c = c2 -> {b1, x2}
                          [] OTHER  -> {b2}]
MCSourceRef == [b \in Blobs |-> "ref"]

\* c1 parses fully; c2 may lose source records; c3 parses badly.
MCOutcomes ==
    [c \in Contents |-> CASE c = c1 -> {"full"}
                          [] c = c2 -> {"omitted"}
                          [] OTHER  -> {"preview", "incomplete"}]

\* Identifiers are interchangeable, the ones of leftover directories excepted.
GenSymmetry == Permutations(GenIds \ Leftover)
==============================================================================
