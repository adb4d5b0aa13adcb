-------------------------- MODULE MCActivationBatch --------------------------
(* A small instance of ActivationBatch. *)
EXTENDS ActivationBatch, TLC

CONSTANTS b1, b2, w1, x, y

\* Processes and contents are interchangeable; sessions are ordered.
Symmetry == Permutations(Batchers) \cup Permutations(Contents)

\* Beside two full batches a sweep; beside a full batch and one of a single
\* candidate a failure or damage.
OneOfEach == {[candidates |-> 4, sweeps |-> 1, faults |-> 0, rots |-> 0],
              [candidates |-> 3, sweeps |-> 0, faults |-> 1, rots |-> 0],
              [candidates |-> 3, sweeps |-> 0, faults |-> 0, rots |-> 1]}
==============================================================================
