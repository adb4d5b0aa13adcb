---------------------------- MODULE MCLocalServer ----------------------------
(* Small instances of LocalServer for TLC. *)
EXTENDS LocalServer, TLC

\* One topic of each kind: rebuilt on every tick, and announced by handlers.
CONSTANTS c1, c2, sessions, annotations

\* What the environment may do, by kind; 0 where nothing is said.
Allow(few) == [k \in Kinds |-> IF k \in DOMAIN few THEN few[k] ELSE 0]

\* Mutations beside a stop; a stop under an open page; a page that subscribes,
\* unsubscribes and subscribes again; that comes back on another connection;
\* whose topic is announced; and a store that changes and fails to be read.
Scenarios ==
    {Allow([write |-> 2, signal |-> 1, route |-> 1, slow |-> 1]),
     Allow([connect |-> 1, signal |-> 1, route |-> 1]),
     Allow([connect |-> 1, switch |-> 2]),
     Allow([connect |-> 2, drop |-> 1]),
     Allow([connect |-> 1, write |-> 1]),
     Allow([connect |-> 1, harvest |-> 1, fault |-> 1])}
\* A batch about two sessions and the quality refresh that goes with it: one
\* task more than the hub's channel holds.
BatchRequest == {annotations :> 3}
Either == {{sessions}, {annotations}}

\* One scenario each for the runs that end in a violation.
StopUnderBatch == {Allow([write |-> 1, signal |-> 1])}
StopByRoute == {Allow([write |-> 1, route |-> 1])}
ShowAgain == {Allow([connect |-> 1, switch |-> 2])}
==============================================================================
