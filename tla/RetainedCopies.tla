--------------------------- MODULE RetainedCopies ----------------------------
(***************************************************************************)
(* What an install of pulled files promises: the index names nothing or a  *)
(* view of which a complete copy is retained; it moves to another view in  *)
(* one step, only once a complete copy of that view is retained; and a     *)
(* copy is given up only while the index does not need it.                 *)
(***************************************************************************)
CONSTANTS Views, None

VARIABLES
    indexed,   \* the view the index names, or None
    complete   \* the views of which a complete copy is retained

vars == <<indexed, complete>>

Init == indexed = None /\ complete = {}

\* A complete copy of another view appears.
Publish ==
    /\ complete' \in SUBSET Views
    /\ complete \subseteq complete'
    /\ UNCHANGED indexed

Switch ==
    /\ indexed' \in complete
    /\ UNCHANGED complete

\* Copies are given up, not the one the index names.
Discard ==
    /\ complete' \subseteq complete
    /\ indexed # None => indexed \in complete'
    /\ UNCHANGED indexed

Next == Publish \/ Switch \/ Discard

Spec == Init /\ [][Next]_vars
==============================================================================
