-------------------------- MODULE SessionAuthority ---------------------------
(***************************************************************************)
(* What the managed-generation store promises a reader of one session: the *)
(* read authority and the latest attempt are registers that hold a whole   *)
(* view or nothing, and change in one step.  No staging, sweep, reclaim,   *)
(* refusal or crash is visible.                                            *)
(***************************************************************************)
CONSTANTS Contents, ObjectsOf, None

VARIABLES
    authority,  \* the view an authoritative read serves, or None
    latest,     \* the view a preview read of the latest attempt serves
    capture     \* the content certificate beside the authority

vars == <<authority, latest, capture>>

\* A view with every object its content names.
Whole(c, complete) ==
    [content |-> c, complete |-> complete, objects |-> ObjectsOf[c]]

Init == authority = None /\ latest = None /\ capture = None

\* An ordinary commit replaces the authority and retires the attempt.  An
\* incomplete view never replaces a complete one.
Install ==
    /\ \E c \in Contents, complete \in BOOLEAN :
          /\ complete \/ authority = None \/ ~authority.complete
          /\ authority' = Whole(c, complete)
          /\ capture' \in IF complete THEN {"full", "preview"} ELSE {"preview"}
    /\ latest' = None

\* An omission preview is kept beside a certified authority.
Retain ==
    /\ authority # None
    /\ capture = "full"
    /\ \E c \in Contents : latest' = Whole(c, TRUE)
    /\ UNCHANGED <<authority, capture>>

\* An unchanged refresh confirms the authority and retires the attempt.
Finalize ==
    /\ authority # None
    /\ latest' = None
    /\ UNCHANGED <<authority, capture>>

Next == Install \/ Retain \/ Finalize

Spec == Init /\ [][Next]_vars
==============================================================================
