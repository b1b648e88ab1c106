---------------------------- MODULE DelayedActivity ----------------------------
(***************************************************************************)
(* What a delayed (dispatched) activity promises: it is scheduled once,    *)
(* and after that it ends in one way only: it is dispatched when its delay *)
(* is over, or it is cancelled, or, being later than it tolerates because  *)
(* the application did not run, it is dropped.                             *)
(***************************************************************************)
CONSTANTS
    Ids         \* the delayed activities

VARIABLES
    status,     \* "unused", "scheduled" or how it ended
    ripe,       \* those whose delay is over
    late        \* those that are later than they tolerate

vars == <<status, ripe, late>>

Init ==
    /\ status = [i \in Ids |-> "unused"]
    /\ ripe = {}
    /\ late = {}

Schedule(i) ==
    /\ status[i] = "unused"
    /\ status' = [status EXCEPT ![i] = "scheduled"]

\* The scheduled activities of D end in the given way.
End(D, how) ==
    /\ \A i \in D : status[i] = "scheduled"
    /\ status' = [i \in Ids |-> IF i \in D THEN how ELSE status[i]]

Dispatch(D) == D \subseteq ripe /\ End(D, "dispatched")

Drop(D) == D \subseteq late /\ End(D, "dropped")

Cancel(D) == End(D, "cancelled")

\* Time passes while the activities stay what they are.
Wait == UNCHANGED status

Next ==
    \/ \E i \in Ids : Schedule(i)
    \/ \E D \in SUBSET Ids : Dispatch(D) \/ Drop(D) \/ Cancel(D)
    \/ Wait

Spec == Init /\ [][Next]_vars
=============================================================================
