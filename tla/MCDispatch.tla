------------------------------ MODULE MCDispatch ------------------------------
(***************************************************************************)
(* An instance of Dispatch for TLC.                                        *)
(***************************************************************************)
EXTENDS Dispatch

\* Dispatch actions that differ in everything the model distinguishes.
SomeDispatches ==
    {[activity |-> a, existing |-> "skip", cancelIfQueued |-> TRUE,
      tardyTolerant |-> "within"] : a \in Activities}
    \cup
    {[activity |-> a, existing |-> "replace", cancelIfQueued |-> FALSE,
      tardyTolerant |-> "never"] : a \in Activities}
=============================================================================
