------------------------------ MODULE CacheUsers ------------------------------
(***************************************************************************)
(* Who uses the caches of a subreddit's resources.                         *)
(***************************************************************************)
EXTENDS Naturals, Sequences, FiniteSets

CONSTANTS
    Workers,  \* queue workers
    None      \* "nothing": a model value
=============================================================================
