------------------------------- MODULE CheckFlow -------------------------------
(***************************************************************************)
(* The order in which the checks of a config are run on one activity, as   *)
(* flowControl.md documents it: after each check its post behavior says    *)
(* what comes next.  A run is passed over if it is not enabled, has no     *)
(* checks of the activity's kind or its filters do not pass, and an error, *)
(* or a goto taken too often, ends the activity.                           *)
(***************************************************************************)
EXTENDS Naturals, Sequences

CONSTANTS
    CheckCount  \* CheckCount[r]: the number of checks of run r

VARIABLES
    at,         \* the check that was run last: its run and its place there,
                \* or <<0, 0>>
    behavior,   \* its post behavior
    passedOver, \* the runs passed over since
    ended       \* whether the activity is done

vars == <<at, behavior, passedOver, ended>>

RunIndexes == 1 .. Len(CheckCount)

Places == UNION {{<<r, c>> : c \in 1 .. CheckCount[r]} : r \in RunIndexes}

\* The first check of run r or of the first one after it that is not passed over.
Enter(r) == {p \in Places : p[1] >= r /\ p[2] = 1 /\ r .. p[1] - 1 \subseteq passedOver}

\* The checks that may follow a check at p with post behavior b.
Follow(p, b) ==
    CASE b.kind = "next"    -> IF p[2] < CheckCount[p[1]] THEN {<<p[1], p[2] + 1>>}
                               ELSE Enter(p[1] + 1)
      [] b.kind = "nextRun" -> Enter(p[1] + 1)
      [] b.kind = "stop"    -> {}
      [] b.kind = "gotoRun" -> Enter(b.run)
      [] b.kind = "gotoIn"  -> {<<p[1], b.check>>} \cap Places
      [] b.kind = "goto"    -> IF b.run \in passedOver THEN Enter(b.run + 1)
                               ELSE {<<b.run, b.check>>} \cap Places
      [] OTHER            -> {}

Init == at = <<0, 0>> /\ behavior.kind \in {"nextRun", "goto", "gotoRun"} /\ passedOver = {} /\ ~ended

PassOver ==
    /\ ~ended
    /\ \E r \in RunIndexes : passedOver' = passedOver \cup {r}
    /\ UNCHANGED <<at, behavior, ended>>

\* A check is run, and stop ends the activity with it.
RunCheck ==
    /\ ~ended
    /\ at' \in Follow(at, behavior)
    /\ passedOver' = {}
    /\ ended' = (behavior'.kind = "stop")

End == ~ended /\ ended' /\ UNCHANGED <<at, behavior, passedOver>>

Next == PassOver \/ RunCheck \/ End

Spec == Init /\ [][Next]_vars
=============================================================================
