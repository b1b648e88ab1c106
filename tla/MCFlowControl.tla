---------------------------- MODULE MCFlowControl ----------------------------
(***************************************************************************)
(* Small configs for FlowControl: a run of two checks and a run of one, and *)
(* two rules that the checks share.                                        *)
(***************************************************************************)
EXTENDS FlowControl

CONSTANTS r1, r2

MCCheckCount == <<2, 1>>

MCRules == {r1, r2}

GotoRun(r) == [kind |-> "gotoRun", run |-> r, check |-> 0]
GotoCheck(r, c) == [kind |-> "goto", run |-> r, check |-> c]
GotoInRun(c) == [kind |-> "gotoIn", run |-> 0, check |-> c]
Invalid == [None EXCEPT !.kind = "invalid"]
Stop == [None EXCEPT !.kind = "stop"]

\* Every behavior, with gotos to every run and check and to missing ones.
Behaviors ==
    {None, NextRun, Stop} \cup {GotoRun(r) : r \in 1 .. 3}
        \cup {GotoCheck(1, c) : c \in 1 .. 3} \cup {GotoCheck(2, 1)}

MCInitialGotos == {None, GotoRun(2), GotoCheck(1, 2)}

Rule(r) == [isSet |-> FALSE, condition |-> "AND", rules |-> <<r>>]
RuleSet(c) == [isSet |-> TRUE, condition |-> c, rules |-> <<r1, r2>>]

CheckOf(trigger, fail, c, es) ==
    [enabled |-> TRUE, postTrigger |-> trigger, postFail |-> fail, condition |-> c, entries |-> es]

\* Flows: checks without rules, with all behaviors when they are triggered and
\* some when they are not.
FlowConfigs ==
    {[p \in Places |-> CASE p = <<1, 1>> -> CheckOf(b1, fail, "AND", <<>>)
                         [] p = <<1, 2>> -> CheckOf(b2, None, "AND", <<>>)
                         [] OTHER -> CheckOf(b3, None, "AND", <<>>)] :
        b1 \in Behaviors \cup {GotoInRun(2), GotoInRun(3)}, b2 \in Behaviors,
        b3 \in {None, GotoRun(1), GotoRun(2), GotoCheck(1, 2), GotoCheck(2, 1), GotoInRun(3)},
        fail \in {None, NextRun, GotoCheck(1, 2), Invalid}}

\* Flows with a check that is not enabled.
DisabledConfigs ==
    {[p \in Places |-> IF p = q THEN [CheckOf(None, b, "AND", <<>>) EXCEPT !.enabled = FALSE]
                       ELSE CheckOf(GotoRun(1), NextRun, "AND", <<>>)] :
        q \in Places, b \in Behaviors}

\* Rules alone, joined, in sets and shared by the checks, and a first check
\* that has none.
RuleConfigs ==
    LET entries == {<<Rule(r1)>>, <<Rule(r1), Rule(r2)>>, <<RuleSet("AND")>>, <<RuleSet("OR")>>,
                    <<RuleSet("OR"), Rule(r2)>>, <<Rule(r2), RuleSet("AND")>>}
        checks == {CheckOf(None, None, c, es) : c \in {"AND", "OR"}, es \in entries}
    IN {[p \in Places |-> CASE p = <<1, 1>> -> c1
                            [] p = <<1, 2>> -> c2
                            [] OTHER -> CheckOf(None, Stop, "OR", <<RuleSet("AND"), Rule(r1)>>)] :
           c1 \in checks \cup {CheckOf(GotoCheck(2, 1), None, "AND", <<>>)}, c2 \in checks}

MCConfigs == FlowConfigs \cup DisabledConfigs \cup RuleConfigs

\* A check that goes to itself or back to an earlier check of its run.
LoopConfigs ==
    {[p \in Places |-> CheckOf(IF p = <<1, 2>> THEN b ELSE None, None, "AND", <<Rule(r1)>>)] :
        b \in {GotoInRun(1), GotoInRun(2)}}
=============================================================================
