------------------------------ MODULE FlowControl ------------------------------
(***************************************************************************)
(* handleActivity runs the checks of a config on one activity: the loop of *)
(* the Manager over the runs, the loop of a Run over its checks, and the   *)
(* rules of a Check, whose results are kept and used again by every later  *)
(* rule with the same premise.                                             *)
(*                                                                         *)
(* All of it is sequential: what varies is the config, what the rules find *)
(* and what fails.  Indexes are counted from one.  A goto is the record of *)
(* the run and the check that it names; run 0 stands for the run that the  *)
(* goto is in (goto:.check).  Check results kept between activities        *)
(* (cacheUserResult) and the actions of a check are not modelled.          *)
(***************************************************************************)
EXTENDS Naturals, Sequences, SequencesExt

CONSTANTS
    CheckCount,    \* CheckCount[r]: checks of run r for this kind of activity
    Rules,         \* premises of rules
    Configs,       \* the configs considered
    InitialGotos,  \* where a dispatch action may let the activity begin
    MaxGotoDepth   \* the operator's limit

RunIndexes == 1 .. Len(CheckCount)

Places == UNION {{<<r, c>> : c \in 1 .. CheckCount[r]} : r \in RunIndexes}

\* A post behavior.  Names that no run or check has are numbers too large, and
\* a config may hold text that is no behavior.
Behavior == [kind : {"next", "nextRun", "stop", "gotoRun", "gotoIn", "goto", "invalid"},
             run : Nat, check : Nat]

None == [kind |-> "next", run |-> 0, check |-> 0]

NextRun == [None EXCEPT !.kind = "nextRun"]

Gotos == {b \in Behavior : b.kind \in {"gotoRun", "gotoIn", "goto"}}

\* A rule or a rule set, as it stands in a check.
Entry == {e \in [isSet : BOOLEAN, condition : {"AND", "OR"}, rules : Seq(Rules)] :
             e.isSet \/ Len(e.rules) = 1}

Check == [enabled : BOOLEAN, postTrigger : Behavior, postFail : Behavior, condition : {"AND", "OR"},
          entries : Seq(Entry)]

ASSUME ConstAssumption ==
    /\ CheckCount \in Seq(Nat)
    /\ Configs \subseteq [Places -> Check]
    /\ InitialGotos \subseteq {None} \cup {b \in Gotos : b.kind # "gotoIn"}
    /\ MaxGotoDepth \in Nat

VARIABLES
    config,       \* the checks
    truth,        \* what each rule would find, or that its filters do not pass
    pc,           \* where handleActivity is
    runIndex,
    gotoContext,  \* the goto to be followed by the Manager or by the Run
    hitGotos,     \* how often the Manager followed a goto, as a sequence
    checkIndex,
    ran,          \* checks in the results of the runs that ended
    running,      \* checks in the results of the run in progress
    results,      \* allRuleResults
    at,           \* the check that was run last, and its postBehavior
    postBehavior,
    hitInRun,     \* the Run's own hitGotos: its gotos to one of its checks
    verdict,      \* history: what the rules of a check said
    passedOver,   \* history: runs skipped since a check was run
    even          \* history: whether an even number of checks was run, so that
                  \* running the same check again is never a stuttering step

vars == <<config, truth, pc, runIndex, gotoContext, hitGotos, checkIndex, ran,
          running, results, at, postBehavior, hitInRun, verdict, passedOver,
                   even>>

RulesIn(cfg) == UNION {Range(e.rules) : e \in UNION {Range(cfg[p].entries) : p \in Places}}

Outcome == {"passed", "failed", "filtered"}

TypeOK ==
    /\ config \in [Places -> Check]
    /\ truth \in [RulesIn(config) -> Outcome]
    /\ pc \in {"runs", "checks", "done", "failed"}
    /\ runIndex \in 1 .. Len(CheckCount) + 1
    /\ gotoContext \in Gotos \cup {None}
    /\ hitGotos \in Seq(Gotos)
    /\ checkIndex \in Nat \ {0}
    /\ ran \subseteq Places
    /\ running \subseteq Places
    /\ results \in [RulesIn(config) -> Outcome \cup {"none"}]
    /\ at \in Places \cup {<<0, 0>>}
    /\ postBehavior \in Behavior
    /\ verdict \in [Places -> {"none", "passed", "failed"}]
    /\ hitInRun \in Seq(Gotos)
    /\ passedOver \subseteq RunIndexes
    /\ even \in BOOLEAN

Init ==
    /\ config \in Configs
    /\ truth \in [RulesIn(config) -> Outcome]
    /\ pc = "runs"
    /\ runIndex = 1
    /\ gotoContext \in InitialGotos
    /\ hitGotos = <<>>
    /\ checkIndex = 1
    /\ ran = {}
    /\ running = {}
    /\ results = [r \in RulesIn(config) |-> "none"]
    /\ at = <<0, 0>>
    /\ postBehavior = IF gotoContext = None THEN NextRun ELSE gotoContext
    /\ verdict = [p \in Places |-> "none"]
    /\ hitInRun = <<>>
    /\ passedOver = {}
    /\ even = TRUE

-----------------------------------------------------------------------------
(* The rules of a check *)

\* Rule.run: an existing result is used again, and if it comes from a rule
\* whose filters did not pass the rule is skipped; a rule whose filters do not
\* pass the first time has failed.
Found(known, r) ==
    CASE known[r] = "none"     -> IF truth[r] = "filtered" THEN "failed" ELSE truth[r]
      [] known[r] = "filtered" -> "skipped"
      [] OTHER                 -> known[r]

\* Mutant: that a rule was skipped replaces its result.
RecordedSkip(known, r) ==
    [known EXCEPT ![r] = IF @ = "none" THEN truth[r] ELSE Found(known, r)]

Recorded(known, r) == [known EXCEPT ![r] = IF @ = "none" THEN truth[r] ELSE @]

\* Rules joined by a condition: the results so far, whether one was not
\* skipped, and the verdict if it is clear already.
Joining(known) == [known |-> known, ran |-> FALSE, verdict |-> "open"]

\* Mutant: one rule that passes is enough for any condition.
JoinAny(condition, so, found, known) ==
    [known |-> known, ran |-> so.ran \/ found # "skipped",
     verdict |-> IF found = "passed" THEN found ELSE "open"]

Join(condition, so, found, known) ==
    [known |-> known, ran |-> so.ran \/ found # "skipped",
     verdict |-> IF \/ condition = "OR" /\ found = "passed"
                    \/ condition = "AND" /\ found = "failed"
                 THEN found ELSE "open"]

Joined(condition, so) ==
    IF so.verdict # "open" THEN so.verdict
    ELSE IF so.ran /\ condition = "AND" THEN "passed" ELSE "failed"

\* RuleSet.run
RunSet(set, known) ==
    LET after[n \in 0 .. Len(set.rules)] ==
            IF n = 0 THEN Joining(known)
            ELSE LET so == after[n - 1]
                     r == set.rules[n]
                 IN IF so.verdict # "open" THEN so
                    ELSE Join(set.condition, so, Found(so.known, r), Recorded(so.known, r))
    IN after[Len(set.rules)]

\* What an entry finds, and the results after it.
FoundBy(e, known) ==
    IF e.isSet THEN Joined(e.condition, RunSet(e, known)) ELSE Found(known, Head(e.rules))

RecordedBy(e, known) ==
    IF e.isSet THEN RunSet(e, known).known ELSE Recorded(known, Head(e.rules))

\* Check.runRules
RunRules(check) ==
    LET after[n \in 0 .. Len(check.entries)] ==
            IF n = 0 THEN Joining(results)
            ELSE LET so == after[n - 1]
                     e == check.entries[n]
                 IN IF so.verdict # "open" THEN so
                    ELSE Join(check.condition, so, FoundBy(e, so.known), RecordedBy(e, so.known))
    IN after[Len(check.entries)]

Triggered(check) ==
    \/ check.entries = <<>>
    \/ Joined(check.condition, RunRules(check)) = "passed"

-----------------------------------------------------------------------------
(* A check, and what follows it in its run *)

\* How often a goto was followed.
Hits(gotos, b) == Len(SelectSeq(gotos, LAMBDA x : x = b))

\* Mutant: checks that were run before are run again.
NotAgain(p) == TRUE

\* The results of earlier passes through this run do not hold the check.
MayRun(p) == p \notin ran

\* The loop of the Manager ends.
Stops(b) == b.kind = "stop"

\* The loop of the Run ends: the Manager takes the last check's post behavior.
RunEnds(b, done) ==
    /\ pc' = IF Stops(b) THEN "done" ELSE "runs"
    /\ gotoContext' = IF b.kind \in {"gotoRun", "goto"} THEN b ELSE None
    /\ runIndex' = runIndex + 1
    /\ ran' = ran \cup done
    /\ running' = {}
    /\ UNCHANGED checkIndex

\* The place of the check after p.
After(p) == p[2] + 1

\* The switch of the Run on the post behavior of the check at p.  It knows no
\* other behavior and then comes to the same check again.
Continue(p, b) ==
    LET done == running \cup {p}
        stays == \/ b.kind = "next" /\ p[2] < CheckCount[p[1]]
                 \/ b.kind \in {"gotoIn", "invalid"}
    IN IF stays
       THEN /\ checkIndex' = IF b.kind = "next" THEN After(p) ELSE p[2]
            /\ gotoContext' = IF b.kind = "gotoIn" THEN b ELSE None
            /\ running' = done
            /\ UNCHANGED <<pc, runIndex, ran>>
       ELSE RunEnds(b, done)

\* The check that the Run comes to.
Place == <<runIndex, IF gotoContext = None THEN checkIndex ELSE gotoContext.check>>

\* The Run records the goto it follows, and does not stop it: it compares the
\* name of the check with the whole goto, which is never the same.  A goto that
\* is recorded more than MaxGotoDepth times is not recorded again (a bound).
InRunGotoHit ==
    hitInRun' = IF gotoContext.kind = "gotoIn" /\ Hits(hitInRun, gotoContext) <= MaxGotoDepth
                THEN Append(hitInRun, gotoContext) ELSE hitInRun

\* The check ends with post behavior b.
CheckEnds(b) ==
    /\ at' = Place
    /\ postBehavior' = b
    /\ Continue(Place, b)
    /\ InRunGotoHit
    /\ passedOver' = {}
    /\ even' = ~even
    /\ UNCHANGED <<config, truth, hitGotos>>

ComesTo(enabled) ==
    /\ pc = "checks"
    /\ Place \in Places
    /\ MayRun(Place)
    /\ config[Place].enabled = enabled

\* Its rules are run: their results are kept for the rest of the activity.
CheckHandled ==
    /\ ComesTo(TRUE)
    /\ LET check == config[Place]
           b == IF Triggered(check) THEN check.postTrigger ELSE check.postFail
       IN /\ b.kind # "invalid"
          /\ results' = IF check.entries = <<>> THEN results ELSE RunRules(check).known
          /\ verdict' = [verdict EXCEPT ![Place] = IF Triggered(check) THEN "passed" ELSE "failed"]
          /\ CheckEnds(b)

\* Its filters do not pass, or a rule fails: the check is not triggered, and no
\* result is kept.
CheckNotTriggered ==
    /\ ComesTo(TRUE)
    /\ config[Place].postFail.kind # "invalid"
    /\ CheckEnds(config[Place].postFail)
    /\ UNCHANGED <<results, verdict>>

\* The post behavior of a check that is not enabled is taken as it is.
CheckDisabled ==
    /\ ComesTo(FALSE)
    /\ CheckEnds(config[Place].postFail)
    /\ UNCHANGED <<results, verdict>>

Terminated ==
    /\ pc' = "failed"
    /\ UNCHANGED <<config, truth, runIndex, gotoContext, hitGotos, checkIndex, ran,
                   running, results, at, postBehavior, hitInRun, verdict, passedOver,
                   even>>

\* The check does not exist or was run before, its post behavior is not valid, or
\* something unexpected fails.
CheckFails == pc = "checks" /\ Terminated

-----------------------------------------------------------------------------
(* The Manager's loop over the runs *)

\* Mutant: the run after the one that the goto names.
GotoRunAfter == IF gotoContext = None THEN runIndex ELSE gotoContext.run + 1

\* The run that the Manager comes to.
RunAt == IF gotoContext = None THEN runIndex ELSE gotoContext.run

\* The goto may be followed.
WithinDepth == Hits(hitGotos, gotoContext) < MaxGotoDepth

FollowsGoto ==
    IF gotoContext = None THEN UNCHANGED hitGotos
    ELSE WithinDepth /\ hitGotos' = Append(hitGotos, gotoContext)

\* The next run is begun; a goto that names a check is left to it.
RunBegins ==
    /\ pc = "runs"
    /\ FollowsGoto
    /\ RunAt \in RunIndexes
    /\ CheckCount[RunAt] > 0
    /\ pc' = "checks"
    /\ hitInRun' = <<>>
    /\ runIndex' = RunAt
    /\ checkIndex' = 1
    /\ gotoContext' = IF gotoContext.kind = "goto" THEN gotoContext ELSE None
    /\ UNCHANGED <<config, truth, ran, running, results, at, postBehavior, verdict,
                   passedOver, even>>

\* It is not enabled, has no checks of this kind, or its filters do not pass.
RunSkipped ==
    /\ pc = "runs"
    /\ FollowsGoto
    /\ RunAt \in RunIndexes
    /\ runIndex' = RunAt + 1
    /\ gotoContext' = None
    /\ passedOver' = passedOver \cup {RunAt}
    /\ UNCHANGED <<config, truth, pc, checkIndex, ran, running, results, at, postBehavior,
                   hitInRun, verdict, even>>

\* The goto was followed too often, or names no run, or filters fail.
RunFails == pc = "runs" /\ (gotoContext # None \/ RunAt \in RunIndexes) /\ Terminated

Finished ==
    /\ pc = "runs"
    /\ gotoContext = None /\ runIndex > Len(CheckCount)
    /\ pc' = "done"
    /\ UNCHANGED <<config, truth, runIndex, gotoContext, hitGotos, checkIndex, ran,
                   running, results, at, postBehavior, hitInRun, verdict, passedOver,
                   even>>

Next ==
    \/ RunFails
    \/ Finished
    \/ RunBegins
    \/ RunSkipped
    \/ CheckFails
    \/ CheckDisabled
    \/ CheckNotTriggered
    \/ CheckHandled

Spec == Init /\ [][Next]_vars

\* handleActivity goes on: its awaits settle.
FairSpec == Spec /\ WF_vars(Next)

-----------------------------------------------------------------------------
(* Properties *)

Documented == INSTANCE CheckFlow WITH
    behavior <- postBehavior, ended <- pc \in {"done", "failed"}

\* The checks are run in the order that flowControl.md gives them.
FollowsDocumentation == Documented!Spec

\* No check is run a second time by a later pass through its run (error message
\* in Run.handle: a possible endless loop).
RunOnce == ran \cap running = {}

\* What a condition says of results that are all known and not skipped.
Holds(condition, facts) == IF condition = "AND" THEN facts = {TRUE} ELSE TRUE \in facts

Value(e) ==
    Holds(IF e.isSet THEN e.condition ELSE "AND",
          {truth[r] = "passed" : r \in Range(e.rules)})

\* A check whose rules' filters pass is triggered exactly if its rules, joined
\* by its condition, are; results kept from earlier checks, and rules left out
\* because the verdict is clear, change nothing.
VerdictIsJoin ==
    \A p \in Places : verdict[p] # "none" =>
        \/ \E e \in Range(config[p].entries) : \E r \in Range(e.rules) : truth[r] = "filtered"
        \/ (verdict[p] = "passed") <=>
               \/ config[p].entries = <<>>
               \/ Holds(config[p].condition, {Value(e) : e \in Range(config[p].entries)})

\* No goto is followed more often than MaxGotoDepth allows (flowControl.md: CM
\* stops processing the activity).
GotoLimited ==
    \A b \in Range(hitGotos) \cup Range(hitInRun) :
        Hits(hitGotos, b) <= MaxGotoDepth /\ Hits(hitInRun, b) <= MaxGotoDepth

\* Handling an activity comes to an end.
Terminates == <>(pc \in {"done", "failed"})

\* Handling follows the documented order of checks, from the first to an end.
FlowsAsDocumented == FollowsDocumentation /\ Terminates
=============================================================================
