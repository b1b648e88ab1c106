------------------------------ MODULE ItemCache ------------------------------
(***************************************************************************)
(* What a subreddit's resources cache about activities, and the actions    *)
(* that must keep it true: the cached activities (sub-, comm-), the cached *)
(* results of itemIs criteria (itemCrit-) and the activities that the bot  *)
(* itself changed (recentSelf-).                                           *)
(*                                                                         *)
(* Two activities are followed: a submission and a comment in it, whose    *)
(* criteria may ask for the state of its submission.  An object carries    *)
(* the number of actions of the bot that it reflects; a result carries     *)
(* that of the object that it was computed from.                           *)
(***************************************************************************)
EXTENDS CacheUsers

CONSTANTS
    Kinds,        \* the kinds of actions the checks of the subreddit may have
    DryRuns,      \* values of the option dryRun of a handling
    MaxActs,      \* bound: actions of the bot
    Reported,     \* bound: the activities that others report
    MaxExternal   \* bound: reports of others

ASSUME ItemCacheAssumption ==
    /\ Kinds \subseteq {"lock", "remove", "approve", "approveParent", "report", "flair"}
    /\ DryRuns \subseteq BOOLEAN
    /\ Reported \subseteq {"sub", "com"}
    /\ MaxActs \in Nat /\ MaxExternal \in Nat

VARIABLES
    reddit,   \* reddit[a]: the activity as it is
    acts,     \* history: actions of the bot that took effect on a
    others,   \* history: reports of others on a
    cached,   \* cached[a]: the object under sub-a or comm-a, and whose item it is
    crit,     \* crit[a]: the result under itemCrit-a
    recent,   \* recent[a]: what recentSelf-a says
    worker,   \* worker[w]: what w is doing
    missed    \* history: activities whose caches a reset did not reach in full

itemVars == <<reddit, acts, others, cached, crit, recent, worker, missed>>

Activities == {"sub", "com"}

Items == [approved : BOOLEAN, removed : BOOLEAN, locked : BOOLEAN, flaired : BOOLEAN,
          reports : Nat, acts : Nat, others : Nat]

\* What a worker awaits: nothing, the submission it fetches, the answer that
\* it caches as a result, the reset after an action, or the removal reason.
Worker == [pc : {"idle", "ready", "fetched", "store", "approving", "reset", "reason"},
           on : Activities \cup {None}, dry : BOOLEAN, item : Items \cup {None},
           target : Activities \cup {None}, parent : Items \cup {None},
           next : {"test", "approve", None}, result : Nat, kind : Kinds \cup {None}]

ItemTypeOK ==
    /\ DOMAIN reddit = Activities
    /\ \A a \in Activities :
          /\ reddit[a] \in Items
          /\ cached[a] # None => cached[a].item \in Items /\ cached[a].of \in Workers \cup {None}
          /\ recent[a] # None => recent[a] \in [reports : Nat, others : Nat]
    /\ {acts, others} \subseteq [Activities -> Nat]
    /\ crit \in [Activities -> Nat \cup {None}]
    /\ worker \in [Workers -> Worker]
    /\ missed \subseteq Activities

Idle == [pc |-> "idle", on |-> None, dry |-> FALSE, item |-> None, target |-> None,
         parent |-> None, next |-> None, result |-> 0, kind |-> None]

ItemInit ==
    /\ reddit = [a \in Activities |->
                    [approved |-> FALSE, removed |-> FALSE, locked |-> FALSE, flaired |-> FALSE,
                     reports |-> 0, acts |-> 0, others |-> 0]]
    /\ acts = [a \in Activities |-> 0] /\ others = [a \in Activities |-> 0]
    /\ cached = [a \in Activities |-> None]
    /\ crit = [a \in Activities |-> None]
    /\ recent = [a \in Activities |-> None]
    /\ worker = [w \in Workers |-> Idle]
    /\ missed = {}

-----------------------------------------------------------------------------
(* The cache *)

\* The bot changed the activity and it has as many reports as then.
SameReports(a) == recent[a].reports = reddit[a].reports

HasRecentSelf(a) == recent[a] # None /\ SameReports(a)

\* Mutant: nothing but a mark is kept.
JustMark(item) == [reports |-> item.reports]

\* What is kept of an activity that the bot reported.
RecentSelf(item) == [reports |-> item.reports, others |-> item.others]

\* Reddit's data of an activity, as an object.
Fetched(a) == [reddit[a] EXCEPT !.acts = acts[a], !.others = others[a]]

\* What testItemCriteria returns for an object of a: the cached result, or one
\* computed from the object.
Result(a, item) == IF crit[a] # None THEN crit[a] ELSE item.acts

\* Workers other than w that hold an object or a result of a.
Holders(w, a) ==
    {v \in Workers \ {w} :
        \/ worker[v].on = a
        \/ worker[v].target = a /\ worker[v].pc \in {"fetched", "store", "approving", "reset"}}

\* What an action of kind k does to an activity, and to the object of it that
\* the code then changes by hand.
OnReddit(k, i) ==
    CASE k = "lock" -> [i EXCEPT !.locked = TRUE]
      [] k = "remove" -> [i EXCEPT !.removed = TRUE, !.approved = FALSE]
      [] k \in {"approve", "approveParent"} -> [i EXCEPT !.approved = TRUE, !.removed = FALSE]
      [] k = "report" -> [i EXCEPT !.reports = @ + 1]
      [] k = "flair" -> [i EXCEPT !.flaired = TRUE]

Locally(k, i) ==
    LET j == [i EXCEPT !.acts = @ + 1]
    IN CASE k = "lock" -> [j EXCEPT !.locked = TRUE]
         [] k = "remove" -> [j EXCEPT !.removed = TRUE]
         [] k \in {"approve", "approveParent"} -> [j EXCEPT !.approved = TRUE]
         [] k = "report" -> [j EXCEPT !.reports = @ + 1]
         [] k = "flair" -> [j EXCEPT !.flaired = TRUE]

\* Mutant: only the activity is cached again.
ActivityOnly(a, item, owner) ==
    /\ crit' = crit
    /\ cached' = [cached EXCEPT ![a] = [item |-> item, of |-> owner]]

\* resetCacheForItem: results of all criteria on a are deleted, and the object
\* is cached as it is.
ResetCacheForItem(a, item, owner) ==
    /\ crit' = [crit EXCEPT ![a] = None]
    /\ cached' = [cached EXCEPT ![a] = [item |-> item, of |-> owner]]

-----------------------------------------------------------------------------
(* Handling *)

\* A worker takes an activity, which the queue gives to no one else meanwhile,
\* unless the bot changed it lately.  A dry handling of a comment is one in
\* which no action is reached.
Handle(w, a) ==
    /\ worker[w].pc = "idle"
    /\ \A v \in Workers : worker[v].on # a
    /\ ~HasRecentSelf(a)
    /\ \E dry \in {d \in DryRuns : d => a = "sub"} :
          worker' = [worker EXCEPT ![w] =
                        [Idle EXCEPT !.pc = "ready", !.on = a, !.dry = dry, !.item = Fetched(a)]]
    /\ UNCHANGED <<reddit, acts, others, cached, crit, recent, missed>>

\* The handling ends; what it left in the cache is no one's item any more.
Handled(w) ==
    /\ worker[w].pc = "ready"
    /\ worker' = [worker EXCEPT ![w] = Idle]
    /\ cached' = [a \in Activities |->
                     IF cached[a] # None /\ cached[a].of = w THEN [cached[a] EXCEPT !.of = None]
                     ELSE cached[a]]
    /\ UNCHANGED <<reddit, acts, others, crit, recent, missed>>

\* A criterion is tested on the activity itself.
TestItemCriteria(w) ==
    /\ worker[w].pc = "ready"
    /\ worker' = [worker EXCEPT ![w].pc = "store", ![w].target = worker[w].on,
                                ![w].result = Result(worker[w].on, worker[w].item)]
    /\ UNCHANGED <<reddit, acts, others, cached, crit, recent, missed>>

\* With the submission of the comment the worker goes on to test it or to
\* approve it.
WithSubmission(w, item, next) ==
    worker' = [worker EXCEPT ![w].pc = IF next = "test" THEN "store" ELSE "approving",
                             ![w].target = "sub", ![w].parent = item, ![w].next = None,
                             ![w].result = IF next = "test" THEN Result("sub", item) ELSE 0]

\* getActivity finds the submission in the cache ...
SubmissionCached(w, next) ==
    /\ worker[w].pc = "ready" /\ worker[w].on = "com"
    /\ cached["sub"] # None
    /\ WithSubmission(w, cached["sub"].item, next)
    /\ UNCHANGED <<reddit, acts, others, cached, crit, recent, missed>>

\* ... or asks Reddit for it ...
FetchSubmission(w, next) ==
    /\ worker[w].pc = "ready" /\ worker[w].on = "com"
    /\ cached["sub"] = None
    /\ worker' = [worker EXCEPT ![w].pc = "fetched", ![w].target = "sub",
                                ![w].parent = Fetched("sub"), ![w].next = next]
    /\ UNCHANGED <<reddit, acts, others, cached, crit, recent, missed>>

\* ... and caches the answer.
SetActivity(w) ==
    /\ worker[w].pc = "fetched"
    /\ cached' = [cached EXCEPT !["sub"] = [item |-> worker[w].parent, of |-> None]]
    /\ WithSubmission(w, worker[w].parent, worker[w].next)
    /\ UNCHANGED <<reddit, acts, others, crit, recent, missed>>

\* The result is cached, also one that came from the cache.
StoreResult(w) ==
    /\ worker[w].pc = "store"
    /\ crit' = [crit EXCEPT ![worker[w].target] = worker[w].result]
    /\ worker' = [worker EXCEPT ![w].pc = "ready", ![w].target = None, ![w].parent = None,
                                ![w].result = 0]
    /\ UNCHANGED <<reddit, acts, others, cached, recent, missed>>

-----------------------------------------------------------------------------
(* Actions *)

ActsDone == acts["sub"] + acts["com"]

\* Whether an action of kind k calls Reddit: the flair action of submissions
\* looks at its own option only, not at that of the run.
CallsReddit(w, k) == ~worker[w].dry \/ k = "flair"

\* What the process method of an action refuses.
Refuses(k, item, a) ==
    \/ k = "lock" /\ item.locked
    \/ k \in {"approve", "approveParent"} /\ item.approved
    \/ k = "flair" /\ a = "com"

Took(w, a, k) ==
    /\ ActsDone < MaxActs
    /\ reddit' = [reddit EXCEPT ![a] = OnReddit(k, @)]
    /\ acts' = [acts EXCEPT ![a] = @ + 1]

\* An action on the activity itself: the call of Reddit.
Act(w, k) ==
    /\ worker[w].pc = "ready"
    /\ k \in Kinds \ {"approveParent"}
    /\ ~Refuses(k, worker[w].item, worker[w].on)
    /\ CallsReddit(w, k)
    /\ Took(w, worker[w].on, k)
    /\ worker' = [worker EXCEPT ![w].pc = IF k = "remove" THEN "reason" ELSE "reset",
                                ![w].target = worker[w].on, ![w].kind = k]
    /\ UNCHANGED <<others, cached, crit, recent, missed>>

\* After a removal the object is marked, in place, and the reason is added; if
\* that fails the rest of the action is not done.
AddRemovalReason(w) ==
    /\ worker[w].pc = "reason"
    /\ \E fails \in BOOLEAN, item \in {Locally("remove", worker[w].item)} :
          LET a == worker[w].on IN
          /\ worker' = [worker EXCEPT ![w].item = item, ![w].pc = IF fails THEN "ready" ELSE "reset",
                                      ![w].target = IF fails THEN None ELSE a,
                                      ![w].kind = IF fails THEN None ELSE "remove"]
          /\ cached' = IF cached[a] # None /\ cached[a].of = w THEN [cached EXCEPT ![a].item = item]
                       ELSE cached
          /\ missed' = IF fails THEN missed \cup {a} ELSE missed
    /\ UNCHANGED <<reddit, acts, others, crit, recent>>

\* The rest of an action on the activity itself: its object is changed by hand,
\* and the caches are reset; a report is remembered as the bot's own.
Reset(w) ==
    /\ worker[w].pc = "reset" /\ worker[w].kind # "approveParent"
    /\ \E a \in {worker[w].on}, k \in {worker[w].kind} :
          \E item \in {IF k = "remove" THEN worker[w].item ELSE Locally(k, worker[w].item)} :
          /\ ResetCacheForItem(a, item, w)
          /\ recent' = IF k # "report" THEN recent
                       ELSE [recent EXCEPT ![a] = RecentSelf(item)]
          /\ worker' = [worker EXCEPT ![w].item = item, ![w].pc = "ready", ![w].target = None,
                                      ![w].kind = None]
          /\ missed' = IF Holders(w, a) # {} THEN missed \cup {a} ELSE missed
    /\ UNCHANGED <<reddit, acts, others>>

\* The approve action on the submission of a comment: the call of Reddit, or
\* nothing.
ApproveParent(w) ==
    /\ worker[w].pc = "approving"
    /\ IF Refuses("approveParent", worker[w].parent, "sub") \/ ~CallsReddit(w, "approveParent")
       THEN /\ worker' = [worker EXCEPT ![w].pc = "ready", ![w].target = None, ![w].parent = None]
            /\ UNCHANGED <<reddit, acts>>
       ELSE /\ Took(w, "sub", "approveParent")
            /\ worker' = [worker EXCEPT ![w].pc = "reset", ![w].kind = "approveParent"]
    /\ UNCHANGED <<others, cached, crit, recent, missed>>

\* The rest of it: the caches are reset only if the submission is still cached.
ResetParent(w) ==
    /\ worker[w].pc = "reset" /\ worker[w].kind = "approveParent"
    /\ IF cached["sub"] # None
       THEN ResetCacheForItem("sub", Locally("approveParent", worker[w].parent), None)
       ELSE UNCHANGED <<cached, crit>>
    /\ missed' = IF Holders(w, "sub") # {} \/ cached["sub"] = None THEN missed \cup {"sub"}
                 ELSE missed
    /\ worker' = [worker EXCEPT ![w].pc = "ready", ![w].target = None, ![w].parent = None,
                                ![w].kind = None]
    /\ UNCHANGED <<reddit, acts, others, recent>>

-----------------------------------------------------------------------------
(* Others *)

\* A user reports an activity.
Report(a) ==
    /\ others["sub"] + others["com"] < MaxExternal
    /\ reddit' = [reddit EXCEPT ![a].reports = @ + 1]
    /\ others' = [others EXCEPT ![a] = @ + 1]
    /\ UNCHANGED <<acts, cached, crit, recent, worker, missed>>

\* An entry reaches the end of its time to live.
Expire(a) ==
    /\ \/ crit[a] # None /\ crit' = [crit EXCEPT ![a] = None] /\ UNCHANGED <<cached, recent>>
       \/ cached[a] # None /\ cached' = [cached EXCEPT ![a] = None] /\ UNCHANGED <<crit, recent>>
       \/ recent[a] # None /\ recent' = [recent EXCEPT ![a] = None] /\ UNCHANGED <<crit, cached>>
    /\ UNCHANGED <<reddit, acts, others, worker, missed>>

-----------------------------------------------------------------------------
(* The specification *)

ItemNext ==
    \/ \E w \in Workers :
          \/ \E a \in Activities : Handle(w, a)
          \/ Handled(w)
          \/ TestItemCriteria(w)
          \/ \E next \in {"test"} \cup IF "approveParent" \in Kinds THEN {"approve"} ELSE {} :
                SubmissionCached(w, next) \/ FetchSubmission(w, next)
          \/ SetActivity(w) \/ StoreResult(w)
          \/ \E k \in Kinds : Act(w, k)
          \/ AddRemovalReason(w) \/ Reset(w) \/ ApproveParent(w) \/ ResetParent(w)
    \/ \E a \in Reported : Report(a)
    \/ \E a \in Activities : Expire(a)

ItemSpec == ItemInit /\ [][ItemNext]_itemVars

-----------------------------------------------------------------------------
(* Properties *)

\* No action on a is between its call of Reddit and its reset.
Settled(a) == \A w \in Workers : worker[w].pc \in {"reset", "reason"} => worker[w].target # a

\* A cached result of a criterion was computed after the bot's last action on
\* the activity, and so is the cached activity, unless the reset was missed:
\* another worker held the activity meanwhile, the reason of a removal could
\* not be added, or the approved parent was no longer cached.
ResultsFollowActions ==
    \A a \in Activities \ missed : Settled(a) /\ crit[a] # None => crit[a] = acts[a]

ActivitiesFollowActions ==
    \A a \in Activities \ missed : Settled(a) /\ cached[a] # None => cached[a].item.acts = acts[a]

\* An activity that the bot reported is skipped exactly as long as no one else
\* has reported it since the bot took it (comment of hasRecentSelf), though the
\* bot only counts up a number that was stale already.
SkippedUntilReported ==
    \A a \in Activities : recent[a] # None /\ Settled(a) =>
        (HasRecentSelf(a) <=> others[a] = recent[a].others)

\* A dry run changes nothing on Reddit but the flair of a submission.
DryRunOnlyFlairs ==
    [][\A w \in Workers, a \in Activities :
          worker[w].dry /\ acts'[a] # acts[a] /\ worker'[w].kind # worker[w].kind =>
              reddit'[a] = [reddit[a] EXCEPT !.flaired = TRUE]]_itemVars
=============================================================================
