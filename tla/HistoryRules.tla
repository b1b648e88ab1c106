---------------------------- MODULE HistoryRules ----------------------------
(***************************************************************************)
(* Rules on an author's history: how often in a row the same was posted    *)
(* (repeat activity), how often a regular expression matches (regex), how  *)
(* many of the activities are comments, submissions or links to the same   *)
(* place (history, attribution), and where the author was active lately or *)
(* where a link was posted before (recent activity).                       *)
(***************************************************************************)
EXTENDS Windows

-----------------------------------------------------------------------------
(* Repetitions *)

\* A post of a history.  id: what it is identified by (a link's address, or a
\* text); title: what a link is searched by too; ok: it was not removed;
\* counted: its subreddit passes the rule's include or exclude.
Posts == [n : Nat, kind : {"submission", "comment"}, link : BOOLEAN, id : Nat, title : Nat,
          ok : BOOLEAN, counted : BOOLEAN]

RepeatActivityConfig == [op : Operators, value : Nat, gapAllowance : Nat, lookAt : {"submissions", "all"},
                         useSubmissionAsReference : BOOLEAN, minWordCount : Nat, keepRemoved : BOOLEAN]

\* Removed posts are filtered unless they are to be kept, or unless the window
\* has a filter of its own.
RepeatWindow(rule, post) ==
    IF rule.keepRemoved \/ post # Unset THEN post
    ELSE [subreddits |-> Unset, submissionState |-> FALSE, commentState |-> FALSE, activityState |-> TRUE]

\* Where the window is no more than a size, comments may be left out.
LookedAt(rule, history) ==
    IF rule.lookAt = "all" THEN history ELSE SelectSeq(history, LAMBDA p : p.kind = "submission")

\* Identifiers are numbers here: their lengths, of which neighbors are similar.
SameText(a, b) == a - b \in -1 .. 1

\* Compared by length, whatever the name says.
MinMet(rule, id) == id >= rule.minWordCount

\* Whether a post is like one of those shortly before it.
Nearby(rule, posts, i, id) ==
    \E j \in 1 .. i - 1 : i - j <= rule.gapAllowance /\ SameText(id, posts[j].id)

\* A set goes by the identifier it was opened with.
Repeats(o, id) == SameText(o.identifier, id)

Extended(o, post) == [o EXCEPT !.sets = Append(@, post)]

\* A set that is neither repeated nor kept open is complete, unless the post
\* repeats an earlier set (then the set is gone) or is a link.
Closed(acc, o, post) == IF acc.hit \/ post.link THEN acc ELSE [acc EXCEPT !.all = Append(@, o)]

ByIdentifier(rule, posts, i, acc, o) ==
    LET post == posts[i]
        met == MinMet(rule, post.id)
    IN IF Repeats(o, post.id) /\ met THEN [acc EXCEPT !.open = Append(@, Extended(o, post)), !.hit = TRUE]
       ELSE IF Nearby(rule, posts, i, post.id) /\ post.counted /\ met THEN [acc EXCEPT !.open = Append(@, o)]
       ELSE Closed(acc, o, post)

\* A link that repeats no set is looked for by its title as well.
ByTitle(rule, posts, i, acc, o) ==
    LET post == posts[i]
        met == MinMet(rule, post.title)
    IN IF Repeats(o, post.title) /\ met THEN [acc EXCEPT !.open = Append(@, Extended(o, post)), !.hit = TRUE]
       ELSE IF Nearby(rule, posts, i, post.title) /\ post.counted /\ met /\ o \notin Range(acc.open)
       THEN [acc EXCEPT !.open = Append(@, o)]
       ELSE IF o \notin Range(acc.all) THEN [acc EXCEPT !.all = Append(@, o)] ELSE acc

\* What a post makes of the open sets; the complete ones are in all.
NextPost(rule, posts, sets, i) ==
    LET post == posts[i]
        Open(acc, id) == [acc EXCEPT !.open = Append(@, [identifier |-> id, sets |-> <<post>>])]
        first == FoldLeft(LAMBDA acc, o : ByIdentifier(rule, posts, i, acc, o),
                          [open |-> <<>>, all |-> sets.all, hit |-> FALSE], sets.open)
        second == FoldLeft(LAMBDA acc, o : ByTitle(rule, posts, i, acc, o), Open(first, post.id), sets.open)
    IN IF first.hit THEN first
       ELSE IF ~post.link THEN Open(first, post.id)
       ELSE IF second.hit THEN second ELSE Open(second, post.title)

AllSets(end) == end.all \o end.open

RepeatSets(rule, posts) ==
    AllSets(FoldLeft(LAMBDA sets, i : NextPost(rule, posts, sets, i),
                     [open |-> <<>>, all |-> <<>>, hit |-> FALSE], [i \in DOMAIN posts |-> i]))

\* The sets that count, in groups: all of them, or those of the post that is
\* checked.  For a text that is in none exactly, all similar ones make up one
\* set, an empty one if there are none.
GroupedSets(rule, item, sets) ==
    LET Of(id) == SelectSeq(sets, LAMBDA o : o.identifier = id)
        Lists(group) == [i \in DOMAIN group |-> group[i].sets]
        similar == SelectSeq(sets, LAMBDA o : SameText(o.identifier, item.id))
    IN IF ~rule.useSubmissionAsReference THEN {Lists(Of(sets[i].identifier)) : i \in DOMAIN sets}
       ELSE IF Of(item.id) # <<>> THEN {Lists(Of(item.id))}
       ELSE IF item.kind = "comment" THEN {<<>>}
       ELSE IF item.link THEN {Lists(Of(item.title))}
       ELSE {<< FlattenSeq(Lists(similar)) >>}

\* The rule triggers if a set does; with a threshold from above, if all do.
SetsSuffice(rule, groups) ==
    LET Suffices(set) == Compare(Len(set), rule.op, rule.value)
    IN /\ \E group \in groups : \E i \in DOMAIN group : Suffices(group[i])
       /\ rule.op \in {">", ">="} \/ \A group \in groups : \A i \in DOMAIN group : Suffices(group[i])

RepeatRule(rule, item, posts) == SetsSuffice(rule, GroupedSets(rule, item, RepeatSets(rule, posts)))

\* process: the window, its filter, the rule.
ProcessRepeat(rule, item, history, post) ==
    RepeatRule(rule, item, FilterListing(LookedAt(rule, history), RepeatWindow(rule, post)))

-----------------------------------------------------------------------------
(* Matches of a regular expression *)

\* An activity: how often its parts match; text: the body of a self post or of
\* a comment, or the address of a link.
Matched == [id : Nat, kind : {"self", "link", "comment"}, title : Nat, text : Nat]

\* Thresholds: matches in one activity; activities that match; matches in all
\* of them.  The latter two may be disabled.
RegexCriteria == [match : [op : Operators, value : Nat], on : BOOLEAN,
                  activity : GenericComparison, onTotal : BOOLEAN, total : [op : Operators, value : Nat],
                  testOn : SUBSET {"title", "body", "url"}, mustMatchCurrent : BOOLEAN, window : BOOLEAN]

\* getMatchesFromActivity: parts that an activity does not have do not match.
GetMatches(a, testOn) ==
    IF a.kind = "comment" THEN a.text
    ELSE (IF "title" \in testOn THEN a.title ELSE 0)
         + (IF (a.kind = "self" /\ "body" \in testOn) \/ (a.kind = "link" /\ "url" \in testOn) THEN a.text ELSE 0)

Meets(n, comparison) == Compare(n, comparison.op, comparison.value)

\* Mutant: the activity is counted again if the history has it.
WholeHistory(item, history) == history

RestOfHistory(item, history) == SelectSeq(history, LAMBDA h : h.id # item.id)

\* Activities that match, the checked one among them, compared with a number or
\* with a share of the history, which it is not part of.
EnoughActivities(c, matched, length) ==
    IF c.activity.percent THEN ComparePercent(matched, length, c.activity.op, c.activity.value)
    ELSE Meets(matched, c.activity)

\* What one more activity makes of the counts.  A threshold once met stays met.
CountNext(c, length, acc, a) ==
    LET n == GetMatches(a, c.testOn)
        matched == acc.matched + IF Meets(n, c.match) THEN 1 ELSE 0
    IN [matches |-> acc.matches + n, matched |-> matched,
        enough |-> acc.enough \/ (c.on /\ EnoughActivities(c, matched, length)),
        total |-> acc.total \/ (c.onTotal /\ Meets(acc.matches + n, c.total))]

\* The activity alone; a share cannot be met by it.
CountItem(c, item) ==
    LET n == GetMatches(item, c.testOn)
        single == Meets(n, c.match)
        matched == IF single THEN 1 ELSE 0
    IN [matches |-> n, matched |-> matched,
        enough |-> c.on /\ ~c.activity.percent /\ Meets(matched, c.activity),
        total |-> c.onTotal /\ Meets(n, c.total)]

\* The history is looked at only if a threshold is not met yet.
LooksBack(c, item) ==
    LET alone == CountItem(c, item)
    IN /\ (c.on /\ ~alone.enough) \/ (c.onTotal /\ ~alone.total)
       /\ c.window
       /\ c.mustMatchCurrent => alone.matched = 1

RegexCriterion(c, item, history) ==
    LET rest == RestOfHistory(item, history)
        alone == CountItem(c, item)
        end == IF LooksBack(c, item) THEN FoldLeft(LAMBDA acc, a : CountNext(c, Len(rest), acc, a), alone, rest) ELSE alone
    IN IF ~c.on /\ ~c.onTotal THEN alone.matched = 1 ELSE end.enough \/ end.total

\* process: the criteria are joined; the loop ends with the one that decides.
RegexRule(criteria, condition, item, history) ==
    IF condition = "OR" THEN \E i \in DOMAIN criteria : RegexCriterion(criteria[i], item, history)
    ELSE \A i \in DOMAIN criteria : RegexCriterion(criteria[i], item, history)

-----------------------------------------------------------------------------
(* Shares of a history *)

\* A threshold that is not there holds.
Threshold == {Unset} \cup GenericComparison

\* part compared with a number, or as a share of whole.
MeetsShare(part, whole, t) ==
    IF t = Unset THEN TRUE
    ELSE IF t.percent THEN ComparePercent(part, whole, t.op, t.value) ELSE Compare(part, t.op, t.value)

\* asOp: comments on own submissions, as a share of all comments; ratio: those
\* counted, compared with the activities of another window.
HistoryCriteria == [submission : Threshold, comment : Threshold, asOp : BOOLEAN, total : Threshold,
                    ratio : Threshold, minActivityCount : Nat]

\* The rule; lists of subreddits: to include, to exclude.  All criteria are
\* taken to have the same window here.
HistoryConfig == [criteria : Seq(HistoryCriteria), condition : {"AND", "OR"}, include : Seq(Nat) \cup {Unset},
                  exclude : Seq(Nat) \cup {Unset}]

\* The lists of the rule itself are used where the window has no filter for its
\* results: those to include at least as an empty list, so that, as with
\* windows, none are excluded.
HistoryWindow(post, include, exclude) ==
    IF post # Unset THEN post
    ELSE [subreddits |-> BuildSubredditFilter([include |-> include, exclude |-> exclude]),
          submissionState |-> FALSE, commentState |-> FALSE, activityState |-> FALSE]

OfKind(list, kind) == Len(SelectSeq(list, LAMBDA a : a.kind = kind))

AsOp(list) == Len(SelectSeq(list, LAMBDA a : a.kind = "comment" /\ a.own))

\* What the filtered activities are a share of: those of the whole window.
ActivityTotal(pre, filtered) == Len(pre)

CommentTrigger(c, pre, filtered) ==
    IF c.asOp THEN MeetsShare(AsOp(filtered), OfKind(pre, "comment"), c.comment)
    ELSE MeetsShare(OfKind(filtered, "comment"), ActivityTotal(pre, filtered), c.comment)

SubmissionTrigger(c, pre, filtered) ==
    MeetsShare(OfKind(filtered, "submission"), ActivityTotal(pre, filtered), c.submission)

TotalTrigger(c, pre, filtered) == MeetsShare(Len(filtered), ActivityTotal(pre, filtered), c.total)

\* A ratio is a share whether it is written as one or not.
RatioTrigger(c, filtered, ratioActivities) ==
    LET t == c.ratio
    IN t = Unset \/ ComparePercent(Len(filtered), ratioActivities, t.op, IF t.percent THEN t.value ELSE 100 * t.value)

Enough(c, pre, filtered) == Len(filtered) >= c.minActivityCount

\* One criterion on a window, and on what its filter leaves of it.
HistoryCriterion(c, pre, filtered, ratioActivities) ==
    IF ~Enough(c, pre, filtered) THEN "skipped"
    ELSE IF SubmissionTrigger(c, pre, filtered) /\ CommentTrigger(c, pre, filtered)
            /\ TotalTrigger(c, pre, filtered) /\ RatioTrigger(c, filtered, ratioActivities)
         THEN "met" ELSE "unmet"

\* Of the criteria that were not skipped one must be met, or all.  With none
\* left all are, and the result is made of one that there is not.
HistoryOutcome(results, condition) ==
    LET counted == Range(results) \ {"skipped"}
    IN IF condition = "OR" THEN IF "met" \in counted THEN "met" ELSE "unmet"
       ELSE IF counted = {} THEN "throw" ELSE IF counted = {"met"} THEN "met" ELSE "unmet"

HistoryRule(criteria, condition, history, post, ratioActivities) ==
    HistoryOutcome([i \in DOMAIN criteria |->
                       HistoryCriterion(criteria[i], history, FilterListing(history, post), ratioActivities)],
                   condition)

-----------------------------------------------------------------------------
(* Attribution *)

DomainTypes == {"redditMedia", "self", "media", "link"}

\* domains: what is counted, or, if empty, each domain that is linked to.
AttributionCriteria == [threshold : GenericComparison, minActivityCount : Nat, domains : SUBSET STRING,
                        domainsCombined : BOOLEAN, aggregateOn : SUBSET DomainTypes]

\* Lists of subreddits of the criterion itself do not filter anything: they are
\* added to the filter under names it does not have.  States are, unless the
\* window has filters on them.
AttributionWindow(post, commentState, submissionState) ==
    IF post = Unset
    THEN [subreddits |-> Unset, submissionState |-> submissionState, commentState |-> commentState,
          activityState |-> FALSE]
    ELSE [post EXCEPT !.submissionState = @ \/ submissionState, !.commentState = @ \/ commentState]

\* The domain of the checked submission may be asked for, of a comment not.
RealDomains(c, item) ==
    {IF d = "AGG:SELF" THEN item.domain ELSE d : d \in c.domains}

\* Submissions that are counted.
Aggregated(c, item, activities) ==
    SelectSeq(activities, LAMBDA a : /\ a.kind = "submission"
                                     /\ c.aggregateOn # {} => a.type \in c.aggregateOn
                                     /\ RealDomains(c, item) # {} => a.domain \in RealDomains(c, item))

Combined(counts) == << FoldLeft(LAMBDA x, y : x + y, 0, counts) >>

\* How often each domain was linked to, or all of them together.
DomainCounts(c, item, activities) ==
    LET counted == Aggregated(c, item, activities)
        domains == SetToSeq({counted[i].domain : i \in DOMAIN counted})
        counts == [i \in DOMAIN domains |-> Len(SelectSeq(counted, LAMBDA a : a.domain = domains[i]))]
    IN IF c.domainsCombined THEN Combined(counts) ELSE counts

\* An empty window leaves no result, one that is too small an unmet one.
AttributionCriterion(c, item, activities) ==
    LET counts == DomainCounts(c, item, activities)
    IN CASE activities = <<>> -> "none"
         [] activities # <<>> /\ Len(activities) < c.minActivityCount -> "few"
         [] OTHER -> IF "AGG:SELF" \in c.domains /\ item.kind = "comment" THEN "throw"
                     ELSE IF \E i \in DOMAIN counts : MeetsShare(counts[i], Len(activities), c.threshold)
                     THEN "met" ELSE "unmet"

AttributionRule(criteria, criteriaJoin, item, activities) ==
    LET results == {AttributionCriterion(criteria[i], item, activities) : i \in DOMAIN criteria} \ {"none"}
    IN IF "throw" \in results THEN "throw"
       ELSE IF results \subseteq {"few"} THEN "unmet"
       ELSE IF criteriaJoin = "OR" THEN IF "met" \in results THEN "met" ELSE "unmet"
       ELSE IF results = {"met"} THEN "met" ELSE "unmet"

-----------------------------------------------------------------------------
(* Recent activity *)

\* How images are compared: by hash, at most hard apart, or at most soft apart
\* and then by pixels.  hard or soft may be left out.
StrongImageDetection == [enable : BOOLEAN, hash : BOOLEAN, hardThreshold : Nat \cup {Unset},
                         softThreshold : Nat \cup {Unset}, pixel : BOOLEAN]

\* As it stands in a config, where everything may be left out; noHard: null in
\* place of the hard threshold, there is none at all.
ImageDetection ==
    [enable : BOOLEAN \cup {Unset}, threshold : Nat \cup {Unset}, hash : BOOLEAN \cup {Unset},
     noHard : BOOLEAN, hardThreshold : Nat \cup {Unset}, softThreshold : Nat \cup {Unset}, pixel : BOOLEAN \cup {Unset}]

\* What the rule makes of it.
StrongDetection(config) ==
    LET Or(v, default) == IF v = Unset THEN default ELSE v
    IN [enable |-> Or(config.enable, FALSE), hash |-> Or(config.hash, TRUE),
        hardThreshold |-> IF config.noHard THEN Unset
                          ELSE Or(config.hardThreshold, Or(config.threshold, 5)),
        softThreshold |-> config.softThreshold, pixel |-> Or(config.pixel, TRUE)]

\* Without a hash of the reference nothing is compared, not even pixels.
\* diff: how far the image is from the reference, Unset if there is none.
SameImage(detection, x) ==
    LET hard == detection.hardThreshold
        soft == detection.softThreshold
    IN /\ detection.enable /\ detection.hash /\ x.diff # Unset
       /\ \/ hard # Unset /\ x.diff <= hard
          \/ soft # Unset /\ x.diff <= soft /\ detection.pixel /\ x.samePixels

\* ci: the same link, or the same image, in another submission.
SameContent(detection, item, x) ==
    /\ x.kind = "submission" /\ x.id # item.id /\ x.url # Unset
    /\ x.url = item.url \/ SameImage(detection, x)

\* The activities that count at all.  useSubmissionAsReference is on by default
\* for submissions; a reference that is no link leaves nothing.
Viable(rule, item, activities) ==
    IF (IF rule.reference = Unset THEN item.kind = "submission" ELSE rule.reference.is)
    THEN IF item.kind = "comment" \/ item.self THEN <<>>
         ELSE SelectSeq(activities, LAMBDA x : SameContent(rule.imageDetection, item, x))
    ELSE activities

\* A threshold: filters on states and on subreddits, and what is compared.
ActivityThreshold == [submissionState : BOOLEAN, commentState : BOOLEAN, subreddits : {Unset},
                      threshold : GenericComparison, karma : GenericComparison \cup {Unset},
                      subredditThreshold : GenericComparison \cup {Unset}]

ValidActivity(t, viable) ==
    BatchTested(SelectSeq(viable, LAMBDA a : StatePasses(a, [submissionState |-> t.submissionState,
                                                             commentState |-> t.commentState,
                                                             activityState |-> FALSE])),
                t.subreddits, TRUE)

RecentActivityConfig == [thresholds : Seq(ActivityThreshold), imageDetection : StrongImageDetection,
                         reference : {Unset} \cup [is : BOOLEAN]]

CombinedKarma(list) == FoldLeft(LAMBDA sum, a : sum + a.score, 0, list)

\* The list of names itself is compared with the number: an empty one is zero,
\* any other is not a number.  A share of lists is none either.
MeetsSubreddits(names, t) == ~t.percent /\ names = {} /\ Compare(0, t.op, t.value)

\* A share is one of the viable activities, not of all.
Triggers(t, viable) ==
    LET valid == ValidActivity(t, viable)
        names == {valid[i].name : i \in DOMAIN valid}
    IN /\ IF t.threshold.percent
          THEN ComparePercent(Len(valid), Len(viable), t.threshold.op, t.threshold.value)
          ELSE Compare(Len(valid), t.threshold.op, t.threshold.value)
       /\ t.karma = Unset \/ Compare(CombinedKarma(valid), t.karma.op, t.karma.value)
       /\ t.subredditThreshold = Unset \/ MeetsSubreddits(names, t.subredditThreshold)

\* process: the window begins with the item itself, whether Reddit returns it
\* or not; one threshold is enough.
RecentRule(rule, item, activities) ==
    \E i \in DOMAIN rule.thresholds : Triggers(rule.thresholds[i], Viable(rule, item, activities))

ProcessRecent(rule, window, item, history) ==
    RecentRule(rule, item, AfterPost(window, Window(window, history, <<item>>)))
=============================================================================
