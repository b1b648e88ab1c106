------------------------------ MODULE Criteria ------------------------------
(***************************************************************************)
(* Filters, and first one criterion of a filter: the properties of an      *)
(* activity, of its author or of its subreddit that must hold (include) or *)
(* must not (exclude).                                                     *)
(*                                                                         *)
(* A criterion is a sequence of <<property, expected value>>, in the order *)
(* in which the properties are tested.  A test writes "pass" or "fail" for *)
(* its property (or, as the code does, for another), or leaves it          *)
(* "untested"; or the whole criterion throws.                              *)
(***************************************************************************)
EXTENDS Sequences, FiniteSets, SequencesExt, Comparisons

\* criteriaPassWithIncludeBehavior
ByBehavior(match, include) == IF match = include THEN "pass" ELSE "fail"

\* What a test does: the property it writes to, and what.
To(p, outcome) == [writes |-> p, outcome |-> outcome]

\* Mutant: a property that passes ends the test.
EndsAtPass(outcome) == outcome # "untested"

\* What ends the test of a criterion.
EndsTest(outcome) == outcome = "fail"

\* The properties are tested in turn until one fails; those of the map that
\* are a boolean at the end must all be true.
Tested(crit, Test(_)) ==
    LET Step(acc, pair) ==
            LET result == Test(pair)
            IN IF acc.over \/ acc.threw THEN acc
               ELSE IF result.writes \notin DOMAIN acc.map THEN [acc EXCEPT !.threw = TRUE]
               ELSE LET map == [acc.map EXCEPT ![result.writes] = result.outcome]
                    IN [acc EXCEPT !.map = map, !.over = EndsTest(map[pair[1]])]
        start == [map |-> [p \in {crit[i][1] : i \in DOMAIN crit} |-> "untested"],
                  over |-> FALSE, threw |-> FALSE]
        end == FoldLeft(Step, start, crit)
    IN IF end.threw THEN "throw"
       ELSE IF \E p \in DOMAIN end.map : end.map[p] = "fail" THEN "fail" ELSE "pass"

-----------------------------------------------------------------------------
(* Activities *)

\* How Reddit shows that an activity is gone: for a submission the category
\* of its removal, for a comment the flag removed, the text or the author.
States(kind) ==
    IF kind = "submission" THEN {"none", "automod_filtered", "moderator", "deleted"}
    ELSE {"none", "removed", "hidden", "deleted"}

\* An activity.  mod: the bot moderates its subreddit; banned: it has a date of
\* removal; bannedBy, approvedBy: who did it; reports: those in the database;
\* dispatched: the identifiers of the delayed activities of its name.
Activity ==
    UNION {[kind : {kind}, mod : BOOLEAN, banned : BOOLEAN, state : States(kind),
            bannedBy : {Unset, "bot", "human"}, approved : BOOLEAN, approvedBy : {Unset, "bot", "human"},
            spam : BOOLEAN, score : 0 .. 1, ratio : 0 .. 1, title : {"a", "b"}, reports : SUBSET [type : {"user", "mod"}, recent : BOOLEAN],
            flair : {Unset, "a", "b"}, created : 0 .. 2, op : BOOLEAN, depth : 0 .. 1,
            dispatched : SUBSET {Unset, "x"}] : kind \in {"submission", "comment"}}

\* True, false, or something named.
AnyOr(S) == {[any |-> TRUE, is |-> b] : b \in BOOLEAN} \cup S

Names == [any : {FALSE}, of : {{"bot"}}, behavior : {"include", "exclude"}]

FlairWants == AnyOr([any : {FALSE}, of : {{"a"}}])

Counts == {[op |-> o, value |-> 1] : o \in {">=", "<"}}

ActivityProps == {"dispatched", "source", "score", "reports", "removed", "deleted", "filtered", "age",
                  "createdOn", "approved", "spam", "authorFlairText"}

SubmissionProps == {"title", "link_flair_text", "upvoteRatio"}

CommentProps == {"op", "depth"}

\* What a criterion may want of a property of any activity ...
ActivityState(p) ==
    CASE p \in {"deleted", "filtered", "spam"} -> BOOLEAN
      [] p \in {"removed", "approved"} -> AnyOr(Names)
      [] p \in {"score", "age"} -> Counts
      [] p = "reports" -> [op : {">", "<"}, value : {1}, type : {Unset, "user"}, recent : BOOLEAN]
      [] p = "createdOn" -> {{0, 2}}
      [] p = "dispatched" -> AnyOr([any : {FALSE}, of : {{"x", "y"}}])
      [] p = "source" -> {{[type |-> "poll", id |-> i]} : i \in {Unset, "modqueue"}}
      [] p = "authorFlairText" -> FlairWants

\* ... of a submission ...
SubmissionState(p) ==
    CASE p = "title" -> {{"a"}} [] p = "link_flair_text" -> FlairWants [] p = "upvoteRatio" -> Counts

\* ... and of a comment.
CommentState(p) == CASE p = "op" -> BOOLEAN [] p = "depth" -> Counts

ItemState(p) ==
    IF p \in ActivityProps THEN ActivityState(p) ELSE IF p \in SubmissionProps THEN SubmissionState(p)
    ELSE IF p \in CommentProps THEN CommentState(p) ELSE {Unset}

IsRemoved(item) ==
    IF item.mod
    THEN item.banned /\ IF item.kind = "submission" THEN item.state # "automod_filtered"
                        ELSE item.state = "removed"
    ELSE item.state \in (IF item.kind = "submission" THEN {"moderator", "deleted"} ELSE {"hidden"})

IsFiltered(item) ==
    item.mod /\ item.banned /\ IF item.kind = "submission" THEN item.state = "automod_filtered"
                               ELSE item.state # "removed"

IsDeleted(item) == item.state = "deleted"

\* A list of moderators, with a behavior of its own; the property does not heed
\* whether the criterion is to be included or excluded.
NamePasses(by, names) == (by \in names.of) = (names.behavior = "include")

\* A flair compared with true (any), false (none) or a list of values.
FlairTest(p, value, want, include) ==
    To(p, IF want.any THEN ByBehavior((value # Unset) = want.is, include)
          ELSE IF value = Unset THEN ByBehavior(FALSE, include)
          ELSE ByBehavior(value \in want.of, include))

\* ActivitySource.matches: a requested source without an identifier is broad.
SourceMatches(want, source) ==
    want.type = source.type /\ (want.id = Unset \/ want.id = source.id)

\* Delayed activities of the same name; a found identifier is not compared with
\* true.
DispatchedTest(item, want, include) ==
    LET any == item.dispatched # {}
        named == IF any /\ ~want.any THEN item.dispatched \cap want.of ELSE {}
    IN To("dispatched", ByBehavior(IF want.any THEN any = want.is ELSE named # {}, include))

SourceTest(source, want, include) ==
    To("source", IF source = Unset THEN ByBehavior(FALSE, include)
                 ELSE ByBehavior(\E w \in want : SourceMatches(w, source), include))

\* Reports of a type, and within a time, if the comparison names one.
CountedReports(item, want) ==
    {r \in item.reports : (want.type # Unset => r.type = want.type) /\ (want.recent => r.recent)}

ReportsTest(item, want, include) ==
    To("reports", IF ~item.mod THEN "pass"
                  ELSE ByBehavior(Compare(Cardinality(CountedReports(item, want)), want.op, want.value),
                                  include))

RemovedTest(item, want, include) ==
    To("removed", IF want.any THEN ByBehavior(IsRemoved(item) = want.is, include)
                  ELSE IF ~IsRemoved(item) \/ ~item.mod \/ item.bannedBy = Unset THEN "fail"
                  ELSE IF NamePasses(item.bannedBy, want) THEN "pass" ELSE "fail")

\* An activity that is not approved by anyone fails the property "removed".
ApprovedTest(item, want) ==
    IF ~item.mod THEN To("approved", "pass")
    ELSE IF want.any THEN To("approved", IF item.approved = want.is THEN "pass" ELSE "fail")
    ELSE IF ~item.approved THEN To("removed", "fail")
    ELSE To("approved", IF item.approvedBy # Unset /\ NamePasses(item.approvedBy, want)
                        THEN "pass" ELSE "fail")

CreatedOnTest(item, want) == To("createdOn", IF item.created \in want THEN "pass" ELSE "fail")

\* Properties of one kind of activity pass with the other, whatever is wanted.
OnlyFor(kind, p, item, match, include) ==
    To(p, IF item.kind # kind THEN "pass" ELSE ByBehavior(match, include))

\* The ratio of a comment is written down as its depth.
RatioTest(item, want, include) ==
    IF item.kind = "submission" THEN To("upvoteRatio", ByBehavior(Compare(item.ratio, want.op, want.value), include))
    ELSE To("depth", "pass")

ItemTest(item, source, include, p, want) ==
    CASE p = "submissionState" -> IF item.kind = "submission" THEN To(p, "pass") ELSE To(p, "untested")
      [] p = "dispatched" -> DispatchedTest(item, want, include)
      [] p = "source" -> SourceTest(source, want, include)
      [] p = "score" -> To(p, ByBehavior(Compare(item.score, want.op, want.value), include))
      [] p = "reports" -> ReportsTest(item, want, include)
      [] p = "removed" -> RemovedTest(item, want, include)
      [] p = "deleted" -> To(p, ByBehavior(IsDeleted(item) = want, include))
      [] p = "filtered" -> To(p, IF ~item.mod THEN "pass" ELSE ByBehavior(IsFiltered(item) = want, include))
      [] p = "age" -> To(p, ByBehavior(CompareDuration(item.created, want.op, want.value, 2), include))
      [] p = "createdOn" -> CreatedOnTest(item, want)
      [] p = "title" -> OnlyFor("submission", p, item, item.title \in want, include)
      [] p = "approved" -> ApprovedTest(item, want)
      [] p = "spam" -> To(p, IF ~item.mod THEN "pass" ELSE ByBehavior(item.spam = want, include))
      [] p = "op" -> OnlyFor("comment", p, item, item.op = want, include)
      [] p = "depth" -> OnlyFor("comment", p, item, Compare(item.depth, want.op, want.value), include)
      [] p = "upvoteRatio" -> RatioTest(item, want, include)
      [] p = "link_flair_text" -> IF item.kind = "comment" THEN To(p, "pass")
                                  ELSE FlairTest(p, item.flair, want, include)
      [] p = "authorFlairText" -> FlairTest(p, item.flair, want, include)
      [] p = "misspelled" -> To(p, "untested")

IsItem(item, crit, include, source) ==
    Tested(crit, LAMBDA pair : ItemTest(item, source, include, pair[1], pair[2]))

-----------------------------------------------------------------------------
(* Authors *)

\* An author: whether the profile is there and not suspended, and what tests
\* ask for; notes, actions: the author's user notes and mod actions, oldest
\* first, TRUE for those that match the criterion's type and text.
Author ==
    [exists : BOOLEAN, suspended : BOOLEAN, flair : {Unset, "a", "b"}, age : 0 .. 1,
     linkKarma : 0 .. 1, totalKarma : 0 .. 2, verified : BOOLEAN,
     notes : Seq(BOOLEAN), actions : Seq(BOOLEAN), isMod : BOOLEAN, isContributor : BOOLEAN]

Suspendable == {"age", "linkKarma", "commentKarma", "verified", "description"}

OfProfile == Suspendable \cup {"totalKarma", "shadowBanned"}

\* orderedAuthorCriteriaProps
AuthorOrder == <<"flairText", "userNotes", "shadowBanned", "age", "linkKarma", "totalKarma",
                 "verified", "isMod", "isContributor", "modActions">>

\* How user notes (or mod actions) are searched.
UserSubredditHistoryCriteria(in) ==
    {s \in [in : {in}, search : {"current", "total", "consecutive"}, op : {">=", "<"}, value : {1, 2, 50},
            percent : BOOLEAN, ascending : BOOLEAN] :
        s.percent = (s.value = 50) /\ (s.percent => s.search # "consecutive")}

\* What a criterion may want of a property of an author: of searches one.
AuthorCriteria(p) ==
    CASE p \in {"shadowBanned", "verified", "isMod", "isContributor"} -> BOOLEAN
      [] p = "flairText" -> FlairWants
      [] p = "userNotes" -> {{s} : s \in UserSubredditHistoryCriteria("notes")}
      [] p = "modActions" -> {{s} : s \in UserSubredditHistoryCriteria("actions")}
      [] p \in {"age", "totalKarma"} -> Counts
      [] p = "linkKarma" -> {[op |-> o, value |-> v[1], percent |-> v[2]] :
                                o \in {">=", "<"}, v \in {<<1, FALSE>>, <<50, TRUE>>}}

Ordered(crit) ==
    LET wants == {crit[i] : i \in DOMAIN crit}
        listed == SelectSeq(AuthorOrder, LAMBDA p : \E w \in wants : w[1] = p)
        OfProp(p) == CHOOSE w \in wants : w[1] = p
    IN [i \in DOMAIN listed |-> OfProp(listed[i])]
       \o SelectSeq(crit, LAMBDA w : w[1] \notin Range(AuthorOrder))

\* Matches in a row at the end of a list: the count as the loop leaves it.
TrailingRun(list) ==
    FoldLeft(LAMBDA count, match : IF match THEN count + 1 ELSE 0, 0, list)

Matches(list) == Len(SelectSeq(list, LAMBDA match : match))

\* A search of user notes or of mod actions, both oldest first here; the code
\* keeps the actions newest first, so that ascending is the other way round.
SearchPasses(list, want) ==
    LET used == IF want.search = "current" /\ list # <<>> THEN <<Last(list)>> ELSE list
        whole == IF want.in = "notes" THEN Len(list) ELSE Len(used)
        ordered == IF want.ascending = (want.in = "notes") THEN list ELSE Reverse(list)
    IN IF want.search = "consecutive" THEN Compare(TrailingRun(ordered), want.op, want.value)
       ELSE IF want.percent THEN CompareShare(Matches(used), whole, want.op, want.value)
       ELSE Compare(Matches(used), want.op, want.value)

LinkKarmaMatches(author, want) ==
    IF want.percent THEN ComparePercent(author.linkKarma, author.totalKarma, want.op, want.value)
    ELSE Compare(author.linkKarma, want.op, want.value)

ShadowBannedMatches(author, want) == author.exists # want

FlairMatches(author, want) ==
    IF want.any THEN (author.flair # Unset) = want.is ELSE author.flair # Unset /\ author.flair \in want.of

\* Whether a property is as wanted.
AuthorMatches(author, p, want) ==
    CASE p = "flairText" -> FlairMatches(author, want)
      [] p = "userNotes" -> \E s \in want : SearchPasses(author.notes, s)
      [] p = "modActions" -> \E s \in want : SearchPasses(author.actions, s)
      [] p = "shadowBanned" -> ShadowBannedMatches(author, want)
      [] p = "age" -> CompareDuration(0, want.op, want.value, author.age)
      [] p = "linkKarma" -> LinkKarmaMatches(author, want)
      [] p = "totalKarma" -> Compare(author.totalKarma, want.op, want.value)
      [] p = "verified" -> author.verified = want
      [] p = "isMod" -> author.isMod = want
      [] p = "isContributor" -> author.isContributor = want

\* Tests end early, with what was found so far: after a suspended author, after
\* a failure, and after shadowBanned has passed.
AuthorStep(author, include, acc, w) ==
    LET p == w[1]
        match == ByBehavior(AuthorMatches(author, p, w[2]), include)
    IN IF acc.over \/ acc.threw THEN acc
       ELSE IF p \in OfProfile \ {"shadowBanned"} /\ ~author.exists THEN [acc EXCEPT !.threw = TRUE]
       ELSE IF p \in Suspendable /\ author.suspended
       THEN [acc EXCEPT !.over = TRUE, !.failed = TRUE]
       ELSE [acc EXCEPT !.failed = @ \/ match = "fail",
                        !.over = CASE p = "shadowBanned" -> match = "pass" \/ ~author.exists
                                   [] p = "flairText" -> FALSE
                                   [] OTHER -> match = "fail"]

IsAuthor(author, crit, include) ==
    LET end == FoldLeft(LAMBDA acc, w : AuthorStep(author, include, acc, w),
                        [over |-> FALSE, threw |-> FALSE, failed |-> FALSE], Ordered(crit))
    IN IF end.threw THEN "throw" ELSE IF end.failed THEN "fail" ELSE "pass"

-----------------------------------------------------------------------------
(* Subreddits *)

\* A criterion on a subreddit is a function; properties that the subreddit
\* does not have are passed over.
IsSubreddit(sub, state) ==
    \A p \in DOMAIN state \ {"stateDescription"} :
        CASE p = "name" -> sub.name \in state[p]
          [] p = "isUserProfile" -> state[p] = sub.profile
          [] p \in {"over18", "over_18"} -> state[p] = sub.over18
          [] p = "isOwnProfile" -> state[p] = sub.own
          [] OTHER -> p \in DOMAIN sub => state[p] = sub[p]

NameOnly(state) == DOMAIN state \subseteq {"name", "stateDescription", "isUserProfile"}

\* Items that are tested against the full criteria: those that did not pass.
Unpassed(subs, names, isInclude) ==
    IF names = <<>> THEN subs
    ELSE SelectSeq(subs, LAMBDA s : (\E i \in DOMAIN names : IsSubreddit(s, names[i])) # isInclude)

\* batchTestSubredditCriteria: which items pass, with repetitions.  The second
\* loop never marks a match, so that excluding lets every item pass, and one
\* that matches twice.
BatchTested(subs, states, isInclude) ==
    LET names == SelectSeq(states, LAMBDA s : NameOnly(s))
        full == SelectSeq(states, LAMBDA s : ~NameOnly(s))
        Match(sub, list) == \E i \in DOMAIN list : IsSubreddit(sub, list[i])
        passed == IF names = <<>> THEN <<>>
                  ELSE SelectSeq(subs, LAMBDA s : Match(s, names) = isInclude)
        unpassed == Unpassed(subs, names, isInclude)
        Again(s) == (IF Match(s, full) THEN <<s>> ELSE <<>>) \o (IF isInclude THEN <<>> ELSE <<s>>)
    IN IF states = <<>> THEN subs
       ELSE passed \o (IF full = <<>> THEN <<>>
                       ELSE FlattenSeq([i \in DOMAIN unpassed |-> Again(unpassed[i])]))

-----------------------------------------------------------------------------
(* Filters (itemIs, authorIs): criteria to include or to exclude, how they *)
(* are merged with defaults, and when they pass.                           *)

\* A filter as the code keeps it: criteria, and how excluded ones are joined.
FilterOptions(Crits) == [include : Seq(Crits), exclude : Seq(Crits), condition : {"AND", "OR", Unset}]

Condition(filter) == IF filter.condition = Unset THEN "AND" ELSE filter.condition

\* The criteria are tested in turn until one decides; one that throws ends it.
Decided(list, Test(_), decisive) ==
    LET Step(acc, crit) == IF acc # "open" THEN acc
                           ELSE IF Test(crit) \in {decisive, "throw"} THEN Test(crit) ELSE "open"
    IN FoldLeft(Step, "open", list)

\* The outcome of one excluded criterion that decides.
Decisive(condition) == IF condition = "AND" THEN "fail" ELSE "pass"

\* checkItemFilter and checkAuthorFilter: one included criterion is enough, and
\* nothing is excluded then; of the excluded ones all must pass, or one.
CheckFilter(filter, Test(_, _)) ==
    LET included == Decided(filter.include, LAMBDA c : Test(c, TRUE), "pass")
        decisive == Decisive(Condition(filter))
        excluded == Decided(filter.exclude, LAMBDA c : Test(c, FALSE), decisive)
    IN IF filter.include # <<>> THEN IF included = "open" THEN "fail" ELSE included
       ELSE IF filter.exclude = <<>> THEN "pass"
       ELSE IF excluded # "open" THEN excluded
       ELSE IF decisive = "fail" THEN "pass" ELSE "fail"

AuthorFilter(author, filter) == CheckFilter(filter, LAMBDA c, include : IsAuthor(author, c, include))

\* A rule of its own: without criteria there is none, otherwise it is the filter.
AuthorRule(author, filter) ==
    IF filter.include = <<>> /\ filter.exclude = <<>> THEN "throw" ELSE AuthorFilter(author, filter)

\* The properties of a criterion besides that on the submission of a comment.
Rest(crit) == SelectSeq(crit, LAMBDA w : w[1] # "submissionState")

OnSubmission(crit) == {crit[i][2] : i \in {j \in DOMAIN crit : crit[j][1] = "submissionState"}}

\* A criterion of a comment that asks for its submission is taken apart: the
\* states are included, also if the criterion is to be excluded, and the rest
\* is tested only if the submission has one of them.
ItemCriterion(item, sub, source, crit, include) ==
    IF item.kind = "submission" \/ OnSubmission(crit) = {} THEN IsItem(item, crit, include, source)
    ELSE LET states == CHOOSE s \in OnSubmission(crit) : TRUE
             onSub == CheckFilter([include |-> states, exclude |-> <<>>, condition |-> Unset],
                                  LAMBDA c, inc : IsItem(sub, c, inc, Unset))
         IN IF onSub # "pass" THEN onSub ELSE IsItem(item, Rest(crit), include, source)

ItemFilter(item, sub, source, filter) ==
    CheckFilter(filter, LAMBDA c, include : ItemCriterion(item, sub, source, c, include))

\* runFilters: the author is tested only if the item passes.
RunFilters(item, sub, source, author, itemIs, authorIs) ==
    LET onItem == ItemFilter(item, sub, source, itemIs)
    IN IF onItem # "pass" THEN onItem ELSE AuthorFilter(author, authorIs)

-----------------------------------------------------------------------------
(* Building *)

\* A filter as it stands in a config: a list, or include and exclude.
BuildFilter(val) ==
    IF val.list # Unset THEN [include |-> val.list, exclude |-> <<>>, condition |-> "OR"]
    ELSE [include |-> val.include, exclude |-> val.exclude, condition |-> val.condition]

\* What a bot adds where its operator has not configured any: moderators are
\* left alone.
FilterCriteriaDefault ==
    BuildFilter([list |-> Unset, include |-> <<>>, exclude |-> << << <<"isMod", TRUE>> >> >>, condition |-> Unset])

PropsOf(list) == UNION {{list[i][j][1] : j \in DOMAIN list[i]} : i \in DOMAIN list}

\* Defaults are added unless they ask for a property that is asked for already.
AddNonConflictingCriteria(defaults, explicit) ==
    IF explicit = <<>> THEN defaults
    ELSE explicit \o SelectSeq(defaults, LAMBDA c : PropsOf(<<c>>) \cap PropsOf(explicit) = {})

\* mergeFilters, for one of the two filters.
MergeFilters(own, behavior, defaults) ==
    IF behavior = "merge"
    THEN [condition |-> IF own.condition # Unset THEN own.condition ELSE defaults.condition,
          include |-> AddNonConflictingCriteria(defaults.include, own.include),
          exclude |-> AddNonConflictingCriteria(defaults.exclude, own.exclude)]
    ELSE IF own.include = <<>> /\ own.exclude = <<>> THEN defaults ELSE own
=============================================================================
