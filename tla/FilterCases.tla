------------------------------ MODULE FilterCases ------------------------------
(***************************************************************************)
(* Inputs for what is computed on filters and windows, and what their      *)
(* documentation says of the results.                                      *)
(***************************************************************************)
EXTENDS Windows, TLC

VARIABLE subject  \* the input a behavior picks: a record whose field "about" names the computation

\* Before, only what the input will be about is known.
Awaits(about) == subject = [about |-> "nothing", next |-> about]

Picks(about, s) == subject' = s @@ [about |-> about]

IsAbout(about) == subject.about = about

-----------------------------------------------------------------------------
(* Criteria on activities *)

Varied(props, relevant, S, default) == IF props \cap relevant # {} THEN S ELSE {default}

\* Activities that differ in what the properties look at.
ActivitiesFor(props) ==
    UNION {[kind : {k}, mod : BOOLEAN,
            banned : Varied(props, {"removed", "filtered"}, BOOLEAN, FALSE),
            state : Varied(props, {"removed", "filtered", "deleted"}, States(k), "none"),
            bannedBy : Varied(props, {"removed"}, {Unset, "bot", "human"}, Unset),
            approved : Varied(props, {"approved"}, BOOLEAN, FALSE),
            approvedBy : Varied(props, {"approved"}, {Unset, "bot"}, Unset),
            spam : Varied(props, {"spam"}, BOOLEAN, FALSE),
            score : Varied(props, {"score"}, 0 .. 1, 0), ratio : Varied(props, {"upvoteRatio"}, 0 .. 1, 0),
            title : Varied(props, {"title"}, {"a", "b"}, "a"),
            reports : Varied(props, {"reports"}, {R \in SUBSET [type : {"user", "mod"}, recent : BOOLEAN] : Cardinality(R) < 3}, {}),
            flair : Varied(props, {"link_flair_text", "authorFlairText"}, {Unset, "a", "b"}, Unset),
            created : Varied(props, {"age", "createdOn"}, 0 .. 2, 0),
            op : Varied(props, {"op"}, BOOLEAN, FALSE), depth : Varied(props, {"depth"}, 0 .. 1, 0),
            dispatched : Varied(props, {"dispatched"}, SUBSET {Unset, "x"}, {})]
           : k \in {"submission", "comment"}}

ItemProps == ActivityProps \cup SubmissionProps \cup CommentProps \cup {"misspelled"}

Sources == {Unset, [type |-> "poll", id |-> "modqueue"], [type |-> "user", id |-> Unset]}

PickItemCriterion ==
    \E p, q \in ItemProps, include \in BOOLEAN :
        \E w \in ItemState(p), v \in ItemState(q), item \in ActivitiesFor({p, q}),
           source \in IF "source" \in {p, q} THEN Sources ELSE {Unset} :
            Picks("item", [crit |-> IF p = q THEN << <<p, w>> >> ELSE << <<p, w>>, <<q, v>> >>,
                           item |-> item, source |-> source, include |-> include])

\* What a criterion makes of the subject.
OutcomeOf(crit, include) ==
    IF IsAbout("item") THEN IsItem(subject.item, crit, include, subject.source)
    ELSE IsAuthor(subject.author, crit, include)

\* Tests that write to another property than their own.
Strays(crit) ==
    IF IsAbout("item")
    THEN \E i \in DOMAIN crit :
            \/ crit[i][1] = "upvoteRatio" /\ subject.item.kind = "comment"
            \/ crit[i][1] = "approved" /\ ~crit[i][2].any
    ELSE \E i \in DOMAIN crit : crit[i][1] = "shadowBanned"

\* A criterion passes if and only if all its properties would alone (comment on
\* AuthorCriteria: all present properties passing), except where a test writes
\* to another property or ends all tests.
AllPropertiesPass ==
    (IsAbout("item") \/ IsAbout("author")) /\ ~Strays(subject.crit) =>
        LET alone == {OutcomeOf(<<subject.crit[i]>>, subject.include) : i \in DOMAIN subject.crit}
        IN (OutcomeOf(subject.crit, subject.include) = "pass") <=> alone \subseteq {"pass"}

\* Tests whose outcome does not depend on whether the criterion is excluded.
Undecided(crit) ==
    LET p == crit[1][1]
    IN IF IsAbout("author") THEN p \in Suspendable /\ subject.author.suspended
       ELSE \/ ~subject.item.mod /\ p \in {"reports", "filtered", "approved", "spam"}
            \/ subject.item.kind = "comment" /\ p \in {"title", "link_flair_text", "upvoteRatio"}
            \/ subject.item.kind = "submission" /\ p \in {"op", "depth"}
            \/ p \in {"createdOn", "approved", "misspelled"}
            \/ p = "removed" /\ ~crit[1][2].any

\* A criterion of one property is excluded exactly where it is not included.
ExcludeIsOpposite ==
    (IsAbout("item") \/ IsAbout("author")) /\ Len(subject.crit) = 1 /\ ~Undecided(subject.crit) =>
        {OutcomeOf(subject.crit, TRUE), OutcomeOf(subject.crit, FALSE)} \in {{"pass", "fail"}, {"throw"}}

-----------------------------------------------------------------------------
(* Criteria on authors *)

Lists == UNION {[1 .. n -> BOOLEAN] : n \in 0 .. 3}

AuthorsFor(props) ==
    [exists : BOOLEAN, suspended : BOOLEAN,
     flair : Varied(props, {"flairText"}, {Unset, "a", "b"}, Unset),
     age : Varied(props, {"age"}, 0 .. 2, 0), linkKarma : Varied(props, {"linkKarma"}, 0 .. 2, 0),
     totalKarma : Varied(props, {"linkKarma", "totalKarma"}, 0 .. 2, 0),
     verified : Varied(props, {"verified"}, BOOLEAN, FALSE),
     notes : Varied(props, {"userNotes"}, {<<>>, <<TRUE>>, <<FALSE, TRUE>>}, <<>>), actions : Varied(props, {"modActions"}, {<<>>, <<TRUE>>, <<FALSE, TRUE>>}, <<>>),
     isMod : Varied(props, {"isMod"}, BOOLEAN, FALSE),
     isContributor : Varied(props, {"isContributor"}, BOOLEAN, FALSE)]

PickCriteriaOn(p, q, include) ==
    \E w \in AuthorCriteria(p), v \in AuthorCriteria(q), author \in AuthorsFor({p, q}) :
        Picks("author", [crit |-> IF p = q THEN << <<p, w>> >> ELSE << <<p, w>>, <<q, v>> >>,
                         author |-> author, include |-> include])

\* In the order in which they are tested, however they are written.
PickAuthorCriterion ==
    \E i, j \in DOMAIN AuthorOrder, include \in BOOLEAN : i <= j /\ PickCriteriaOn(AuthorOrder[i], AuthorOrder[j], include)

PickSearch ==
    \E in \in {"notes", "actions"} : \E s \in UserSubredditHistoryCriteria(in), list \in Lists :
        Picks("search", [list |-> list, want |-> s])

\* Searches end where the comment on search says (FilterCriteria.ts:87-108):
\* "current" looks at the newest only, "consecutive" finds that many in a row
\* somewhere, "total" does not heed the order.
SearchFindsRuns ==
    IsAbout("search") /\ SearchPasses(subject.list, subject.want) =>
        LET list == subject.list
            want == subject.want
            RunOf(n) == \E i \in 1 .. Len(list) : i + n - 1 <= Len(list) /\ \A j \in i .. i + n - 1 : list[j]
        IN CASE want.search = "consecutive" -> want.op = ">=" /\ ~want.percent => RunOf(want.value)
             [] want.search = "current" ->
                    list # <<>> => SearchPasses(<<Last(list)>>, want) \/ (want.percent /\ want.in = "notes")
             [] want.search = "total" -> SearchPasses(Reverse(list), want)

-----------------------------------------------------------------------------
(* Filters *)

Simple == { << <<p, w>> >> : p \in {"isMod", "isContributor"}, w \in BOOLEAN}
          \cup {<< <<"verified", TRUE>> >>}

CriteriaLists == UNION {[1 .. n -> Simple] : n \in 0 .. 2}

FilterValues ==
    [list : {Unset}, include : CriteriaLists, exclude : CriteriaLists, condition : {"AND", "OR", Unset}]
    \cup {[list |-> l, include |-> <<>>, exclude |-> <<>>, condition |-> Unset] : l \in CriteriaLists}

PickFilter ==
    \E val \in FilterValues, behavior \in {"merge", "replace"},
       author \in {a \in AuthorsFor({"isMod", "isContributor"}) : ~a.suspended} :
        Picks("filter", [own |-> BuildFilter(val), behavior |-> behavior, author |-> author])

\* Of criteria that are all excluded none may hold; of those one of which is
\* enough, one may not hold (comments on include, exclude and excludeCondition).
ExcludedAreJoined ==
    IsAbout("filter") =>
        LET own == subject.own
            With(list, c) == [own EXCEPT !.include = <<>>, !.exclude = list, !.condition = c]
            Joined(l1, l2, c) == AuthorRule(subject.author, With(l1 \o l2, c))
            Alone(l, c) == AuthorRule(subject.author, With(l, c))
            Join(c, S) == IF "throw" \in S THEN {"throw", "pass", "fail"}
                          ELSE IF c = "AND" THEN IF S = {"pass"} THEN {"pass"} ELSE {"fail"}
                          ELSE IF "pass" \in S THEN {"pass"} ELSE {"fail"}
        IN own.include # <<>> /\ own.exclude # <<>> =>
               \A c \in {"AND", "OR"} :
                   Joined(own.include, own.exclude, c) \in Join(c, {Alone(own.include, c), Alone(own.exclude, c)})

\* Moderators stay protected by the default unless the check includes authors,
\* asks for moderators itself, or joins what it excludes with OR (comment on
\* FilterCriteriaDefaults: merge adds the defaults to the check's filter).
DefaultsProtect ==
    IsAbout("filter") /\ subject.behavior = "merge" /\ subject.own.include = <<>>
    /\ subject.own.condition # "OR" /\ "isMod" \notin PropsOf(subject.own.exclude) /\ subject.author.isMod =>
        AuthorFilter(subject.author, MergeFilters(subject.own, subject.behavior, FilterCriteriaDefault)) # "pass"

-----------------------------------------------------------------------------
(* Subreddits *)

Subs == [name : {"s", "t"}, profile : {FALSE}, over18 : BOOLEAN, own : {FALSE}]

States18 == [name : {{"s"}}] \cup [over18 : BOOLEAN] \cup [name : {{"t"}}, over18 : {TRUE}]

PickBatch ==
    \E subs \in [1 .. 2 -> Subs], isInclude \in BOOLEAN :
        \E states \in UNION {[1 .. n -> States18] : n \in 0 .. 2} :
            Picks("batch", [subs |-> subs, states |-> states, isInclude |-> isInclude])

\* A batch passes the items that would pass one by one, in any order, each as
\* often as it is there; when excluding, if all criteria are on the name.
BatchPassesItems ==
    IsAbout("batch")
    /\ (subject.isInclude \/ \A i \in DOMAIN subject.states : NameOnly(subject.states[i])) =>
        LET passed == BatchTested(subject.subs, subject.states, subject.isInclude)
            Passes(s) == \/ subject.states = <<>>
                         \/ (\E i \in DOMAIN subject.states : IsSubreddit(s, subject.states[i])) = subject.isInclude
            Count(list, s) == Cardinality({i \in DOMAIN list : list[i] = s})
        IN \A s \in Range(subject.subs) : Count(passed, s) = IF Passes(s) THEN Count(subject.subs, s) ELSE 0

-----------------------------------------------------------------------------
(* Windows *)

\* Histories: newest first, in one subreddit or the other.
HistoriesOf(n) ==
    {[i \in 1 .. n |-> [id |-> i, age |-> a[i], kind |-> "comment", ok |-> k[i], name |-> "s",
                        profile |-> FALSE, over18 |-> k[i], own |-> FALSE]] :
        a \in {f \in [1 .. n -> 0 .. 2] : \A i \in 1 .. n - 1 : f[i] <= f[i + 1]}, k \in [1 .. n -> BOOLEAN]}

\* Filters, as they stand in a config, that the activities that are ok pass.
OfStates == [subreddits |-> Unset, submissionState |-> FALSE, commentState |-> FALSE, activityState |-> TRUE]

Included == [OfStates EXCEPT !.activityState = FALSE, !.subreddits = [include |-> <<[over18 |-> TRUE]>>, exclude |-> Unset]]

Excluded == [Included EXCEPT !.subreddits = [include |-> Unset, exclude |-> <<[over18 |-> FALSE]>>]]

WindowConfigs ==
    {[type |-> "number", value |-> 2], [type |-> "duration", value |-> 1]}
    \cup {c \in [type : {"full"}, count : {Unset, 1, 2, 3}, duration : {Unset, 1, 2}, satisfyOn : {"any", "all"},
                  chunkSize : 1 .. 3, pre : {Unset, OfStates, Included}, filters : {Unset, OfStates}, post : {Unset, Excluded},
                  max : {[items |-> 3, age |-> Unset], [items |-> 5, age |-> Unset], [items |-> Unset, age |-> 2]}] :
             /\ c.count # Unset \/ c.duration # Unset
             /\ c.pre = Unset \/ c.chunkSize # 2 => c.max.items = 3
             /\ c.pre = Included => c.post = Unset
             /\ c.filters # Unset => c.pre = Unset /\ c.chunkSize = 2}

\* Windows that need several pages, the last of which may hold more than is
\* wanted, and histories that are longer still.
LongWindowConfigs ==
    [type : {"full"}, count : {4, 5}, duration : {Unset, 1}, satisfyOn : {"any", "all"}, chunkSize : 2 .. 3,
     pre : {Unset, OfStates}, filters : {Unset}, post : {Unset}, max : {[items |-> 7, age |-> Unset]}]

LongHistories == {h \in HistoriesOf(6) : \A i \in 1 .. 6 : h[i].age # 1}

PickWindow ==
    \E withItem \in BOOLEAN :
    \E config \in WindowConfigs \cup LongWindowConfigs :
    \E history \in IF config \in LongWindowConfigs THEN LongHistories
                   ELSE UNION {HistoriesOf(n) : n \in {0, 2, 4}} :
        Picks("window", [window |-> ToWindowCriteria(config), history |-> history,
                         prefetched |-> IF withItem /\ history # <<>> THEN <<history[1]>> ELSE <<>>])

Ok(item) == item.ok

\* What a window is said to be: activities that pass the filter on pages, the
\* ones that were there already first.
Eligible ==
    LET rest == SelectSeq(subject.history, LAMBDA i : i \notin Range(subject.prefetched))
        all == subject.prefetched \o rest
    IN IF subject.window.pre = Unset THEN all ELSE SelectSeq(all, Ok)

IsPrefixOf(s, t) == Len(s) <= Len(t) /\ SubSeq(t, 1, Len(s)) = s

\* Pages are no longer than the window, so that they follow each other without
\* overlap.
PagesFit == subject.window.count = Unset \/ subject.window.chunkSize <= subject.window.count

FirstOf(list, count) == IF count = Unset \/ Len(list) <= count THEN list ELSE SubSeq(list, 1, count)

Recently ==
    IF subject.window.duration = Unset THEN Eligible
    ELSE SelectSeq(Eligible, LAMBDA i : i.age < subject.window.duration \/ i \in Range(subject.prefetched))

\* The page that reaches the count reaches the duration too, after it: all of
\* it that is in time is taken.
TimeEndsPage ==
    LET o == subject.window
        last == o.chunkSize * ((o.count + o.chunkSize - 1) \div o.chunkSize)
        Old(i) == i <= Len(subject.history) /\ subject.history[i].age >= o.duration
    IN /\ o.count # Unset /\ o.duration # Unset
       /\ \E i \in o.count + 1 .. last : Old(i)
       /\ \A i \in 1 .. o.count : ~Old(i)

IsNewest(result, recent) ==
    LET o == subject.window
        wanted == FirstOf(recent, o.count)
    IN /\ IsPrefixOf(wanted, result) /\ IsPrefixOf(result, recent)
       /\ o.count # Unset => Len(result) < o.count + o.chunkSize
       /\ o.pre = Unset /\ subject.prefetched = <<>> => result = IF TimeEndsPage THEN recent ELSE wanted

\* With "any", if neither pages are too long nor too much is passed over, the
\* window holds at least the newest eligible activities in time up to the
\* count, in order and without a gap; and no more, if no page is filtered
\* (activitiesWindow.md:177-192), except where one page reaches both limits: the
\* duration is looked at first (SR 1252), and nothing is cut to the count, so
\* that there may be almost a page more.
AnyGivesTheNewest ==
    IsAbout("window") /\ subject.window.satisfyOn = "any" /\ PagesFit
    /\ (\/ subject.window.pre = Unset
        \/ subject.window.max.items # Unset /\ Len(subject.history) < subject.window.max.items) =>
        IsNewest(Window(subject.window, subject.history, subject.prefetched), Recently)

\* No activity is counted twice, if pages fit.
NothingTwice ==
    IsAbout("window") /\ PagesFit =>
        IsInjective(Window(subject.window, subject.history, subject.prefetched))

\* Windows that are remembered under one key bring up the same activities (SR
\* 1102: the results of pages are used again, whatever the last filter).
SameKeySameActivities ==
    IsAbout("window") /\ subject.prefetched = <<>> =>
        LET o == subject.window
            variants == {[o EXCEPT !.post = Unset], [o EXCEPT !.pre = Unset], [o EXCEPT !.count = 1],
                         [o EXCEPT !.pre = Unset, !.post = Unset]}
        IN \A v \in {w \in variants : w.count # Unset \/ w.duration # Unset} :
               CacheKey(v) = CacheKey(o) => Window(v, subject.history, <<>>) = Window(o, subject.history, <<>>)
=============================================================================
