------------------------------- MODULE RuleCases -------------------------------
(***************************************************************************)
(* Inputs for rules, and what their documentation says of the results.     *)
(***************************************************************************)
EXTENDS HistoryRules, FilterCases

-----------------------------------------------------------------------------
(* Repeated activity *)

Texts == [kind : {"comment"}, link : {FALSE}, id : 0 .. 3, title : {0}, ok : {TRUE}, counted : {TRUE}]

Links == [kind : {"submission"}, link : {TRUE}, id : {1, 4}, title : {2, 7}, ok : {TRUE}, counted : {FALSE, TRUE}]

Removed == [kind : {"submission"}, link : {FALSE}, id : {1}, title : {0}, ok : {FALSE}, counted : {TRUE}]

\* Histories of posts that are in one set, numbered as they come.
HistoryOf(S, lengths) ==
    UNION {{[i \in 1 .. n |-> f[i] @@ [n |-> i]] : f \in [1 .. n -> S]} : n \in lengths}

RepeatRules(gaps) ==
    [op : {">=", "<"}, value : {2}, gapAllowance : gaps, lookAt : {"all", "submissions"},
     useSubmissionAsReference : BOOLEAN, minWordCount : {1}, keepRemoved : BOOLEAN]

PickRepeat ==
    \/ \E history \in HistoryOf(Texts, 0 .. 5),
          rule \in {r \in RepeatRules(0 .. 2) : ~r.useSubmissionAsReference /\ r.keepRemoved /\ r.lookAt = "all"} :
            Picks("repeat", [rule |-> rule, history |-> history, post |-> Unset, item |-> Unset])
    \/ \E history \in HistoryOf(Links \cup Removed \cup {t \in Texts : t.id = 2}, 1 .. 3), rule \in RepeatRules({0, 1}) :
            Picks("repeat", [rule |-> rule, history |-> history, post |-> Unset, item |-> history[1]])

Kept ==
    SelectSeq(subject.history, LAMBDA p : (subject.rule.keepRemoved \/ p.ok)
                                          /\ (subject.rule.lookAt = "all" \/ p.kind = "submission"))

SetLists(sets) == [i \in DOMAIN sets |-> sets[i].sets]

Joins(post, p) == SameText(post.id, p.id) /\ p.id >= subject.rule.minWordCount

AreRuns(lists, kept) ==
    /\ FlattenSeq(lists) = kept
    /\ \A i \in DOMAIN lists : \A j \in 2 .. Len(lists[i]) : Joins(lists[i][1], lists[i][j])
    /\ \A i \in 1 .. Len(lists) - 1 : ~Joins(lists[i][1], lists[i + 1][1])

LongEnough(lists) == \E i \in DOMAIN lists : Len(lists[i]) >= subject.rule.value

\* Without a gap and without links, a history is cut into runs: each post is in
\* one set, the sets follow one another, all posts of a set are like its first
\* one, and the next one is not; and the rule heeds the longest run (comment on
\* RepeatActivityConfig.threshold, README of repeatActivity: "truly consecutive").
RepeatsAreRuns ==
    IsAbout("repeat") /\ subject.rule.gapAllowance = 0 /\ (\A i \in DOMAIN subject.history : ~subject.history[i].link) =>
        /\ AreRuns(SetLists(RepeatSets(subject.rule, Kept)), Kept)
        /\ subject.item = Unset /\ subject.rule.op = ">=" =>
               (ProcessRepeat(subject.rule, subject.item, subject.history, subject.post)
                <=> LongEnough(SetLists(RepeatSets(subject.rule, Kept))))

Belongs(o, p) == SameText(o.identifier, p.id) \/ (p.link /\ SameText(o.identifier, p.title))

Alike(o) == \A j \in 2 .. Len(o.sets) : o.sets[j - 1].n < o.sets[j].n /\ Belongs(o, o.sets[j])

\* However gaps and titles keep sets open, a set holds only what is like the
\* post it began with, in order and once.
SetsAreAlike ==
    IsAbout("repeat") => \A o \in Range(RepeatSets(subject.rule, Kept)) : Alike(o)

-----------------------------------------------------------------------------
(* Regular expressions *)

MatchedActivities == [id : {1}, kind : {"self", "link", "comment"}, title : 0 .. 1, text : 0 .. 1]

Criterion(op, on, activity, onTotal) ==
    [match |-> [op |-> op, value |-> 0], on |-> on, activity |-> activity, onTotal |-> onTotal,
     total |-> [op |-> op, value |-> 1], testOn |-> {"title", "body"}, mustMatchCurrent |-> FALSE, window |-> TRUE]

RegexCriteriaOf(ops) ==
    {[Criterion(op, on, [op |-> op, value |-> v[1], percent |-> v[2]], onTotal)
        EXCEPT !.testOn = testOn, !.mustMatchCurrent = must, !.window = window] :
        op \in ops, on \in BOOLEAN, onTotal \in BOOLEAN, must \in BOOLEAN, window \in BOOLEAN,
        v \in {<<0, FALSE>>, <<1, FALSE>>, <<50, TRUE>>}, testOn \in {{"title", "body"}, {"body"}, {"url"}}}

PickRegex ==
    \E c \in RegexCriteriaOf({">", "<"}), item \in MatchedActivities, n \in 0 .. 2 :
        \E rest \in [1 .. n -> [id : {2}, kind : {"link", "comment"}, title : {0}, text : 0 .. 1]], again \in BOOLEAN :
            Picks("regex", [criterion |-> c, item |-> item, history |-> IF again THEN <<item>> \o rest ELSE rest])

\* With thresholds from below, what is looked at first does not matter: the
\* criterion holds if and only if the activity and the rest of the history
\* together, each counted once, are enough (comments on activityMatchThreshold
\* and totalMatchThreshold).
RegexCountsOnce ==
    IsAbout("regex") /\ subject.criterion.match.op = ">" =>
        LET c == subject.criterion
            rest == SelectSeq(subject.history, LAMBDA h : h.id # subject.item.id)
            all == <<subject.item>> \o (IF c.window /\ (c.mustMatchCurrent => GetMatches(subject.item, c.testOn) > 0)
                                        THEN rest ELSE <<>>)
            matching == Len(SelectSeq(all, LAMBDA a : GetMatches(a, c.testOn) > 0))
            matches == FoldLeft(LAMBDA sum, a : sum + GetMatches(a, c.testOn), 0, all)
        IN c.on \/ c.onTotal =>
               (RegexCriterion(c, subject.item, subject.history)
                <=> \/ c.on /\ ~c.activity.percent /\ matching > c.activity.value
                    \/ c.on /\ c.activity.percent /\ Len(all) > 1 /\ matching * 100 > c.activity.value * Len(rest)
                    \/ c.onTotal /\ matches > c.total.value)

-----------------------------------------------------------------------------
(* Shares of a history *)

Authored == [kind : {"submission", "comment"}, own : BOOLEAN, ok : BOOLEAN, domain : {"d"}, type : {"link"}]

ShareOf(op, v, percent) == [op |-> op, value |-> v, percent |-> percent]

HistoryCriteriaOf ==
    [submission : {Unset, ShareOf("<", 50, TRUE), ShareOf(">=", 1, FALSE)},
     comment : {Unset, ShareOf(">", 50, TRUE), ShareOf(">", 25, TRUE)}, asOp : BOOLEAN,
     total : {Unset, ShareOf("<=", 50, TRUE)}, ratio : {Unset, ShareOf(">", 1, FALSE)}, minActivityCount : {1, 2}]

MostlyComments ==
    [submission |-> Unset, comment |-> ShareOf(">", 50, TRUE), asOp |-> FALSE, total |-> Unset, ratio |-> Unset,
     minActivityCount |-> 1]

PickHistory ==
    \E n \in 0 .. 3, condition \in {"AND", "OR"}, filtered \in BOOLEAN, c1 \in HistoryCriteriaOf :
        \E c2 \in {c1, MostlyComments},
           history \in [1 .. n -> {a \in Authored : a.kind = "submission" => ~a.own}] :
            /\ IF c1 = c2 THEN condition = "AND" ELSE n < 3
            /\ ~filtered => \A i \in 1 .. n : history[i].ok
            /\ Picks("history", [criteria |-> IF c1 = c2 THEN <<c1>> ELSE <<c1, c2>>, condition |-> condition,
                                 history |-> history,
                                 post |-> IF filtered THEN [subreddits |-> Unset, submissionState |-> FALSE,
                                                            commentState |-> FALSE, activityState |-> TRUE]
                                          ELSE HistoryWindow(Unset, Unset, Unset)])

Filtered == FilterListing(subject.history, subject.post)

\* The rule is not met by too little: some criterion has as many filtered
\* activities as it needs and holds, and with AND no other one that has them
\* does not.  It throws only where no criterion has them (comment on
\* minActivityCount).
HistoryNeedsEnough ==
    IsAbout("history") =>
        LET outcome == HistoryRule(subject.criteria, subject.condition, subject.history, subject.post, 1)
            enough == {i \in DOMAIN subject.criteria : Len(Filtered) >= subject.criteria[i].minActivityCount}
            Met(i) == HistoryRule(<<subject.criteria[i]>>, "OR", subject.history, subject.post, 1) = "met"
        IN /\ outcome = "met" => enough # {} /\ (subject.condition = "AND" => \A i \in enough : Met(i))
                                 /\ \E i \in enough : Met(i)
           /\ outcome = "throw" => enough = {}

\* Shares are shares of the unfiltered window, so that those of comments, of
\* submissions and of what was filtered out add up to it (comments on
\* submission and comment: "of unfiltered Activities").
SharesAddUp ==
    IsAbout("history") /\ subject.history # <<>> =>
        \A v \in {25, 50} :
            LET Crit(kind, op, x) == [submission |-> IF kind = "submission" THEN ShareOf(op, x, TRUE) ELSE Unset,
                                      comment |-> IF kind = "comment" THEN ShareOf(op, x, TRUE) ELSE Unset,
                                      total |-> ShareOf(op, x, TRUE), asOp |-> FALSE]
                left == Len(subject.history) - Len(Filtered)
            IN /\ CommentTrigger(Crit("comment", ">", v), subject.history, Filtered)
                  => ~SubmissionTrigger(Crit("submission", ">=", 100 - v), subject.history, Filtered)
               /\ TotalTrigger(Crit("none", "<=", v), subject.history, Filtered)
                  <=> left * 100 >= (100 - v) * Len(subject.history)

-----------------------------------------------------------------------------
(* Attribution *)

Linked == [kind : {"submission"}, domain : {"a", "b"}, type : {"link", "self"}] \cup [kind : {"comment"}, domain : {Unset}, type : {"none"}]

AttributionCriteriaOf ==
    [threshold : {ShareOf(">", 1, FALSE), ShareOf(">=", 50, TRUE), ShareOf("<", 1, FALSE)}, minActivityCount : {1, 2},
     domains : {{}, {"a"}, {"AGG:SELF"}, {"a", "b"}}, domainsCombined : BOOLEAN, aggregateOn : {{}, {"link"}}]

PickAttribution ==
    \E n \in 0 .. 3, c \in AttributionCriteriaOf, item \in Linked : \E history \in [1 .. n -> Linked] :
        Picks("attribution", [criterion |-> c, history |-> history, item |-> item])

\* What one domain is enough for, more of them together are enough for; and
\* with one domain it does not matter whether they are combined (comment on
\* domainsCombined).
CombinedIsMore ==
    IsAbout("attribution") =>
        LET c == subject.criterion
            Outcome(combined) == AttributionRule(<<[c EXCEPT !.domainsCombined = combined]>>, "OR", subject.item, subject.history)
        IN /\ Outcome(FALSE) = "met" /\ c.threshold.op # "<" => Outcome(TRUE) = "met"
           /\ Cardinality(c.domains) = 1 /\ c.threshold.op # "<" => Outcome(FALSE) = Outcome(TRUE)
           /\ Outcome(FALSE) = "throw" <=> Outcome(TRUE) = "throw"

-----------------------------------------------------------------------------
(* Recent activity *)

Recent == [id : 1 .. 4, kind : {"submission", "comment"}, url : {Unset, "u", "v"}, diff : {Unset, 0, 2},
           samePixels : BOOLEAN, score : {0, 1}, ok : BOOLEAN, name : {"s", "t"}, over18 : BOOLEAN]

RecentOf(i) ==
    {[id |-> i, kind |-> k[1], url |-> k[2], diff |-> k[3], samePixels |-> i = 2, self |-> FALSE, score |-> 1, ok |-> ok,
      name |-> n[1], profile |-> FALSE, over18 |-> n[2], own |-> FALSE] :
        k \in {<<"comment", Unset, Unset>>, <<"submission", "u", Unset>>, <<"submission", "v", 1>>},
        ok \in BOOLEAN, n \in {<<"s", FALSE>>, <<"t", TRUE>>}}

RecentThresholds ==
    [submissionState : {TRUE}, commentState : BOOLEAN, subreddits : {<<>>, <<[name |-> {"s"}], [over18 |-> TRUE]>>, <<[name |-> {"s"}]>>},
     threshold : {ShareOf(">=", 2, FALSE), ShareOf("<", 50, TRUE)}, karma : {Unset, ShareOf(">", 1, FALSE)}, subredditThreshold : {Unset}]

Detections ==
    {StrongDetection([enable |-> e[1], threshold |-> Unset, hash |-> Unset, noHard |-> e[2] = 0, hardThreshold |-> e[2],
                      softThreshold |-> 1, pixel |-> Unset]) :
        e \in {<<Unset, Unset>>, <<TRUE, 0>>, <<TRUE, Unset>>}}

PickRecent ==
    \E item \in RecentOf(1), n \in 0 .. 2, t \in RecentThresholds, reference \in {Unset, [is |-> FALSE]}, detection \in Detections :
        \E history \in {h \in [1 .. n -> RecentOf(2) \cup RecentOf(3)] : \A i \in 1 .. n : h[i].id = i + 1} :
            /\ item.diff = Unset
            /\ Picks("recent", [rule |-> [thresholds |-> <<t>>, reference |-> reference, imageDetection |-> detection],
                                item |-> item, history |-> history])

\* Reposts of a link are other submissions with it: whether the submission is
\* in its own window does not matter (it is put there in any case).
ItselfIsNoRepost ==
    IsAbout("recent") /\ subject.rule.reference = Unset /\ subject.item.kind = "submission" =>
        RecentRule(subject.rule, subject.item, <<subject.item>> \o subject.history)
        = RecentRule(subject.rule, subject.item, subject.history)

\* A threshold is met by as many activities, and as much karma, as pass its
\* filters, whatever their order (comments on threshold, karma, subreddits).
RecentCountsWhatPasses ==
    IsAbout("recent") =>
        LET t == subject.rule.thresholds[1]
            viable == Viable(subject.rule, subject.item, <<subject.item>> \o subject.history)
            valid == {i \in DOMAIN viable :
                         /\ viable[i].kind = "submission" \/ t.commentState => viable[i].ok
                         /\ t.subreddits # <<>> => \E c \in Range(t.subreddits) : IsSubreddit(viable[i], c)}
        IN RecentRule(subject.rule, subject.item, <<subject.item>> \o subject.history)
           <=> /\ IF t.threshold.percent
                  THEN viable # <<>> /\ Cardinality(valid) * 100 < t.threshold.value * Len(viable)
                  ELSE Cardinality(valid) >= t.threshold.value
               /\ t.karma # Unset => MapThenSumSet(LAMBDA i : viable[i].score, valid) > t.karma.value
=============================================================================
