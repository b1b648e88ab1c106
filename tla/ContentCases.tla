------------------------------ MODULE ContentCases ------------------------------
(***************************************************************************)
(* Inputs for rules on content and on reposts, and what their              *)
(* documentation says of the results.                                      *)
(***************************************************************************)
EXTENDS ContentRules, FilterCases

-----------------------------------------------------------------------------
(* Reposts *)

Facet(kind, score) == [kind |-> kind, list |-> FALSE, matchScore |-> score, minWordCount |-> Unset]

Post(id, same, words, crosspost) ==
    [id |-> id, kind |-> "submission", source |-> "reddit", same |-> same, words |-> words, score |-> id, age |-> id,
     crosspost |-> crosspost]

Remark(id, same, words, age) ==
    [id |-> id, kind |-> "comment", source |-> "reddit", same |-> same, words |-> words, score |-> id, age |-> age,
     crosspost |-> Unset]

OneOccurrence == << [counts |-> << [op |-> ">", value |-> 0] >>, countCondition |-> "AND", times |-> <<>>, timeCondition |-> "AND"] >>

Reposts(searchOn, window, max, occurrences, condition) ==
    [searchOn |-> searchOn, window |-> window, matchScore |-> 85, minWordCount |-> 3, maxRedditItems |-> max,
     occurrences |-> occurrences, condition |-> condition]

SequencesOf(S, lengths) == UNION {[1 .. n -> S] : n \in lengths}

\* Submissions found by their title and by their address, in any order.
PickRepost ==
    \E title \in SequencesOf({Post(i, same, 4, Unset) : i \in 0 .. 2, same \in {50, 90}}, 0 .. 2),
       url \in SequencesOf({Post(i, 50, words, Unset) : i \in 0 .. 2, words \in {3, 4}}, 0 .. 2),
       duplicates \in SequencesOf({Post(2, 50, 4, Unset), Post(3, 50, 4, 0), Post(4, 50, 4, 2)}, 0 .. 1),
       searchOn \in {<<"title", "url">>, <<"url", "title">>, <<"title", "duplicates", "url">>, <<"title", "crossposts">>} :
        Picks("repost", [criterion |-> Reposts([i \in DOMAIN searchOn |-> Facet(searchOn[i], Unset)], 20, 50, OneOccurrence, "AND"),
                         world |-> [title |-> title, url |-> url, duplicates |-> duplicates, external |-> <<>>,
                                    video |-> FALSE, youtubeKey |-> FALSE]])

\* A submission with the same address is a repost even if it was found by its
\* title too, which is not enough like the title (comment at RepostRule.ts:440:
\* url is always a repost but title is not guaranteed); the submission itself is
\* none, and neither are its crossposts unless they are looked for.
UrlAlwaysCounts ==
    IsAbout("repost") =>
        LET c == subject.criterion
            w == subject.world
            Looks(kind) == \E i \in DOMAIN c.searchOn : c.searchOn[i].kind = kind
            Ids(list, Is(_)) == {list[i].id : i \in {j \in DOMAIN list : Is(list[j])}}
            expected == (IF Looks("url") THEN Ids(w.url, LAMBDA x : x.words > 3) ELSE {})
                        \cup Ids(w.title, LAMBDA x : x.same >= 85)
                        \cup (IF Looks("duplicates") THEN Ids(w.duplicates, LAMBDA x : x.crosspost = Unset) ELSE {})
                        \cup (IF Looks("crossposts") THEN Ids(w.duplicates, LAMBDA x : x.crosspost = 0) ELSE {})
            found == Candidates(c, [kind |-> "submission", sub |-> 0], w)
        IN /\ {found[i].id : i \in DOMAIN found} = expected \ {0}
           /\ Len(found) = Cardinality(expected \ {0})

Tests(n, op, v) == IF n = 0 THEN <<>> ELSE << [op |-> op, value |-> v] >> \o IF n = 1 THEN <<>> ELSE << [op |-> "<", value |-> 2] >>

Times == SequencesOf([testOn : {"newest", "oldest", "any", "all"}, op : {">"}, age : {1}] \cup
               {[testOn |-> "any", op |-> "<=", age |-> 1]}, 0 .. 2)

OccurrenceSets ==
    {[counts |-> Tests(n, ">", v), countCondition |-> cc, times |-> times, timeCondition |-> tc] :
        n \in 0 .. 2, v \in 0 .. 1, cc \in {"AND", "OR"}, tc \in {"AND", "OR"}, times \in Times}

PickOccurrences ==
    \E set \in OccurrenceSets, second \in {Unset, OneOccurrence[1]}, condition \in {"AND", "OR"},
       comments \in SequencesOf({Remark(1, 90, 4, age) : age \in {Unset, 1, 2}}, 0 .. 2) :
        Picks("occurrences", [criterion |-> Reposts(<<>>, 20, 50, IF second = Unset THEN <<set>> ELSE <<set, second>>, condition),
                              matched |-> comments])

\* With AND every set of tests holds: its counts, joined as it says, and its
\* times, joined as it says (comments on condition in OccurrenceTests).  With OR
\* as much is known of sets whose tests are joined by OR: one of them has a test
\* that holds.
OccurrencesAreJoined ==
    IsAbout("occurrences") =>
        LET c == subject.criterion
            Joined(condition, list, Holds(_)) ==
                list = <<>> \/ IF condition = "AND" THEN \A i \in DOMAIN list : Holds(list[i]) ELSE \E i \in DOMAIN list : Holds(list[i])
            CountHolds(t) == Compare(Len(subject.matched), t.op, t.value)
            TimeHolds(t) == TimePass(t, subject.matched)
            SetHolds(s) == Joined(s.countCondition, s.counts, CountHolds) /\ Joined(s.timeCondition, s.times, TimeHolds)
            OneHolds(s) == \/ \E i \in DOMAIN s.counts : CountHolds(s.counts[i])
                           \/ \E i \in DOMAIN s.times : TimeHolds(s.times[i])
        IN IF c.condition = "AND" THEN Occurrences(c, subject.matched) <=> \A i \in DOMAIN c.occurrences : SetHolds(c.occurrences[i])
           ELSE /\ Occurrences(c, subject.matched) => \E i \in DOMAIN c.occurrences : OneHolds(c.occurrences[i])
                /\ (\E i \in DOMAIN c.occurrences : SetHolds(c.occurrences[i]) /\ OneHolds(c.occurrences[i]))
                   => Occurrences(c, subject.matched)

PickRepostComment ==
    \E on1, on2 \in {<<"title">>, <<"url">>, <<"external">>}, w1, w2 \in {10, 20}, min \in {0, 1}, condition \in {"AND", "OR"},
       youtubeKey \in BOOLEAN, comments \in [{1, 2} -> SequencesOf({Remark(5, 90, 4, 1), Remark(6, 50, 4, 1)}, 0 .. 2)] :
        Picks("repostComment",
              [criteria |-> << Reposts(<<Facet(on1[1], Unset)>>, w1, 50, OneOccurrence, "AND"),
                               Reposts(<<Facet(on2[1], Unset)>>, w2, 50,
                                       << [OneOccurrence[1] EXCEPT !.counts[1].value = min] >>, "AND") >>,
               condition |-> condition,
               world |-> [title |-> <<Post(1, 90, 4, Unset)>>, url |-> <<Post(2, 90, 4, Unset)>>, duplicates |-> <<>>,
                          external |-> <<Remark(7, 90, 4, Unset)>>, comments |-> comments,
                          video |-> TRUE, youtubeKey |-> youtubeKey]])

\* What one criterion has gathered for a comment does another one no harm that
\* looks elsewhere: together they are what they are alone.
CandidatesAreOwn ==
    IsAbout("repostComment") =>
        LET item == [kind |-> "comment", sub |-> 0]
            Alone(i) == RepostRule(<<subject.criteria[i]>>, "OR", item, subject.world)
            first == Alone(1)
        IN RepostRule(subject.criteria, subject.condition, item, subject.world)
           = IF first = "throw" \/ first = (IF subject.condition = "OR" THEN "met" ELSE "unmet") THEN first ELSE Alone(2)

-----------------------------------------------------------------------------
(* Sentiment *)

SentimentTexts == [not : BOOLEAN, modifier : {"", "very", "extremely"}, sentiment : {"positive", "neutral", "negative"}, lower : BOOLEAN]

PickSentiment ==
    \E test \in SentimentTexts, results \in SequencesOf([score : {-60, -30, -10, 0, 10, 11, 60}, usable : BOOLEAN], 1 .. 3) :
        Picks("sentiment", [test |-> test, results |-> results])

Known == \E i \in DOMAIN subject.results : subject.results[i].usable

\* What is a sentiment is not "not" it, and one of both it is, if it is known at
\* all ("You may also use the `not` operator", README of sentiment).  Not so for
\* neutral in lower case: every known text is neutral.
NotIsOpposite ==
    IsAbout("sentiment") /\ ~ParseSentiment(subject.test).ranged =>
        LET Passes(not) == LET t == ParseSentiment([subject.test EXCEPT !.not = not])
                           IN TestSentiment(subject.results, t)
        IN ParseSentiment(subject.test).op # "throw" =>
               IF Known THEN Passes(TRUE) # Passes(FALSE) ELSE ~Passes(TRUE) /\ ~Passes(FALSE)

PickLanguage ==
    \E guesses \in SequencesOf([lang : {"en", "es", "pl"}, score : {40, 80, 95}], 1 .. 3), short \in BOOLEAN,
       default \in {Unset, "en", "pl"}, hints \in {{}, {"en"}, {"en", "es"}}, required \in {80, 90} :
        /\ \A i \in 2 .. Len(guesses) : guesses[i].score <= guesses[i - 1].score
        /\ Picks("language", [guesses |-> guesses, short |-> short,
                              options |-> [defaultLanguage |-> default, languageHints |-> hints, requiredLanguageConfidence |-> required]])

\* With a default language, another one is used only if it was guessed with the
\* confidence required; of one that is no hint, only if the text is long and no
\* hint was guessed as surely (comments on languageHints, defaultLanguage and
\* requiredLanguageConfidence).
LanguageIsSure ==
    IsAbout("language") /\ subject.options.defaultLanguage # Unset =>
        LET o == subject.options
            used == ContentLanguage(subject.guesses, subject.short, o)
            Sure(lang) == \E i \in DOMAIN subject.guesses :
                              subject.guesses[i].lang = lang /\ subject.guesses[i].score >= o.requiredLanguageConfidence
        IN used # o.defaultLanguage =>
               Sure(used) /\ (used \notin o.languageHints => ~subject.short /\ \A h \in o.languageHints : ~Sure(h))

\* Comments, links and texts of two tones.
Spoken == [id : {1, 2}, kind : {"submission", "comment"}, self : BOOLEAN]

Tone(content) ==
    LET id == IF content = {} THEN 0 ELSE (CHOOSE c \in content : TRUE)[1]
        result == [score |-> IF id = 0 THEN 0 ELSE IF id = 1 THEN 40 ELSE -40, usable |-> id # 0]
    IN [guesses |-> << [lang |-> "pl", score |-> 95] >>, short |-> id = 2, nlp |-> result, vader |-> result, wink |-> result]

PickSentimentRule ==
    \E item \in Spoken, history \in SequencesOf(Spoken, 0 .. 2), must \in BOOLEAN,
       testOn \in {{"title"}, {"body"}, {"title", "body"}}, not \in BOOLEAN :
        /\ item.kind = "comment" => ~item.self
        /\ \A i \in DOMAIN history : history[i].kind = "comment" => ~history[i].self
        /\ Picks("sentimentRule", [item |-> item, history |-> history, testOn |-> testOn,
                                   test |-> ParseSentiment([not |-> not, modifier |-> "very", sentiment |-> "negative", lower |-> TRUE]),
                                   historical |-> [mustMatchCurrent |-> must, totalMatching |-> [op |-> ">", value |-> 0, percent |-> FALSE]]])

\* Of comments the body is tested, whatever is to be tested of submissions
\* (comment on testOn: only used if the activity is a submission).
TestOnIsForSubmissions ==
    IsAbout("sentimentRule") =>
        LET texts == [c \in SUBSET ({1, 2} \X {"title", "body"}) |-> Tone(c)]
            Outcome(history, testOn) ==
                SentimentRule(texts, subject.item, history, testOn, subject.test, subject.test, subject.historical)
            comments == SelectSeq(subject.history, LAMBDA a : a.kind = "comment")
        IN subject.item.kind = "comment" => Outcome(comments, subject.testOn) = Outcome(comments, {"title"})

-----------------------------------------------------------------------------
(* Toxicity *)

Responses ==
    {[class |-> "flag", confidence |-> 95, success |-> TRUE], [class |-> "normal", confidence |-> 95, success |-> TRUE],
     [class |-> "flag", confidence |-> 60, success |-> TRUE], [class |-> "none", confidence |-> 0, success |-> FALSE]}

MHSCases ==
    [criteria : {[flagged |-> Unset, confidence |-> Unset], [flagged |-> FALSE, confidence |-> Unset],
                 [flagged |-> Unset, confidence |-> [op |-> "<", value |-> 70, percent |-> FALSE]]},
     historical : {Unset} \cup [mustMatchCurrent : BOOLEAN,
                                totalMatching : {[op |-> ">", value |-> 0, percent |-> FALSE], [op |-> "<=", value |-> 50, percent |-> TRUE]}],
     ttl : BOOLEAN, first : [{"x", "y"} -> Responses], later : [{"x", "y"} -> Responses]]

PickMHS ==
    \E case \in MHSCases, history \in SequencesOf({"x", "y"}, 0 .. 3) : Picks("mhs", case @@ [history |-> history])

MHSOutcome(s) ==
    MHSRule("x", s.history, MHSCriteria(s.criteria), MHSCriteria(s.criteria), s.historical, s.ttl, s.first, s.later)

\* With a history the rule triggers only if enough of it passes, and, if the
\* activity must match too, only if it does (comments on historical and
\* mustMatchCurrent).
HistoryDecides ==
    IsAbout("mhs") /\ subject.historical # Unset =>
        LET c == MHSCriteria(subject.criteria)
            t == subject.historical.totalMatching
            Of(text) == IF text = "x" /\ subject.ttl /\ subject.first["x"].success THEN subject.first["x"] ELSE subject.later[text]
            passed == Cardinality({i \in DOMAIN subject.history : TestResponse(Of(subject.history[i]), c)})
        IN MHSOutcome(subject) = "met" =>
               /\ subject.history # <<>>
               /\ IF t.percent THEN 100 * passed <= t.value * Len(subject.history) ELSE passed > t.value
               /\ subject.historical.mustMatchCurrent => TestResponse(subject.first["x"], c)

\* A bad answer is asked for again: it bears on no other activity with the same
\* text ("don't cache bad responses").
BadAnswersAreForgotten ==
    IsAbout("mhs") /\ ~subject.first["x"].success => MHSOutcome([subject EXCEPT !.ttl = ~@]) = MHSOutcome(subject)
=============================================================================
