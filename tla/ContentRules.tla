------------------------------ MODULE ContentRules ------------------------------
(***************************************************************************)
(* Rules on what an activity says: the sentiment rule, and the rule that   *)
(* asks a service whether it is toxic (MHS).  Both test the activity, or   *)
(* count the activities of its author's history that pass the test.  The   *)
(* repost rule looks for others that say the same.                         *)
(***************************************************************************)
EXTENDS Comparisons, SequencesExt, FiniteSets, TLC

-----------------------------------------------------------------------------
(* A history of tests *)

\* mustMatchCurrent: the history only counts if the activity passes itself.
Historical == [totalMatching : GenericComparison, mustMatchCurrent : BOOLEAN]

EnoughMatching(passed, all, t) ==
    IF t.percent THEN ComparePercent(passed, all, t.op, t.value) ELSE Compare(passed, t.op, t.value)

UsesHistory(historical, current) == historical # Unset /\ (historical.mustMatchCurrent => current)

\* Whether the rule triggers, from the test of the activity and those of its
\* history.  Of an empty history the code wants to tell the first activity.
TestedWithHistory(historical, current, results) ==
    IF ~UsesHistory(historical, current) THEN IF current THEN "met" ELSE "unmet"
    ELSE IF results = <<>> THEN "throw"
    ELSE IF EnoughMatching(Len(SelectSeq(results, LAMBDA r : r)), Len(results), historical.totalMatching)
         THEN "met" ELSE "unmet"

-----------------------------------------------------------------------------
(* Sentiment: scores from -100 to 100 *)

\* A sentiment as text, "is not very positive".  lower: written in lower case.
SentimentText == [not : BOOLEAN, modifier : {"", "very", "extremely"},
                  sentiment : {"positive", "neutral", "negative"}, lower : BOOLEAN]

Quantifier(t) ==
    LET strength == CASE t.modifier = "" -> 10 [] t.modifier = "very" -> 30 [] t.modifier = "extremely" -> 60
    IN CASE t.sentiment = "positive" -> strength
         [] t.sentiment = "negative" -> 0 - strength
         [] OTHER -> IF t.modifier = "" THEN 0 ELSE Unset

Negated(v) == IF v > 0 THEN "<" ELSE ">"

\* parseTextToNumberComparison.  Neutral is a range, but only in lower case;
\* otherwise it is a bound of its own.
ParseSentiment(t) ==
    LET v == Quantifier(t)
    IN IF t.sentiment = "neutral" /\ t.lower THEN [ranged |-> TRUE, low |-> -10, high |-> 10, not |-> t.not]
       ELSE IF v = Unset THEN [ranged |-> FALSE, op |-> "throw"]
       ELSE [ranged |-> FALSE, op |-> IF t.not THEN Negated(v) ELSE IF v > 0 THEN ">=" ELSE "<=", value |-> v]

\* What an analyzer makes of a text; usable: it knew enough of the words.
SentimentResult == [score : -100 .. 100, usable : BOOLEAN]

\* testSentiment: the mean score in the range or beyond the bound.  A score is
\* in a range if it is on the right side of one of its ends.
TestSentiment(results, test) ==
    LET n == Len(results)
        sum == FoldLeft(LAMBDA acc, r : acc + r.score, 0, results)
    IN /\ \E i \in DOMAIN results : results[i].usable
       /\ IF ~test.ranged THEN Compare(sum, test.op, test.value * n)
          ELSE IF test.not THEN sum < test.low * n \/ sum > test.high * n
          ELSE sum >= test.low * n \/ sum <= test.high * n

\* A guess of the language of a text, best first.
LanguageGuess == [lang : STRING, score : 0 .. 100]

ActivitySentimentOptions == [defaultLanguage : STRING \cup {Unset}, languageHints : SUBSET STRING,
                             requiredLanguageConfidence : 0 .. 100]

\* What the sentiment rule uses: it passes on none of its own options.
DefaultOptions == [defaultLanguage |-> "en", languageHints |-> {"en", "es", "de", "fr"}, requiredLanguageConfidence |-> 90]

\* Whether the best guess gives way to the default language.
NeedsDefault(best, short, options) ==
    /\ options.defaultLanguage # Unset
    /\ best.score < options.requiredLanguageConfidence \/ (short /\ best.lang \notin options.languageHints)

\* getContentLanguage
ContentLanguage(guesses, short, options) ==
    LET hinted == SelectSeq(guesses, LAMBDA g : g.score >= options.requiredLanguageConfidence /\ g.lang \in options.languageHints)
        best == IF ~short /\ guesses[1].lang \notin options.languageHints /\ hinted # <<>> THEN hinted[1] ELSE guesses[1]
    IN IF NeedsDefault(best, short, options) THEN options.defaultLanguage ELSE best.lang

\* getStringSentiment: analyzers that only know English are asked for English
\* and for short texts.
StringSentiment(text, options) ==
    LET lang == ContentLanguage(text.guesses, text.short, options)
        known == lang \in {"en", "es", "de", "fr"}
        English(r) == [score |-> r.score, usable |-> lang = "en" \/ r.usable]
    IN << [score |-> text.nlp.score, usable |-> known \/ text.nlp.usable] >>
       \o IF text.short \/ lang = "en" THEN <<English(text.vader), English(text.wink)>> ELSE <<>>

\* getActivityContent: the texts that are joined, of comments their body
\* whatever is asked for.
ContentOf(a, testOn) ==
    IF a.kind = "comment" THEN {<<a.id, "body">>} ELSE {<<a.id, on>> : on \in {on \in testOn : on = "title" \/ a.self}}

SentimentRule(texts, item, history, testOn, test, historicalTest, historical) ==
    LET Passes(a, t) == TestSentiment(StringSentiment(texts[ContentOf(a, testOn)], DefaultOptions), t)
    IN TestedWithHistory(historical, Passes(item, test), [i \in DOMAIN history |-> Passes(history[i], historicalTest)])

-----------------------------------------------------------------------------
(* Toxicity *)

MHSResponse == [class : {"flag", "normal", "none"}, confidence : 0 .. 100, success : BOOLEAN]

\* As it stands in a config, where either condition may be left out.
MHSCriteriaConfig == [flagged : BOOLEAN \cup {Unset}, confidence : {Unset} \cup GenericComparison]

\* What is left out is asked for anyway: flagged, with a confidence of 90.
MHSCriteria(config) ==
    [flagged |-> IF config.flagged = Unset THEN TRUE ELSE config.flagged,
     confidence |-> IF config.confidence = Unset THEN [op |-> ">=", value |-> 90, percent |-> FALSE] ELSE config.confidence]

\* Both conditions must hold; an answer without a class is neither.
TestResponse(r, c) ==
    /\ Compare(r.confidence, c.confidence.op, c.confidence.value)
    /\ r.class = (IF c.flagged THEN "flag" ELSE "normal")

\* Bad answers are not kept, or not believed when they are found.
Keeps(response, ttl) == ttl /\ response.success

\* getMHSResponse: what is known of a text, or what the service says.  All texts
\* of a history are looked up before any of them is answered.
ResponseTo(text, cache, answers) == IF text \in DOMAIN cache THEN cache[text] ELSE answers[text]

MHSRule(item, history, criteria, historicalCriteria, historical, ttl, first, later) ==
    LET response == first[item]
        cache == IF Keeps(response, ttl) THEN item :> response ELSE <<>>
    IN TestedWithHistory(historical, TestResponse(response, criteria),
           [i \in DOMAIN history |-> TestResponse(ResponseTo(history[i], cache, later), historicalCriteria)])

-----------------------------------------------------------------------------
(* The repost rule: submissions like the one that is checked, or comments  *)
(* like the one that is checked under such submissions, are looked for on  *)
(* reddit and elsewhere, and counted.                                      *)

SearchFacetTypes == {"title", "url", "duplicates", "crossposts", "external"}

\* What is found.  same: how similar it is to what is checked; crosspost: the
\* submission it is a crosspost of.
RepostItem == [id : Nat, kind : {"submission", "comment"}, source : {"reddit", "youtube"}, same : 0 .. 100,
               words : Nat, score : Nat, age : Nat \cup {Unset}, crosspost : Nat \cup {Unset}]

SearchFacet == [kind : SearchFacetTypes, list : BOOLEAN, matchScore : Nat \cup {Unset}, minWordCount : Nat \cup {Unset}]

\* Of the times, age is compared.
OccurredAt == [testOn : {"newest", "oldest", "any", "all"}, op : Operators, age : Nat]

OccurrenceTests ==
    [counts : Seq([op : Operators, value : Nat]), countCondition : {"AND", "OR"},
     times : Seq(OccurredAt), timeCondition : {"AND", "OR"}]

RepostCriteria ==
    [searchOn : Seq(SearchFacet), window : Nat, matchScore : Nat, minWordCount : Nat, maxRedditItems : Nat,
     occurrences : Seq(OccurrenceTests), condition : {"AND", "OR"}]

-----------------------------------------------------------------------------
(* Searching *)

DefaultScore(kind) == IF kind = "title" THEN 85 ELSE 0

\* The facets of an entry of searchOn: those of a list of kinds are lost.
FacetsOf(entry) ==
    IF entry.list THEN <<>>
    ELSE << [kind |-> entry.kind,
             matchScore |-> IF entry.matchScore = Unset THEN DefaultScore(entry.kind) ELSE entry.matchScore,
             minWordCount |-> IF entry.minWordCount = Unset THEN 3 ELSE entry.minWordCount] >>

\* What the search for a facet returns; reddit lists crossposts among the
\* duplicates.  Submissions with few words in their titles are left out.
FoundBy(facet, sub, world) ==
    LET Is(x) == CASE facet.kind = "duplicates" -> x.crosspost = Unset
                   [] facet.kind = "crossposts" -> x.crosspost = sub
                   [] OTHER -> TRUE
        listed == CASE facet.kind = "title" -> world.title
                    [] facet.kind = "url" -> world.url
                    [] facet.kind = "external" -> world.external
                    [] OTHER -> world.duplicates
    IN IF facet.kind = "external" THEN [i \in DOMAIN listed |-> listed[i] @@ [need |-> 0]]
       ELSE LET kept == SelectSeq(listed, LAMBDA x : Is(x) /\ x.words > facet.minWordCount)
            IN [i \in DOMAIN kept |-> kept[i] @@ [need |-> facet.matchScore]]

\* Unless crossposts are looked for, those of the submission are no reposts.
WithoutCrossposts(items, facets, sub) ==
    IF \E i \in DOMAIN facets : facets[i].kind = "crossposts" THEN items
    ELSE SelectSeq(items, LAMBDA x : ~(x.kind = "submission" /\ x.crosspost = sub))

Scored(items) == SelectSeq(items, LAMBDA x : x.kind = "submission" => x.same >= x.need)

\* Of the same submission the first result is kept, of the one that is checked none.
Unique(items, sub) ==
    FoldLeft(LAMBDA acc, x :
                IF x.kind = "submission" /\ (x.id = sub \/ \E i \in DOMAIN acc : acc[i].kind = "submission" /\ acc[i].id = x.id)
                THEN acc ELSE Append(acc, x),
             <<>>, items)

\* Scores are compared before duplicates are removed.
ScoredAndUnique(items, sub) == Unique(Scored(items), sub)

Best(items, n) ==
    LET sorted == Reverse(SortSeq(items, LAMBDA a, b : a.score < b.score))
    IN SubSeq(sorted, 1, IF n < Len(sorted) THEN n ELSE Len(sorted))

Submissions(c, item, world) ==
    LET facets == FlattenSeq([i \in DOMAIN c.searchOn |-> FacetsOf(c.searchOn[i])])
        found == FlattenSeq([i \in DOMAIN facets |-> FoundBy(facets[i], item.sub, world)])
    IN ScoredAndUnique(WithoutCrossposts(found, facets, item.sub), item.sub)

\* For a comment: the best comments of the ten best submissions, however few
\* words they have, and comments from elsewhere that have enough.
Comments(c, items, world) ==
    LET subs == Best(SelectSeq(items, LAMBDA x : x.kind = "submission"), 10)
        external == SelectSeq(items, LAMBDA x : x.kind # "submission" /\ x.words > c.minWordCount)
    IN external \o Best(FlattenSeq([i \in DOMAIN subs |-> world.comments[subs[i].id]]), c.maxRedditItems)

Candidates(c, item, world) ==
    LET items == Submissions(c, item, world)
    IN IF item.kind = "submission" THEN items ELSE Comments(c, items, world)

\* candidateHash.  What else bears on the candidates is not part of it: the
\* number of words and of items, the transformations.
CandidateKey(c, item) == <<item.kind, item.sub, c.window, c.searchOn>>

-----------------------------------------------------------------------------
(* Matching *)

MatchedItems(c, item, items) ==
    IF item.kind = "submission" THEN SelectSeq(items, LAMBDA x : x.kind = "submission")
    ELSE SelectSeq(items, LAMBDA x : x.same >= c.matchScore)

\* One test of when the reposts were made; those without a time are not tested.
TimePass(t, matched) ==
    LET ages == {matched[i].age : i \in {j \in DOMAIN matched : matched[j].age # Unset}}
        Holds(age) == Compare(age, t.op, t.age)
        tested == CASE t.testOn = "newest" -> {a \in ages : \A b \in ages : a <= b}
                    [] t.testOn = "oldest" -> {a \in ages : \A b \in ages : a >= b}
                    [] OTHER -> ages
    IN IF t.testOn = "any" THEN \E a \in tested : Holds(a) ELSE \A a \in tested : Holds(a)

\* How results fail together, and whether some were noted as passed before
\* they did.
FailsAs(results, condition) ==
    /\ results # <<>>
    /\ IF condition = "AND" THEN \E i \in DOMAIN results : ~results[i] ELSE \A i \in DOMAIN results : ~results[i]

SomePassed(results, condition) ==
    IF condition = "AND" THEN results # <<>> /\ results[1] ELSE \E i \in DOMAIN results : results[i]

TimesFail(counts, times, condition) == FailsAs(times, condition)

\* A set of tests: whether it fails, and whether something in it passed.
OccurrenceTest(set, matched) ==
    LET counts == [i \in DOMAIN set.counts |-> Compare(Len(matched), set.counts[i].op, set.counts[i].value)]
        times == [i \in DOMAIN set.times |-> TimePass(set.times[i], matched)]
        countFails == FailsAs(counts, set.countCondition)
    IN [fails |-> countFails \/ TimesFail(counts, times, set.timeCondition),
        some |-> SomePassed(counts, set.countCondition) \/ (~countFails /\ SomePassed(times, set.timeCondition))]

\* With OR a set counts as soon as something in it passed, even if it failed.
Occurrences(c, matched) ==
    \/ c.occurrences = <<>>
    \/ c.condition = "AND" /\ \A i \in DOMAIN c.occurrences : ~OccurrenceTest(c.occurrences[i], matched).fails
    \/ c.condition = "OR" /\ \E i \in DOMAIN c.occurrences : OccurrenceTest(c.occurrences[i], matched).some

\* One criterion after others: candidates for comments are taken from the cache.
RepostCriterion(acc, c, condition, item, world) ==
    LET key == CandidateKey(c, item)
        hit == item.kind = "comment" /\ key \in DOMAIN acc.cache
        items == IF hit THEN acc.cache[key] ELSE Candidates(c, item, world)
        passed == Occurrences(c, MatchedItems(c, item, items))
        needsKey == ~hit /\ world.video /\ ~world.youtubeKey
                    /\ \E i \in DOMAIN c.searchOn : c.searchOn[i].kind = "external" /\ ~c.searchOn[i].list
    IN IF acc.outcome = "throw" \/ acc.done THEN acc
       ELSE IF needsKey THEN [acc EXCEPT !.outcome = "throw"]
       ELSE [acc EXCEPT !.cache = IF hit THEN @ ELSE (key :> items) @@ @, !.outcome = IF passed THEN "met" ELSE "unmet",
                        !.done = passed = (condition = "OR")]

\* The first criterion that passes, or with AND the first that does not, decides.
RepostRule(criteria, condition, item, world) ==
    FoldLeft(LAMBDA acc, c : RepostCriterion(acc, c, condition, item, world),
             [outcome |-> "unmet", done |-> FALSE, cache |-> [k \in {} |-> <<>>]], criteria).outcome
=============================================================================
