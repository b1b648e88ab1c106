------------------------------ MODULE ConfigBuild ------------------------------
(***************************************************************************)
(* The config of a subreddit: fragments are fetched, then rules, actions   *)
(* and criteria that are named once are put where their names are, and the *)
(* defaults of the bot and of the config are merged into each check.       *)
(***************************************************************************)
EXTENDS Criteria

\* A name, as it is written: in lower case or not, in one word or not.
Spellings == [word : {"a", "b"}, upper : BOOLEAN, spaced : BOOLEAN]

LowerName(name) == [name EXCEPT !.upper = FALSE]

NormalizeName(name) == [name EXCEPT !.upper = FALSE, !.spaced = FALSE]

-----------------------------------------------------------------------------
(* Fragments *)

\* Where an object is expected there may be a path instead; what is found there
\* is an object or a list of them. A page that cannot be read or parsed ends it,
\* as does one that is not valid: at the latest the whole config is validated.
HydrateFragment(val, pages) == IF val.is = "path" THEN pages[val.path] ELSE [ok |-> TRUE, list |-> <<val>>]

\* Whom a config is shared with: subreddits that are included or, if none are
\* named, all but the excluded ones.
SharedWith(sharing, sub) ==
    \/ sharing.all
    \/ sharing.some /\ IF sharing.include # Unset THEN sub \in sharing.include ELSE sub \notin sharing.exclude

\* A page for runs may hold the config of a subreddit; that must be shared.
RunsFragment(val, pages, sub) ==
    LET page == HydrateFragment(val, pages)
    IN IF val.is = "path" /\ page.ok /\ page.config
       THEN [page EXCEPT !.ok = page.wiki => SharedWith(page.sharing, sub)] ELSE page

Joined(fragments) == FlattenSeq([i \in DOMAIN fragments |-> fragments[i].list])

\* What the fragments of a list make together: nothing, unless each of them is ok.
Together(fragments) ==
    IF \A i \in DOMAIN fragments : fragments[i].ok THEN [ok |-> TRUE, list |-> Joined(fragments)]
    ELSE [ok |-> FALSE, list |-> <<>>]

HydrateList(list, pages) == Together([i \in DOMAIN list |-> HydrateFragment(list[i], pages)])

\* What was found, once it is part of a rule set.
AsPartsOf(set, found) == [ok |-> found.ok, list |-> <<[set EXCEPT !.rules = found.list]>>]

\* The parts of a rule set may be paths themselves.
HydrateRule(rule, pages) ==
    IF rule.is = "set" THEN AsPartsOf(rule, HydrateList(rule.rules, pages)) ELSE [ok |-> TRUE, list |-> <<rule>>]

\* Rule sets in what was found are hydrated in turn.
HydrateSets(found, pages) ==
    IF found.ok THEN Together([i \in DOMAIN found.list |-> HydrateRule(found.list[i], pages)]) ELSE found

HydrateRules(rules, pages) == HydrateSets(HydrateList(rules, pages), pages)

HydrateActions(actions, pages) == HydrateList(actions, pages)

CheckOf(check, rules, actions) ==
    [ok |-> rules.ok /\ actions.ok, list |-> <<[check EXCEPT !.rules = rules.list, !.actions = actions.list]>>]

HydrateCheck(check, pages) ==
    CheckOf(check, HydrateRules(check.rules, pages), HydrateActions(check.actions, pages))

\* Names where there should be objects.
IsText(list) == \E i \in DOMAIN list : list[i].is = "ref"

\* The checks that were found for a run, or the runs of a config, are hydrated
\* in turn; names instead of objects are refused.
HydrateChecks(found, pages) ==
    IF found.ok /\ ~IsText(found.list)
    THEN Together([i \in DOMAIN found.list |-> HydrateCheck(found.list[i], pages)]) ELSE [ok |-> FALSE, list |-> <<>>]

AsChecksOf(run, found) == [ok |-> found.ok, list |-> <<[run EXCEPT !.checks = found.list]>>]

HydrateRun(run, pages) == AsChecksOf(run, HydrateChecks(HydrateList(run.checks, pages), pages))

HydrateRuns(found, pages) ==
    IF found.ok /\ ~IsText(found.list)
    THEN Together([i \in DOMAIN found.list |-> HydrateRun(found.list[i], pages)]) ELSE [ok |-> FALSE, list |-> <<>>]

AsRunsOf(config, found) ==
    IF found.ok THEN [ok |-> TRUE, defaults |-> config.defaults, runs |-> found.list] ELSE [ok |-> FALSE]

\* Checks that are not in a run become one.
RealRuns(config) ==
    IF config.checks = <<>> THEN config.runs
    ELSE <<[is |-> "run", checks |-> config.checks, defaults |-> Unset, authorIs |-> Unset, itemIs |-> Unset,
            postFail |-> Unset]>>

RunFragments(runs, pages, sub) == [i \in DOMAIN runs |-> RunsFragment(runs[i], pages, sub)]

\* hydrateConfig: with checks and runs the config is refused.
HydrateConfig(config, pages, sub) ==
    IF config.checks # <<>> /\ config.runs # <<>> THEN [ok |-> FALSE]
    ELSE AsRunsOf(config, HydrateRuns(Together(RunFragments(RealRuns(config), pages, sub)), pages))

-----------------------------------------------------------------------------
(* Named rules and actions *)

\* The named rules or actions of a list, those in sets included.
NamedIn(list) ==
    LET flat == FlattenSeq([i \in DOMAIN list |-> IF list[i].is = "set" THEN list[i].rules ELSE <<list[i]>>])
    IN SelectSeq(flat, LAMBDA r : r.is # "ref" /\ r.name # Unset)

ChecksOf(config) == FlattenSeq([i \in DOMAIN config.runs |-> config.runs[i].checks])

NamedRules(config) ==
    FlattenSeq([i \in DOMAIN ChecksOf(config) |-> NamedIn(ChecksOf(config)[i].rules)])

NamedActions(config) ==
    FlattenSeq([i \in DOMAIN ChecksOf(config) |-> NamedIn(ChecksOf(config)[i].actions)])

Anonymous(object) == [object EXCEPT !.name = Unset]

\* extractNamedRules, extractNamedActions: objects of one name must be alike;
\* rule names are compared without what is no letter or digit.
Conflicts(named, Key) ==
    \E i, j \in DOMAIN named : Key[named[i].name] = Key[named[j].name] /\ Anonymous(named[i]) # Anonymous(named[j])

RuleKey == [name \in Spellings |-> NormalizeName(name)]

ActionKey == [name \in Spellings |-> LowerName(name)]

\* A name is looked up as it is written, but for its case.
Found(named, Key, name) == \E i \in DOMAIN named : Key[named[i].name] = LowerName(name)

Lookup(named, Key, name) ==
    named[Min({i \in DOMAIN named : Key[named[i].name] = LowerName(name)})]

-----------------------------------------------------------------------------
(* Named criteria *)

\* The criteria with a name in a filter; those of a filter that is one criterion
\* are not looked at.
NamedCriteriaIn(filter) ==
    IF filter = Unset THEN <<>>
    ELSE LET Of(list) == IF list = Unset THEN <<>> ELSE SelectSeq(list, LAMBDA c : c.is = "named")
         IN CASE filter.form = "list" -> Of(filter.list)
              [] filter.form = "options" -> Of(filter.include) \o Of(filter.exclude)
              [] filter.form = "criteria" -> <<>>

DefaultOf(defaults, kind) == IF defaults = Unset THEN Unset ELSE defaults[kind]

\* The rules of a list, one by one, without references.
FlatRules(rules) ==
    SelectSeq(FlattenSeq([i \in DOMAIN rules |-> IF rules[i].is = "set" THEN rules[i].rules ELSE <<rules[i]>>]),
              LAMBDA r : r.is # "ref")

\* The filters that are read for names, in order: the config's defaults again
\* for each run, and for items the filter of the check again for each of its
\* rules and actions, in place of theirs.
FiltersRead(config, kind) ==
    LET default == DefaultOf(config.defaults, kind)
        OfPart(part, check) == IF kind = "authorIs" THEN part.authorIs ELSE check.itemIs
        OfCheck(c) ==
            LET rules == FlatRules(c.rules)
                actions == SelectSeq(c.actions, LAMBDA a : a.is # "ref")
            IN <<c[kind]>> \o [i \in DOMAIN rules |-> OfPart(rules[i], c)]
                           \o [i \in DOMAIN actions |-> OfPart(actions[i], c)]
        OfRun(r) == <<default, r[kind]>> \o FlattenSeq([i \in DOMAIN r.checks |-> OfCheck(r.checks[i])])
    IN <<default>> \o FlattenSeq([i \in DOMAIN config.runs |-> OfRun(config.runs[i])])

\* extractNamedFilters: a name that is read twice is refused, alike or not.
NamedFilters(config, kind) ==
    LET read == FiltersRead(config, kind)
    IN FlattenSeq([i \in DOMAIN read |-> NamedCriteriaIn(read[i])])

ReadTwice(named) == \E i, j \in DOMAIN named : i # j /\ LowerName(named[i].name) = LowerName(named[j].name)

Refers(list, named) ==
    list = Unset \/ \A i \in DOMAIN list : list[i].is = "ref" => Found(named, ActionKey, list[i].name)

\* getNamedOrReturn: every name of a filter has a criterion.
FilterResolves(filter, named) ==
    filter = Unset \/ CASE filter.form = "list" -> Refers(filter.list, named)
                        [] filter.form = "options" ->
                               IF filter.include # Unset THEN Refers(filter.include, named) ELSE Refers(filter.exclude, named)
                        [] filter.form = "criteria" -> Refers(<<filter.criterion>>, named)

Resolved(list, named) ==
    [i \in DOMAIN list |-> IF list[i].is = "ref" THEN Lookup(named, ActionKey, list[i].name).criteria ELSE list[i].criteria]

NoFilter == [list |-> Unset, include |-> <<>>, exclude |-> <<>>, condition |-> Unset]

\* insertNameFilters: what is excluded is left out if there is something to
\* include; a filter that is one criterion is a list of it.
InsertFilter(filter, named) ==
    IF filter = Unset THEN NoFilter
    ELSE CASE filter.form = "list" -> [NoFilter EXCEPT !.list = Resolved(filter.list, named)]
           [] filter.form = "criteria" -> [NoFilter EXCEPT !.list = Resolved(<<filter.criterion>>, named)]
           [] filter.form = "options" ->
                  IF filter.include # Unset
                  THEN [NoFilter EXCEPT !.include = Resolved(filter.include, named), !.condition = filter.condition]
                  ELSE [NoFilter EXCEPT !.exclude = Resolved(filter.exclude, named), !.condition = filter.condition]

\* What an author rule includes and excludes is a filter as well; if it has
\* neither, that is one criterion that asks for nothing.
AuthorRuleFilter(rule, named) ==
    IF rule.include = Unset /\ rule.exclude = Unset THEN BuildFilter([NoFilter EXCEPT !.list = << <<>> >>])
    ELSE BuildFilter(InsertFilter([form |-> "options", include |-> rule.include, exclude |-> rule.exclude,
                                   condition |-> Unset], named))

-----------------------------------------------------------------------------
(* Structured configs *)

\* buildDefaultFilterCriteriaFromJson; "merge" if nothing else is asked for.
BuildDefaults(defaults, named) ==
    [authorIs |-> BuildFilter(InsertFilter(defaults.authorIs, named.authorIs)),
     itemIs |-> BuildFilter(InsertFilter(defaults.itemIs, named.itemIs)), behavior |-> defaults.behavior]

NoDefaults == [authorIs |-> BuildFilter(NoFilter), itemIs |-> BuildFilter(NoFilter), behavior |-> "merge"]

\* Mutant: the bot's defaults stay in force beside the config's.
BotFirst(own, outer, bot) == IF bot # Unset THEN bot ELSE IF own # Unset THEN own ELSE outer

\* The defaults nearest to a check hold: those of its run, the config's, or the bot's.
Nearest(own, outer, bot) == IF own # Unset THEN own ELSE IF outer # Unset THEN outer ELSE bot

DerivedFilter(object, kind, named, defaults) ==
    LET d == IF defaults = Unset THEN NoDefaults ELSE defaults
    IN MergeFilters(BuildFilter(InsertFilter(object[kind], named[kind])), d.behavior, d[kind])

\* Rules and actions get the filters they have by name, but no defaults.
FiltersOf(object, named) ==
    [authorIs |-> InsertFilter(object.authorIs, named.authorIs), itemIs |-> InsertFilter(object.itemIs, named.itemIs)]

WithFilters(rule, filters, named) ==
    IF rule.kind = "author"
    THEN [body |-> rule.body, filters |-> filters, author |-> AuthorRuleFilter(rule, named.authorIs)]
    ELSE [body |-> rule.body, filters |-> filters]

InsertDefined(rule, named) == WithFilters(rule, FiltersOf(rule, named), named)

InsertRule(rule, named) ==
    InsertDefined(IF rule.is = "ref" THEN Lookup(named.rules, RuleKey, rule.name) ELSE rule, named)

InsertNamedRules(rules, named) ==
    [i \in DOMAIN rules |->
        IF rules[i].is = "set" THEN [rules |-> [j \in DOMAIN rules[i].rules |-> InsertRule(rules[i].rules[j], named)]]
        ELSE InsertRule(rules[i], named)]

InsertAction(action, named) == [body |-> action.body] @@ FiltersOf(action, named)

InsertNamedActions(actions, named) ==
    [i \in DOMAIN actions |->
        InsertAction(IF actions[i].is = "ref" THEN Lookup(named.actions, ActionKey, actions[i].name) ELSE actions[i], named)]

\* What a run or else the bot says on a check that fails holds before what the
\* check itself says.
PostFail(check, run, bot) ==
    IF run.postFail # Unset THEN run.postFail ELSE IF bot # Unset THEN bot ELSE check.postFail

StructuredCheck(check, run, named, own, outer, bot, botPostFail) ==
    [authorIs |-> DerivedFilter(check, "authorIs", named, Nearest(own, outer, bot)),
     itemIs |-> DerivedFilter(check, "itemIs", named, Nearest(own, outer, bot)),
     rules |-> InsertNamedRules(check.rules, named), actions |-> InsertNamedActions(check.actions, named),
     postFail |-> PostFail(check, run, botPostFail)]

StructuredRun(run, named, own, outer, bot, botPostFail) ==
    [authorIs |-> DerivedFilter(run, "authorIs", named, Nearest(Unset, outer, bot)),
     itemIs |-> DerivedFilter(run, "itemIs", named, Nearest(Unset, outer, bot)),
     checks |-> [i \in DOMAIN run.checks |-> StructuredCheck(run.checks[i], run, named, own, outer, bot, botPostFail)]]

AllNamed(config) ==
    [rules |-> NamedRules(config), actions |-> NamedActions(config),
     authorIs |-> NamedFilters(config, "authorIs"), itemIs |-> NamedFilters(config, "itemIs")]

\* Everything that has filters, with the filters that are resolved in it.
ResolveOf(object, named) == FilterResolves(object.authorIs, named.authorIs) /\ FilterResolves(object.itemIs, named.itemIs)

RuleResolves(rule, named) ==
    IF rule.is = "ref" THEN Found(named.rules, RuleKey, rule.name)
                            /\ ResolveOf(Lookup(named.rules, RuleKey, rule.name), named)
    ELSE ResolveOf(rule, named)
         /\ (rule.kind = "author" =>
                IF rule.include # Unset THEN Refers(rule.include, named.authorIs) ELSE Refers(rule.exclude, named.authorIs))

ActionResolves(action, named) ==
    IF action.is = "ref" THEN Found(named.actions, ActionKey, action.name)
                              /\ ResolveOf(Lookup(named.actions, ActionKey, action.name), named)
    ELSE ResolveOf(action, named)

CheckResolves(check, named) ==
    /\ ResolveOf(check, named)
    /\ \A i \in DOMAIN check.rules :
           IF check.rules[i].is = "set" THEN \A j \in DOMAIN check.rules[i].rules : RuleResolves(check.rules[i].rules[j], named)
           ELSE RuleResolves(check.rules[i], named)
    /\ \A i \in DOMAIN check.actions : ActionResolves(check.actions[i], named)

Unambiguous(named) ==
    /\ ~Conflicts(named.rules, RuleKey) /\ ~Conflicts(named.actions, ActionKey)
    /\ ~ReadTwice(named.authorIs) /\ ~ReadTwice(named.itemIs)

DefaultsResolve(defaults, named) == defaults = Unset \/ ResolveOf(defaults, named)

RunResolves(run, named) ==
    /\ ResolveOf(run, named) /\ DefaultsResolve(run.defaults, named)
    /\ \A j \in DOMAIN run.checks : CheckResolves(run.checks[j], named)

BuildsWith(config, named) ==
    /\ Unambiguous(named) /\ DefaultsResolve(config.defaults, named)
    /\ \A i \in DOMAIN config.runs : RunResolves(config.runs[i], named)

\* parseToStructured throws at names that conflict or lead nowhere.
Builds(config) == BuildsWith(config, AllNamed(config))

DefaultsFrom(object, named) == IF object.defaults = Unset THEN Unset ELSE BuildDefaults(object.defaults, named)

StructuredRuns(runs, named, outer, bot, botPostFail) ==
    [i \in DOMAIN runs |-> StructuredRun(runs[i], named, DefaultsFrom(runs[i], named), outer, bot, botPostFail)]

StructuredConfig(config, named, bot, botPostFail) ==
    StructuredRuns(config.runs, named, DefaultsFrom(config, named), bot, botPostFail)

ParseToStructured(config, bot, botPostFail) == StructuredConfig(config, AllNamed(config), bot, botPostFail)

-----------------------------------------------------------------------------
(* Polling *)

\* The sources, by their names in lower case; one may be misspelled.
PollOnTypes ==
    [unmoderated |-> "unmoderated", modqueue |-> "modqueue", newsub |-> "newSub", newcomm |-> "newComm",
     newcom |-> "newComm"]

ToPollOn(name) == IF name.word \in DOMAIN PollOnTypes THEN PollOnTypes[name.word] ELSE "throw"

SourcesOf(values) == [i \in DOMAIN values |-> ToPollOn(values[i].pollOn)]

\* buildPollingOptions: a source is there once, with 30 seconds and 50 items if
\* nothing else is given.
BuildPollingOptions(values) ==
    IF \/ "throw" \in Range(SourcesOf(values))
       \/ \E i, j \in DOMAIN values : i # j /\ SourcesOf(values)[i] = SourcesOf(values)[j]
    THEN [ok |-> FALSE]
    ELSE [ok |-> TRUE,
          list |-> [i \in DOMAIN values |->
                       [pollOn |-> ToPollOn(values[i].pollOn),
                        interval |-> IF values[i].interval = Unset THEN 30 ELSE values[i].interval,
                        limit |-> IF values[i].limit = Unset THEN 50 ELSE values[i].limit,
                        delayUntil |-> values[i].delayUntil]]]
=============================================================================
