------------------------------ MODULE ConfigCases ------------------------------
(***************************************************************************)
(* Inputs for what is computed from configs, and what the documentation    *)
(* says of the results.                                                    *)
(***************************************************************************)
EXTENDS ConfigBuild, OperatorConfig, FilterCases

-----------------------------------------------------------------------------
(* Fragments *)

PlainRule == [is |-> "rule", kind |-> "regex", name |-> Unset, body |-> 0, authorIs |-> Unset, itemIs |-> Unset]

PlainAction == [is |-> "action", name |-> Unset, body |-> 0, authorIs |-> Unset, itemIs |-> Unset]

CheckWith(rules, actions) ==
    [is |-> "check", rules |-> rules, actions |-> actions, authorIs |-> Unset, itemIs |-> Unset, postFail |-> Unset]

RunWith(checks) ==
    [is |-> "run", checks |-> checks, defaults |-> Unset, authorIs |-> Unset, itemIs |-> Unset, postFail |-> Unset]

Path(p) == [is |-> "path", path |-> p]

SetWith(rules) == [is |-> "set", rules |-> rules]

\* At each level there may be a path; what is found there has the next level.
RulesAt == {<<PlainRule>>, <<Path("rule")>>, <<SetWith(<<Path("rule"), PlainRule>>)>>}

ChecksAt == {<<Path("check")>>} \cup {<<CheckWith(rules, actions)>> : rules \in RulesAt, actions \in {<<>>, <<Path("action")>>}}

RunsAt == {<<Path("run")>>, <<>>} \cup {<<RunWith(checks)>> : checks \in ChecksAt}

Sharings ==
    [all : {TRUE, FALSE}, some : {FALSE}, include : {Unset}, exclude : {Unset}]
    \cup [all : {FALSE}, some : {TRUE}, include : {Unset, {}, {"s"}}, exclude : {{}, {"s"}, {"t"}}]

Page(list) == [ok |-> TRUE, list |-> list, config |-> FALSE]

PagesWith(checks, sharing, config, wiki, failing) ==
    [p \in {"run", "check", "rule", "action"} |->
        IF p = failing THEN [ok |-> FALSE, list |-> <<>>, config |-> FALSE]
        ELSE CASE p = "run" -> [ok |-> TRUE, list |-> <<RunWith(checks), RunWith(<<>>)>>, config |-> config,
                                wiki |-> wiki, sharing |-> sharing]
               [] p = "check" -> Page(<<CheckWith(<<Path("rule")>>, <<>>), CheckWith(<<PlainRule>>, <<>>)>>)
               [] p = "rule" -> Page(<<PlainRule, [PlainRule EXCEPT !.body = 1]>>)
               [] p = "action" -> Page(<<PlainAction>>)]

PickFragments ==
    \E runs \in RunsAt, checks \in {<<>>} \cup ChecksAt, paged \in ChecksAt, sharing \in Sharings,
       config \in BOOLEAN, wiki \in BOOLEAN, failing \in {Unset, "run", "check", "rule", "action"}, sub \in {"s", "t"} :
        /\ runs # <<>> /\ runs[1].is # "path" => sharing.all /\ config /\ wiki /\ paged = <<Path("check")>>
        /\ Picks("fragments", [config |-> [runs |-> runs, checks |-> checks, defaults |-> Unset],
                               pages |-> PagesWith(paged, sharing, config, wiki, failing), sub |-> sub])

RulesIn(config) == FlattenSeq([i \in DOMAIN ChecksOf(config) |-> ChecksOf(config)[i].rules])

ActionsIn(config) == FlattenSeq([i \in DOMAIN ChecksOf(config) |-> ChecksOf(config)[i].actions])

NoRulePaths(rules) ==
    \A i \in DOMAIN rules :
        IF rules[i].is = "set" THEN Len(rules[i].rules) = 3 /\ \A j \in 1 .. 3 : rules[i].rules[j].is = "rule"
        ELSE rules[i].is = "rule"

NoActionPaths(actions) == \A i \in DOMAIN actions : actions[i].is = "action"

NothingLeft(config) == config.ok => NoRulePaths(RulesIn(config)) /\ NoActionPaths(ActionsIn(config))

\* A config that is hydrated has no paths in it any more, in rule sets neither,
\* and nothing of what was found is missing (ConfigBuilder.ts:212-381; README,
\* config fragments may be used for runs, checks, rules and actions).
HydratedFully ==
    IsAbout("fragments") => NothingLeft(HydrateConfig(subject.config, subject.pages, subject.sub))

\* The config of another subreddit is used only if that one shares it with this
\* one: with everyone, with those it includes, or, including none, with those it
\* does not exclude (comments on SubredditConfigData.sharing and SharingACLConfig).
OnlyWhatIsShared ==
    IsAbout("fragments") =>
        LET page == subject.pages["run"]
            used == subject.config.runs = <<Path("run")>>
                    /\ HydrateConfig(subject.config, subject.pages, subject.sub).ok
        IN used /\ page.config /\ page.wiki =>
               \/ page.sharing.all
               \/ page.sharing.include # Unset /\ subject.sub \in page.sharing.include
               \/ page.sharing.include = Unset /\ page.sharing.exclude # Unset /\ subject.sub \notin page.sharing.exclude

-----------------------------------------------------------------------------
(* Names of rules *)

NameA == [word |-> "a", upper |-> FALSE, spaced |-> FALSE]

RuleNames == {NameA, [NameA EXCEPT !.upper = TRUE], [NameA EXCEPT !.spaced = TRUE], [NameA EXCEPT !.word = "b"]}

Ref(name) == [is |-> "ref", name |-> name]

NamedOrRef ==
    {[PlainRule EXCEPT !.name = n, !.body = b] : n \in RuleNames \cup {Unset}, b \in 0 .. 1} \cup {Ref(n) : n \in RuleNames}

RuleSlots == NamedOrRef \cup {SetWith(<<r>>) : r \in NamedOrRef}

PickNames ==
    \E slots \in [1 .. 3 -> RuleSlots], apart \in BOOLEAN :
        LET first == CheckWith(<<slots[1]>>, <<>>)
            second == CheckWith(<<slots[2], slots[3]>>, <<>>)
        IN Picks("names", [slots |-> slots,
                           config |-> [ok |-> TRUE, defaults |-> Unset,
                                       runs |-> IF apart THEN <<RunWith(<<first>>), RunWith(<<second>>)>>
                                                ELSE <<RunWith(<<first, second>>)>>]])

Leaf(slot) == IF slot.is = "set" THEN slot.rules[1] ELSE slot

Leaves == {Leaf(subject.slots[i]) : i \in DOMAIN subject.slots}

Defined == {r \in Leaves : r.is = "rule" /\ r.name # Unset}

\* No name is given to rules that differ.
Clear == \A r, s \in Defined : NormalizeName(r.name) = NormalizeName(s.name) => r.body = s.body

\* Every name that is used is that of a rule.
NamesKnown == \A l \in Leaves : l.is = "ref" => ~l.name.spaced /\ \E r \in Defined : r.name.word = l.name.word

BodyOf(rule) == IF "rules" \in DOMAIN rule THEN rule.rules[1].body ELSE rule.body

NameStandsFor(name, rule) == \E r \in Defined : r.name.word = name.word /\ r.body = BodyOf(rule)

\* Where a name was used, there is the rule of that name.
NamesReplaced(rules) ==
    \A i \in DOMAIN rules :
        Leaf(subject.slots[i]).is = "ref" => NameStandsFor(Leaf(subject.slots[i]).name, rules[i])

RulesOf(checks) == FlattenSeq([i \in DOMAIN checks |-> checks[i].rules])

ChecksIn(runs) == FlattenSeq([i \in DOMAIN runs |-> runs[i].checks])

\* A name stands for one rule, wherever that is defined, in whichever case it is
\* written, and a config is refused exactly if a name is given to rules that
\* differ, or if there is no rule of a name (README, Named Rules); except that a
\* name of several words is never found.
NamesMeanOne ==
    IsAbout("names") =>
        IF Builds(subject.config)
        THEN Clear /\ NamesKnown /\ NamesReplaced(RulesOf(ChecksIn(ParseToStructured(subject.config, Unset, Unset))))
        ELSE ~(Clear /\ NamesKnown)

-----------------------------------------------------------------------------
(* Names of criteria *)

Positions == {"run", "check", "rule", "set", "action"}

Crit == << <<"isMod", TRUE>> >>

Forms(criterion) ==
    {[form |-> "list", list |-> <<criterion>>], [form |-> "criteria", criterion |-> criterion]}
    \cup {[form |-> "options", include |-> <<criterion>>, exclude |-> e, condition |-> Unset] : e \in {Unset, <<>>}}
    \cup {[form |-> "options", include |-> Unset, exclude |-> <<criterion>>, condition |-> c] : c \in {Unset, "OR"}}

\* A config of one check in each run, with filters at some positions of them.
ConfigWith(kind, n, filters) ==
    LET At(i, p) == IF <<i, p>> \in DOMAIN filters THEN filters[<<i, p>>] ELSE Unset
        With(object, i, p) == [object EXCEPT ![kind] = At(i, p)]
        Run(i) == With(RunWith(<<With(CheckWith(<<With(PlainRule, i, "rule"), SetWith(<<With(PlainRule, i, "set")>>)>>,
                                                 <<With(PlainAction, i, "action")>>), i, "check")>>), i, "run")
    IN [ok |-> TRUE, defaults |-> Unset, runs |-> [i \in 1 .. n |-> Run(i)]]

PickCriteria ==
    \E kind \in {"authorIs", "itemIs"}, n \in 1 .. 2, upper \in BOOLEAN :
        \E at, use \in (1 .. n) \X Positions :
            \E f \in Forms([is |-> "named", name |-> NameA, criteria |-> Crit]),
               u \in Forms(Ref([NameA EXCEPT !.upper = upper])) :
                /\ at # use
                /\ Picks("criteria", [kind |-> kind, at |-> at, use |-> use, form |-> f, used |-> u,
                                      config |-> ConfigWith(kind, n, (at :> f) @@ (use :> u))])

\* What the filter at a position of a result asks for.
FilterAt(result, kind, position) ==
    LET run == result[position[1]]
        check == run.checks[1]
    IN CASE position[2] = "run" -> run[kind]
         [] position[2] = "check" -> check[kind]
         [] position[2] = "rule" -> BuildFilter(check.rules[1].filters[kind])
         [] position[2] = "set" -> BuildFilter(check.rules[2].rules[1].filters[kind])
         [] position[2] = "action" -> BuildFilter(check.actions[1][kind])

AsksOnlyFor(criteria, filter) == {filter.include, filter.exclude} = {<<criteria>>, <<>>}

\* Criteria on authors that are given a name once may be used by it anywhere
\* else, wherever they are given (docs in-depth/filters README: named filters);
\* those on items, if given on a run; unless they are all there is in a filter.
CriteriaAreReusable ==
    IsAbout("criteria") /\ subject.form.form # "criteria" /\ (subject.kind = "authorIs" \/ subject.at[2] = "run") =>
        /\ Builds(subject.config)
        /\ AsksOnlyFor(Crit, FilterAt(ParseToStructured(subject.config, Unset, Unset), subject.kind, subject.use))

-----------------------------------------------------------------------------
(* Defaults *)

DefaultsOf(prop, behavior) ==
    [authorIs |-> [form |-> "list", list |-> <<[is |-> "anonymous", criteria |-> << <<prop, FALSE>> >>]>>],
     itemIs |-> Unset, behavior |-> behavior]

DefaultsWith(prop) == {Unset} \cup {DefaultsOf(prop, b) : b \in {"merge", "replace"}}

Bots == {Unset} \cup {BuildDefaults(DefaultsOf("verified", b), [authorIs |-> <<>>, itemIs |-> <<>>]) : b \in {"merge", "replace"}}

OwnFilters ==
    {Unset} \cup {[form |-> "options", include |-> Unset, condition |-> c,
                   exclude |-> <<[is |-> "anonymous", criteria |-> << <<p, TRUE>> >>]>>] :
                      p \in {"isMod", "verified"}, c \in {Unset, "OR"}}

PickDefaults ==
    \E bot \in Bots, outer \in DefaultsWith("isMod"), inner \in DefaultsWith("isContributor"), onRun, onCheck \in OwnFilters :
        LET check == [CheckWith(<<>>, <<>>) EXCEPT !.authorIs = onCheck]
        IN Picks("defaults", [bot |-> bot,
                              config |-> [ok |-> TRUE, defaults |-> outer,
                                          runs |-> <<[RunWith(<<check>>) EXCEPT !.authorIs = onRun, !.defaults = inner],
                                                     RunWith(<<check>>)>>]])

\* Results that are alike, the whole of them or the checks of the first run.
SameResults(result, other, whole, first) ==
    /\ whole => result = other
    /\ first => result[1].checks = other[1].checks

\* The defaults of a config take the place of the bot's, and those of a run the
\* place of the config's for its checks, even those that do not conflict
\* (comment on SubredditConfigData.filterCriteriaDefaults: "it will override any
\* defaults passed from the bot's config").
DefaultsOverride ==
    IsAbout("defaults") =>
        \A outer \in DefaultsWith("isMod"), bot \in Bots :
            SameResults(ParseToStructured([subject.config EXCEPT !.defaults = outer], bot, Unset),
                        ParseToStructured(subject.config, subject.bot, Unset),
                        outer = subject.config.defaults /\ outer # Unset,
                        bot = subject.bot /\ subject.config.runs[1].defaults # Unset)

-----------------------------------------------------------------------------
(* Polling *)

PollValues ==
    [pollOn : [word : DOMAIN PollOnTypes \cup {"other"}, upper : BOOLEAN], interval : {Unset, 10}, limit : {Unset},
     delayUntil : {Unset}]

PickPolling == \E n \in 0 .. 3 : \E values \in [1 .. n -> PollValues] : Picks("polling", [values |-> values])

\* No source is polled twice, however it is written (ConfigBuilder.ts:470).
NothingPolledTwice ==
    IsAbout("polling") =>
        LET result == BuildPollingOptions(subject.values)
        IN result.ok =>
               \A i, j \in DOMAIN result.list : i # j => result.list[i].pollOn # result.list[j].pollOn

-----------------------------------------------------------------------------
(* Settings of the operator *)

\* One setting at a time, with a value of its own in each source that has it.
Only(settings, f, source, has) == [s \in settings |-> IF s = f /\ has THEN source ELSE Unset]

PickHierarchy ==
    \E f \in OpSettings, has \in [{"dotEnv", "env", "file", "args"} -> BOOLEAN],
       given \in {Unset, "given"},
       outcomes \in [{"config.json", "config.yaml", "given"} -> {"ENOENT", "EACCES", "unparseable", "empty", "config"}] :
        /\ (\E s \in DOMAIN has : has[s]) => Cardinality({outcomes[p] : p \in DOMAIN outcomes}) = 1
        /\ Picks("hierarchy", [setting |-> f, given |-> given, outcomes |-> outcomes]
                                @@ [s \in DOMAIN has |-> Only(OpSettings, f, s, has[s])])

\* The hierarchy of sources: what arguments say holds before the file, the file
\* before the environment, and that before .env (comment at ConfigBuilder.ts:978);
\* except for the directory of logs, that arguments do not set, and the level of
\* the log files, which follows that of all.
SourcesAreRanked ==
    IsAbout("hierarchy") /\ subject.setting \notin {"dirname", "fileLevel"} =>
        LET f == subject.setting
            config == OperatorConfig(MergedConfig(OpConfigFromEnv(EnvVars(subject.dotEnv, subject.env)), subject.file,
                                                  OpConfigFromArgs(subject.args)))
            says == SelectSeq(<<"args", "file", "env", "dotEnv">>, LAMBDA s : subject[s][f] # Unset)
        IN says # <<>> => config[f] = says[1]

\* A file that was asked for is the one that is used, or there is no start; no
\* other file is taken in its place (ConfigBuilder.ts:1061-1066).
GivenFileOrNone ==
    IsAbout("hierarchy") /\ subject.given # Unset =>
        LET file == ReadOperatorFile(subject.given, subject.outcomes)
        IN file.ok => file.location = subject.given /\ subject.outcomes[subject.given] \in {"empty", "config"}

\* A source either has an account, that is an id and a secret, or has not.
AccountIn(bot, source, alone, inObject) ==
    [f \in BotSettings |->
        IF (alone /\ f \in {"id", "idSecret"}) \/ (inObject /\ f \in {"redditId", "redditSecret"})
           \/ (f = "youtube" /\ bot)
        THEN source ELSE Unset]

PickCredentials ==
    \E env, args, youtube \in BOOLEAN, n \in 0 .. 1, alone, inObject \in BOOLEAN :
        Picks("credentials", [env |-> AccountIn(youtube, "env", FALSE, env), args |-> AccountIn(FALSE, "args", args, FALSE),
                              bots |-> [i \in 1 .. n |-> AccountIn(FALSE, "file", alone, inObject /\ ~alone)]])

\* A bot's id and its secret are of one account, whatever sources there are.
AccountsAreWhole ==
    IsAbout("credentials") =>
        LET bots == BotInstances(DefaultBotInstance(subject.env, subject.args), subject.bots)
        IN \A i \in DOMAIN bots :
               LET c == BotCredentials(bots[i]) IN c.ok => c.id = c.secret /\ c.id # Unset

OneProvider == [named : {FALSE}, store : {"redis", Unset}, prefix : {"p", "q", Unset}, ttl : {Unset}]

NamedProvider == [named : {TRUE}, store : {"redis"}, prefix : {Unset}, ttl : {Unset}]

CachingCases == {Unset} \cup [provider : OneProvider \cup NamedProvider \cup {Unset}, authorTTL : {Unset, 10}]

PickCaching ==
    \E file, one, two \in CachingCases, env \in {Unset, "redis"}, args \in BOOLEAN :
        /\ one # Unset => one.authorTTL = Unset
        /\ Picks("caching", [file |-> file, own |-> <<one, two>>,
                             args |-> IF args THEN [provider |-> CHOOSE p \in NamedProvider : TRUE, authorTTL |-> Unset] ELSE Unset,
                             env |-> IF env = Unset THEN Unset
                                     ELSE [provider |-> [named |-> FALSE, store |-> env, prefix |-> Unset, ttl |-> Unset],
                                           authorTTL |-> Unset]])

PrefixOf(caching) == IF caching = Unset THEN Unset ELSE IF caching.provider = Unset THEN Unset ELSE caching.provider.prefix

\* Two bots that share a store do not share keys in it: their prefixes differ,
\* unless both were given the same one (ConfigBuilder.ts:1528: "need to provide
\* unique prefix to bot"), or arguments took the place of a provider of the
\* file that has one.
PrefixesAreUnique ==
    IsAbout("caching") /\ (subject.args # Unset => PrefixOf(subject.file) = Unset) =>
        LET op == OpCaching(subject.env, subject.file, subject.args)
            Cache(i) == BotCache(subject.file, subject.own[i], op, i)
        IN Cache(1).provider.prefix = Cache(2).provider.prefix =>
               PrefixOf(subject.own[1]) # Unset /\ PrefixOf(subject.own[1]) = PrefixOf(subject.own[2])
=============================================================================
