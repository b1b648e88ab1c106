---------------------------- MODULE OperatorConfig ----------------------------
(***************************************************************************)
(* The operator's config: environment, file and arguments are merged, what *)
(* is missing gets a default, and each bot gets its own settings.          *)
(*                                                                         *)
(* A source gives each setting a value or leaves it Unset; settings that   *)
(* the code keeps in objects within objects have one name each.            *)
(***************************************************************************)
EXTENDS Sequences, FiniteSets, SequencesExt, Comparisons

Or(value, default) == IF value = Unset THEN default ELSE value

\* Deep merging of objects: what comes later holds, setting by setting.
Over(low, high) == [f \in DOMAIN low |-> Or(high[f], low[f])]

-----------------------------------------------------------------------------
(* Sources *)

\* Variables of the .env file do not override those of the environment.
EnvVars(dotEnv, env) == Over(dotEnv, env)

OpSettings == {"mode", "operator", "level", "fileLevel", "dirname", "port", "secret", "clientId"}

\* parseOpConfigFromEnv: one level of logging for all transports.
OpConfigFromEnv(vars) == [vars EXCEPT !.fileLevel = vars.level]

\* parseOpConfigFromArgs: the directory of logs goes to a setting nobody reads.
OpConfigFromArgs(args) == [args EXCEPT !.fileLevel = args.level, !.dirname = Unset]

\* parseOperatorConfigFromSources.
MergedConfig(env, file, args) == Over(Over(env, file), args)

\* Where the file is looked for.
ConfigPlaces(given) == IF given # Unset THEN <<given>> ELSE <<"config.json", "config.yaml">>

\* The first file that can be read is taken; one that is there but holds no
\* config ends the start, as does a location that is given and leads nowhere.
ReadOperatorFile(given, outcomes) ==
    LET places == ConfigPlaces(given)
        Missing(p) == outcomes[p] \in {"ENOENT", "EACCES"}
        present == SelectSeq(places, LAMBDA p : ~Missing(p))
    IN IF present = <<>> THEN IF given # Unset THEN [ok |-> FALSE]
                              ELSE [ok |-> TRUE, location |-> "config.yaml", found |-> FALSE]
       ELSE IF outcomes[present[1]] \in {"unreadable", "unparseable", "invalid"} THEN [ok |-> FALSE]
       ELSE [ok |-> TRUE, location |-> present[1], found |-> outcomes[present[1]] # "empty"]

\* Settings of a bot: credentials of its own account are either in one object
\* with those of other services ("redditId"), or stand alone ("id").
BotSettings == {"id", "idSecret", "token", "redditId", "redditSecret", "redditToken", "youtube",
                "names", "wikiConfig", "dryRun", "softLimit", "hardLimit", "heartbeat", "shared"}

\* parseDefaultBotInstanceFromEnv, parseDefaultBotInstanceFromArgs.
BotFromEnv(vars) == [f \in BotSettings |-> IF f \in {"id", "idSecret", "token"} THEN Unset ELSE vars[f]]

BotFromArgs(args) ==
    [f \in BotSettings |-> IF f \in {"redditId", "redditSecret", "redditToken", "youtube"} THEN Unset ELSE args[f]]

DefaultBotInstance(env, args) == Over(BotFromEnv(env), BotFromArgs(args))

CredentialSettings == {"id", "idSecret", "token", "redditId", "redditSecret", "redditToken", "youtube"}

HasCredentials(bot) == \E f \in CredentialSettings : bot[f] # Unset

\* Without bots in the file there is one, if there are any credentials; bots of
\* the file have settings of their own before all others.
BotInstances(default, bots) ==
    IF bots # <<>> THEN [i \in DOMAIN bots |-> Over(default, bots[i])]
    ELSE IF HasCredentials(default) THEN <<default>> ELSE <<>>

-----------------------------------------------------------------------------
(* Credentials *)

\* Credentials that stand alone hold before the others, which are then out of
\* reach; and without either kind a bot cannot be built.
BotCredentials(bot) ==
    IF bot.id # Unset THEN [ok |-> TRUE, id |-> bot.id, secret |-> bot.idSecret, token |-> bot.token, youtube |-> Unset]
    ELSE IF {bot.redditId, bot.redditSecret, bot.redditToken} = {Unset} THEN [ok |-> FALSE]
    ELSE [ok |-> TRUE, id |-> bot.redditId, secret |-> bot.redditSecret, token |-> bot.redditToken,
          youtube |-> bot.youtube]

-----------------------------------------------------------------------------
(* Caching *)

\* How long things are cached and where. A provider is a name of a store or
\* options; options on how long and how much are not heeded.
Providers == [named : BOOLEAN, store : {"memory", "redis", Unset}, prefix : {"p", "q", Unset}, ttl : {10, Unset}]

Caching == [provider : Providers \cup {Unset}, authorTTL : {10, Unset}]

\* A name replaces options and options a name, options are merged.
MergedProvider(low, high) ==
    IF low = Unset \/ high = Unset THEN Or(high, low)
    ELSE IF low.named \/ high.named THEN high ELSE Over(low, high)

MergedCaching(low, high) ==
    IF low = Unset \/ high = Unset THEN Or(high, low)
    ELSE [provider |-> MergedProvider(low.provider, high.provider), authorTTL |-> Or(high.authorTTL, low.authorTTL)]

CacheOptDefaults == [ttl |-> 60, max |-> 500]

CacheTTLDefaults == [authorTTL |-> 60]

\* A provider with its options, as it is used.
StrongProvider(provider) ==
    IF provider = Unset THEN [store |-> "memory", prefix |-> Unset, ttl |-> CacheOptDefaults.ttl]
    ELSE IF provider.named THEN [store |-> provider.store, prefix |-> Unset, ttl |-> CacheOptDefaults.ttl]
    ELSE [store |-> Or(provider.store, "memory"), prefix |-> provider.prefix, ttl |-> CacheOptDefaults.ttl]

StrongCache(caching) ==
    IF caching = Unset THEN [provider |-> StrongProvider(Unset), authorTTL |-> CacheTTLDefaults.authorTTL]
    ELSE [provider |-> StrongProvider(caching.provider), authorTTL |-> Or(caching.authorTTL, CacheTTLDefaults.authorTTL)]

\* The caching of all is merged from its sources like other settings.
OpCaching(env, file, args) == StrongCache(MergedCaching(MergedCaching(env, file), args))

\* A prefix of its own is kept, otherwise it is made unique.
CachePrefix(prefix, opPrefix, id) ==
    IF prefix = Unset \/ prefix = opPrefix THEN <<prefix, "bot", id>> ELSE <<prefix>>

\* A bot has the file's caching, if any, with what it says itself over it; if
\* there is none at all, the operator's provider, but not the operator's times.
BotCache(fileCaching, own, op, id) ==
    LET caching == MergedCaching(fileCaching, own)
        cache == IF caching = Unset THEN [provider |-> op.provider, authorTTL |-> CacheTTLDefaults.authorTTL]
                 ELSE StrongCache(caching)
    IN [cache EXCEPT !.provider.prefix = CachePrefix(@, op.provider.prefix, id)]

-----------------------------------------------------------------------------
(* Defaults *)

\* The sources that are polled for all subreddits of a bot, each once.
SharedSources(shared, sharedMod) ==
    (IF shared = Unset THEN {} ELSE shared) \cup (IF sharedMod THEN {"unmoderated", "modqueue"} ELSE {})

\* How often statistics are kept: as a subreddit's override says, or else its
\* bot or the operator.
StatDefaults(op, bot, override) == Over(Over(Over([frequency |-> "day", minFrequency |-> "day"], op), bot), override)

Retention(op, bot) == Or(bot, op)

\* What is missing of the operator's settings.
OpDefaults ==
    [mode |-> "all", operator |-> <<>>, level |-> "debug", fileLevel |-> Unset, dirname |-> Unset,
     port |-> 8085, secret |-> Unset, clientId |-> Unset]

\* Transports log at the level of all unless they have their own.
OperatorConfig(config) ==
    LET c == Over(OpDefaults, config) IN [c EXCEPT !.fileLevel = Or(@, c.level)]

\* What is missing of a bot's.
BotDefaults ==
    [f \in BotSettings |->
        CASE f = "wikiConfig" -> "botconfig/contextbot" [] f = "softLimit" -> 250 [] f = "hardLimit" -> 50
          [] f = "heartbeat" -> 300 [] f = "names" -> <<>> [] f = "shared" -> {} [] OTHER -> Unset]

BotConfig(bot) == IF BotCredentials(bot).ok THEN Over(BotDefaults, bot) ELSE Unset
=============================================================================
