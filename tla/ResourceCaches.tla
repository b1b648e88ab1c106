---------------------------- MODULE ResourceCaches ----------------------------
(***************************************************************************)
(* Which cache the resources of a bot's subreddits use, as their configs   *)
(* change and their managers come and go.  A cache in memory drops what    *)
(* has expired only if a timer prunes it.                                  *)
(***************************************************************************)
EXTENDS Naturals, Sequences

CONSTANTS
    Subs,       \* the subreddits
    BotStores,  \* the stores that the bot's own cache may have: "memory", "redis"
    MaxCaches   \* bound: caches that are made

ASSUME BotStoresAssumption == BotStores \subseteq {"memory", "redis"}

VARIABLES
    caches,    \* the caches made so far; the first is the bot's
    resources  \* resources[s]: the caching of the config of s and the caches in use

cacheVars == <<caches, resources>>

NoResources == [caching |-> "nothing", cache |-> 0, notes |-> 0]

Options == [store : {"memory", "redis"}, prefix : {"SHARED", ""} \cup Subs]

\* What a config says of caching: nothing; a ttl, so the provider is the bot's;
\* a provider of its own.
Cachings == {"nothing", "ttls", "memory", "redis"}

CachesTypeOK ==
    /\ caches \in Seq([options : Options, default : BOOLEAN, pruned : BOOLEAN,
                       replaced : BOOLEAN, entries : SUBSET Subs])
    /\ resources \in [Subs -> [caching : Cachings, cache : 0 .. Len(caches), notes : 0 .. Len(caches)]]
    /\ \A s \in Subs : (resources[s].cache = 0) = (resources[s].notes = 0)

\* setPruneInterval: a cache in memory that is not the bot's has a timer.
CMCache(options, default) ==
    [options |-> options, default |-> default, pruned |-> options.store = "memory" /\ ~default,
     replaced |-> FALSE, entries |-> {}]

CachesInit ==
    /\ \E store \in BotStores : caches = <<CMCache([store |-> store, prefix |-> "SHARED"], TRUE)>>
    /\ resources = [s \in Subs |-> NoResources]

Has(s) == resources[s].cache # 0

BotStore == caches[1].options.store

\* The bot's provider with a prefix for the subreddit; a provider of the config
\* as it is.
CandidateProvider(s, caching) ==
    IF caching = "ttls" THEN [store |-> BotStore, prefix |-> s] ELSE [store |-> caching, prefix |-> ""]

EqualProvider(i, options) == caches[i].options = options

\* The cache that set chooses for s: an existing one, or one more.
Chosen(s, caching) ==
    LET candidate == CandidateProvider(s, caching)
    IN IF caching = "nothing" \/ EqualProvider(1, candidate) THEN 1
       ELSE IF Has(s) /\ EqualProvider(resources[s].cache, candidate) THEN resources[s].cache
       ELSE Len(caches) + 1

\* Mutant: what is replaced is destroyed at once, though the notes still use it.
ReplacedAndDestroyed(known, old) ==
    [known EXCEPT ![old] = IF @.default THEN @ ELSE [@ EXCEPT !.pruned = FALSE, !.entries = {}]]

\* The cache that is no longer used is left as it is.
Replaced(known, old) == [known EXCEPT ![old] = IF @.default THEN @ ELSE [@ EXCEPT !.replaced = TRUE]]

\* set and configure: resources are made, or keep what does not depend on the
\* cache; the notes keep the cache that they were made with.
SetResources(s, caching) ==
    LET chosen == Chosen(s, caching)
        old == resources[s].cache
        known == IF chosen > Len(caches)
                 THEN Append(caches, CMCache(CandidateProvider(s, caching), FALSE))
                 ELSE caches
    IN /\ chosen <= MaxCaches
       /\ caches' = IF Has(s) /\ chosen # old THEN Replaced(known, old) ELSE known
       /\ resources' = [resources EXCEPT ![s] =
                           [caching |-> caching, cache |-> chosen,
                            notes |-> IF Has(s) THEN @.notes ELSE chosen]]

\* s puts something into its cache, or into that of its notes.
Put(s) ==
    /\ Has(s)
    /\ \E i \in {resources[s].cache, resources[s].notes} :
          caches' = [caches EXCEPT ![i].entries = @ \cup {s}]
    /\ UNCHANGED resources

\* CMCache.destroy: the timer ends and the cache is emptied, if it has a timer.
Destroyed(cache) == IF cache.pruned THEN [cache EXCEPT !.pruned = FALSE, !.entries = {}] ELSE cache

Removed(s) == [resources EXCEPT ![s] = NoResources]

DestroyResources(s) ==
    /\ Has(s)
    /\ caches' = [caches EXCEPT ![resources[s].cache] = Destroyed(@)]
    /\ resources' = Removed(s)

CachesNext ==
    \E s \in Subs :
        \/ \E caching \in Cachings : SetResources(s, caching)
        \/ Put(s)
        \/ DestroyResources(s)

-----------------------------------------------------------------------------

\* What is used is pruned: no subreddit fills a cache in memory that nothing
\* empties, whatever was destroyed and made before (Cache/index.ts:76-92).
PrunedWhileUsed ==
    \A s \in Subs : \A i \in {resources[s].cache, resources[s].notes} \ {0} :
        caches[i].options.store = "memory" => caches[i].default \/ caches[i].pruned

\* What a subreddit has cached is not lost through what happens to another
\* (Cache/index.ts:204-209).
OthersKept ==
    [][\A s \in Subs : resources'[s] = resources[s] =>
          \A i \in 1 .. Len(caches) : s \in caches[i].entries =>
             s \in caches'[i].entries]_cacheVars

Place(i) == IF caches[i].options.store = "memory" THEN <<i>> ELSE <<"redis", caches[i].options.prefix>>

\* Subreddits that have the bot's provider to themselves do not see what each
\* other cached (ResourcesManager.ts:142).
OwnApart ==
    \A s, t \in Subs :
        s # t /\ resources[s].caching = "ttls" /\ resources[t].caching = "ttls" =>
            Place(resources[s].cache) # Place(resources[t].cache)

\* A timer ends with the resources it was made for, unless a config has put
\* another cache in place of its own (ResourcesManager.ts:176-182).
NoTimerLeft ==
    \A i \in 1 .. Len(caches) :
        caches[i].pruned => caches[i].replaced \/ \E s \in Subs : resources[s].cache = i
=============================================================================
