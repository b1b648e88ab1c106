---------------------------- MODULE MCComputations ----------------------------
(***************************************************************************)
(* What is computed without waiting for anyone: each behavior picks one    *)
(* input, and the properties compare what the code makes of it with what   *)
(* its documentation says.                                                 *)
(***************************************************************************)
EXTENDS RuleCases, ContentCases, ConfigCases, CallCases

Computations == {"item", "author", "search", "filter", "batch", "window",
                 "repeat", "regex", "history", "attribution", "recent",
                 "repost", "occurrences", "repostComment", "sentiment", "language", "sentimentRule", "mhs",
                 "fragments", "names", "criteria", "defaults", "polling",
                 "hierarchy", "credentials", "caching",
                 "comments", "submissions", "messages", "bans",
                 "errors", "urls", "keys", "retention"}

Init == subject \in [about : {"nothing"}, next : Computations]

Next ==
    \/ Awaits("item") /\ PickItemCriterion
    \/ Awaits("author") /\ PickAuthorCriterion
    \/ Awaits("search") /\ PickSearch
    \/ Awaits("filter") /\ PickFilter
    \/ Awaits("batch") /\ PickBatch
    \/ Awaits("window") /\ PickWindow
    \/ Awaits("repeat") /\ PickRepeat
    \/ Awaits("regex") /\ PickRegex
    \/ Awaits("history") /\ PickHistory
    \/ Awaits("attribution") /\ PickAttribution
    \/ Awaits("recent") /\ PickRecent
    \/ Awaits("repost") /\ PickRepost
    \/ Awaits("occurrences") /\ PickOccurrences
    \/ Awaits("repostComment") /\ PickRepostComment
    \/ Awaits("sentiment") /\ PickSentiment
    \/ Awaits("language") /\ PickLanguage
    \/ Awaits("sentimentRule") /\ PickSentimentRule
    \/ Awaits("mhs") /\ PickMHS
    \/ Awaits("fragments") /\ PickFragments
    \/ Awaits("names") /\ PickNames
    \/ Awaits("criteria") /\ PickCriteria
    \/ Awaits("defaults") /\ PickDefaults
    \/ Awaits("polling") /\ PickPolling
    \/ Awaits("hierarchy") /\ PickHierarchy
    \/ Awaits("credentials") /\ PickCredentials
    \/ Awaits("caching") /\ PickCaching
    \/ Awaits("comments") /\ PickComments
    \/ Awaits("submissions") /\ PickSubmissions
    \/ Awaits("messages") /\ PickMessages
    \/ Awaits("bans") /\ PickBans
    \/ Awaits("errors") /\ PickErrors
    \/ Awaits("urls") /\ PickUrls
    \/ Awaits("keys") /\ PickKeys
    \/ Awaits("retention") /\ PickRetention

Spec == Init /\ [][Next]_subject

\* Filters and windows pass what is documented of them.
FiltersAsDocumented ==
    /\ AllPropertiesPass /\ ExcludeIsOpposite /\ SearchFindsRuns
    /\ ExcludedAreJoined /\ DefaultsProtect /\ BatchPassesItems
    /\ AnyGivesTheNewest /\ NothingTwice /\ SameKeySameActivities

\* Rules trigger on what is documented of them.
RulesAsDocumented ==
    /\ RepeatsAreRuns /\ SetsAreAlike /\ RegexCountsOnce
    /\ HistoryNeedsEnough /\ SharesAddUp /\ CombinedIsMore
    /\ ItselfIsNoRepost /\ RecentCountsWhatPasses
    /\ UrlAlwaysCounts /\ OccurrencesAreJoined /\ CandidatesAreOwn
    /\ NotIsOpposite /\ LanguageIsSure /\ TestOnIsForSubmissions
    /\ HistoryDecides /\ BadAnswersAreForgotten

\* Configs, of subreddits and of the operator, mean what is documented of them.
ConfigsAsDocumented ==
    /\ HydratedFully /\ OnlyWhatIsShared /\ NamesMeanOne
    /\ CriteriaAreReusable /\ DefaultsOverride /\ NothingPolledTwice
    /\ SourcesAreRanked /\ GivenFileOrNone /\ AccountsAreWhole /\ PrefixesAreUnique

\* Actions send what is documented of them, to whom it is.
ActionsAsDocumented ==
    /\ DryRunForetells /\ OwnCreationsKnown /\ OthersStillReached /\ PostedOnce
    /\ MessagesGoWhereTold /\ BanTextsFit

\* Requests are repeated, answers used, cached results and events deleted as is
\* documented.
RequestsAsDocumented ==
    /\ RetriedWithinLimit /\ NoRefusalFetched /\ NamedFileFetched
    /\ ResetTakesOwnOnly /\ RetentionKept
=============================================================================
