----------------------------- MODULE MCResources -----------------------------
(***************************************************************************)
(* What is kept in more than one place, one part at a time: what the       *)
(* caches of subreddits hold of activities, contributors, mod notes,       *)
(* flairs, user notes and config fragments; which caches they have; their  *)
(* statistics; their guests; the bots that are added through the web.      *)
(***************************************************************************)
EXTENDS ItemCache, AuthorCache, Fragments, ResourceCaches, Statistics, Guests, WebClient, TLC

CONSTANTS NoteWorkers, Types, Refs, MaxUserNotes, TTLs, Stores  \* those of UserNotes

VARIABLES
    part,  \* the part that this behaviour is about
    ttl, store, page, clock, heap, payload, users, noteWorker, failed  \* those of UserNotes

noteVars == <<ttl, store, page, clock, heap, payload, users, noteWorker, failed>>

cachedVars == <<itemVars, authorVars, fragmentVars>>

allVars == <<part, noteVars, cacheVars, statVars, guestVars, webVars, cachedVars>>

\* Moderators write while the bot remembers nothing; every answer arrives.
Wiki == INSTANCE UserNotes
    WITH Workers <- NoteWorkers, Nothing <- None, MaxNotes <- MaxUserNotes,
         ModeratorsAnyTime <- FALSE, EditsFail <- TRUE, AnswersLost <- FALSE,
         cached <- payload, worker <- noteWorker

Init ==
    /\ part \in {"items", "contributors", "notes", "flair", "usernotes", "fragments", "caches", "stats",
                "guests", "web"}
    /\ ItemInit /\ AuthorInit /\ FragmentsInit
    /\ Wiki!Init /\ CachesInit /\ StatsInit /\ GuestsInit /\ WebInit
    /\ part # "usernotes" =>
          ttl = (CHOOSE t \in TTLs : TRUE) /\ store = (CHOOSE s \in Stores : TRUE)
    /\ part # "caches" => BotStore = "memory"
    /\ part # "fragments" => sharedPage.shared = {}

\* Everything but what a part is about.
restVars == <<part, noteVars, cacheVars, statVars, guestVars, webVars>>

Next ==
    \/ part = "items" /\ ItemNext /\ UNCHANGED <<restVars, authorVars, fragmentVars>>
    \/ part = "contributors" /\ (ContributorsNext \/ ResultsNext)
                             /\ UNCHANGED <<restVars, itemVars, fragmentVars>>
    \/ part = "notes" /\ (NotesNext \/ ResultsNext) /\ UNCHANGED <<restVars, itemVars, fragmentVars>>
    \/ part = "flair" /\ (FlairNext \/ ResultsNext) /\ UNCHANGED <<restVars, itemVars, fragmentVars>>
    \/ part = "fragments" /\ FragmentsNext /\ UNCHANGED <<restVars, itemVars, authorVars>>
    \/ part = "usernotes" /\ Wiki!Next /\ UNCHANGED <<part, cacheVars, statVars, guestVars, webVars, cachedVars>>
    \/ part = "caches" /\ CachesNext /\ UNCHANGED <<part, noteVars, statVars, guestVars, webVars, cachedVars>>
    \/ part = "stats" /\ StatsNext /\ UNCHANGED <<part, noteVars, cacheVars, guestVars, webVars, cachedVars>>
    \/ part = "guests" /\ GuestsNext /\ UNCHANGED <<part, noteVars, cacheVars, statVars, webVars, cachedVars>>
    \/ part = "web" /\ WebNext /\ UNCHANGED <<part, noteVars, cacheVars, statVars, guestVars, cachedVars>>

Spec == Init /\ [][Next]_allVars

Symmetry == Permutations(Workers) \cup Permutations(Posts)

ASSUME InstancesAssumption == Wiki!NotesAssumption

\* Every part is of its type.
TypesOK ==
    /\ ItemTypeOK /\ AuthorTypeOK /\ FragmentTypeOK
    /\ CachesTypeOK /\ StatsTypeOK /\ GuestsTypeOK
    /\ WebTypeOK /\ Wiki!TypeOK

\* What is cached of activities, authors and mod notes follows from what was
\* done at Reddit, by the bot and by others, and a dry run does nothing there
\* but flair submissions (actions, resetCacheForItem, addContributors).
CachesFollowActions ==
    /\ [](ResultsFollowActions /\ ActivitiesFollowActions /\ SkippedUntilReported)
    /\ [](FlairResultsFollow /\ ContributorsKnown /\ ModNotesKnown /\ NoModNoteTwiceInARow)
    /\ DryRunOnlyFlairs

\* A config fragment reaches a subreddit only if it is shared with it, and not
\* once it is older than the subreddit allows (SubredditResources.getConfigFragment).
FragmentsGuarded == SharedWithReader /\ NotOutdated

\* Each subreddit has the cache it asked for, and what it keeps there stays and
\* is pruned for as long as it is in use (setPruneInterval, set, destroy).
StoresKept ==
    /\ [](PrunedWhileUsed /\ OwnApart /\ NoTimerLeft)
    /\ OthersKept

\* What is counted is saved from time to time, and the saved total never sinks
\* (setHistoricalSaveInterval, saveHistoricalStats).
TotalsSaved == []TimerRuns /\ TotalsGrow

\* The page of user notes, what the caches tell of it, and what the checks make
\* of that agree (getUserNotes, addUserNote, existingNoteCheck).
UserNotesKept ==
    /\ [](Wiki!NothingFromFailures /\ Wiki!KnowsPage /\ Wiki!NeverTwiceInARow)
    /\ Wiki!NothingLost

\* A bot that is added by an invite runs once, is written to the file it is
\* started from, and only then costs the invite (addBot, refreshClient).
BotsAdded ==
    /\ [](OneInstanceEach /\ OneBotEach /\ RunningIsWritten)
    /\ SpentWhenWritten
=============================================================================
