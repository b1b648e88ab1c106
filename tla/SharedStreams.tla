----------------------------- MODULE SharedStreams -----------------------------
(***************************************************************************)
(* One shared stream of a bot, on which several managers listen.           *)
(*                                                                         *)
(* parseSharedStreams makes, replaces and ends the stream (module Stream)  *)
(* after every change of a config; runSharedStreams starts it.  Managers   *)
(* set and delete their callbacks on their own, when they build their      *)
(* polling.  A listing is doled out to the callbacks item by item, with a  *)
(* pause (stagger) after each.  There is one manager for each subreddit.   *)
(***************************************************************************)
EXTENDS Stream

CONSTANTS
    InFlight,      \* whether the bot acts on the stream during a poll or a retry
    FailsAt,       \* which calls may fail: the first one, that of a page, a further one
    Unfollowed,    \* whether a config changes when the manager's callback does not follow
    DelistedFrom,  \* bound: the sources from which items may disappear
    ReplacesAny    \* whether a stream is replaced that does not watch, or by one that
                   \* lists older items which the stream has not seen

ASSUME SharedAssumption ==
    /\ Streams # {}
    /\ FailsAt \subseteq {"first", "get", "more"}
    /\ DelistedFrom \subseteq Sources
    /\ {InFlight, Unfollowed, ReplacesAny} \subseteq BOOLEAN

VARIABLES
    config,      \* config[m]: m's config polls the source with the shared defaults
    eventsState, \* eventsState[m]: the state of m's events
    callback,    \* callback[m]: m has a callback in sharedStreamCallbacks
    modStream,   \* the stream in modStreams, if any
    unused,      \* stream objects not yet constructed
    listedOnce,  \* streamListedOnce: the source has been listed
    doling,      \* items that are still to be doled out
    pushed,      \* history: how often an item was pushed to a firehose
    existing,    \* history: items listed, and not being doled out, when the stream took
                 \* up their subreddit, if the source has a cutoff
    fresh,       \* history: no stream has run since the last one was ended
    due          \* history: unseen items listed while their manager listens

vars == <<streamVars, config, eventsState, callback, modStream, unused, listedOnce,
          doling, pushed, existing, fresh, due>>

TypeOK ==
    /\ StreamTypeOK
    /\ {config, callback} \subseteq [Subreddits -> BOOLEAN]
    /\ eventsState \in [Subreddits -> {"RUNNING", "PAUSED", "STOPPED"}]
    /\ modStream \in Streams \cup {Nothing}
    /\ unused \subseteq Streams
    /\ listedOnce \in BOOLEAN
    /\ doling \in Seq(Items)
    /\ pushed \in [Items -> 0 .. 2]
    /\ existing \subseteq Items /\ due \subseteq Items
    /\ fresh \in BOOLEAN

-----------------------------------------------------------------------------
(* Managers *)

Listens(m) == callback[m] /\ eventsState[m] = "RUNNING"

\* isPollingShared
SharedBy(cfg) == {m \in Subreddits : cfg[m]}

\* The stream takes what is posted now for new.
Watching == modStream # Nothing /\ stream[modStream].running /\ ~stream[modStream].newStart

\* An item of m posted now is due.  Nothing is in the modqueue, whose stream is
\* ended by every change of a config.
Watched(m) ==
    UseDateCutoff /\ Watching /\ Listens(m) /\ m \in stream[modStream].subreddits

\* Mutant: callbacks are never deleted.
CallbackKept(m, cfg) ==
    callback' = [callback EXCEPT ![m] = @ \/ (cfg[m] /\ modStream # Nothing)]

\* buildPolling of m under the configs cfg: the callback is set only if the
\* stream exists at this moment.
BuildPolling(m, cfg) ==
    callback' = [callback EXCEPT ![m] = cfg[m] /\ (modStream # Nothing \/ @)]

-----------------------------------------------------------------------------
(* The bot *)

\* The stream for the managers that share it under cfg.  Submissions and
\* comments name the subreddits; the others ask for "mod".
Subjects(cfg) == IF source = "new" THEN SharedBy(cfg) ELSE Subreddits

\* parseSharedStreams makes a stream s, which goes on with the processed items
\* of the one that it replaces.
Made(s, cfg) ==
    LET new == NewStream(s, Subjects(cfg), source = "new")
    IN IF modStream = Nothing THEN new
       ELSE [new EXCEPT !.set = stream[modStream].set,
                        !.processed = stream[modStream].processed,
                        !.newStart = FALSE]

\* What parseSharedStreams does under cfg: a stream names its subreddits.
MustMake(cfg) ==
    /\ SharedBy(cfg) # {}
    /\ \/ modStream = Nothing
       \/ source = "new" /\ stream[modStream].subreddits # SharedBy(cfg)

\* The condition of the modqueue (line 663) is the reverse of the others.
MustEnd(cfg) ==
    /\ modStream # Nothing
    /\ IF source = "modqueue" THEN SharedBy(cfg) # {} ELSE SharedBy(cfg) = {}

\* Mutant: only a stream that runs is started.
RunAgain(current, streams, chains, callbacks) == stream' = streams /\ chain' = chains

\* runSharedStreams, applied to the streams and chains given: a stream that does
\* not run is started if there is any callback, whoever is RUNNING.
RunShared(current, streams, chains, callbacks) ==
    IF current = Nothing \/ streams[current].running
       \/ \A m \in Subreddits : ~callbacks[m]
    THEN stream' = streams /\ chain' = chains
    ELSE LET free == {c \in Chains : chains[c] = Nothing}
             c == CHOOSE c \in free : TRUE
         IN /\ free # {}
            /\ chain' = [chains EXCEPT ![c] = Timer(current)]
            /\ stream' = [streams EXCEPT ![current] = Started(@, c, @.newStart)]

\* parseSharedStreams and runSharedStreams, in one go after a config change.
ParseSharedStreams(cfg) ==
    LET cleared == IF modStream = Nothing THEN chain ELSE TimerCleared(chain, modStream)
        ended == IF modStream = Nothing THEN stream
                 ELSE [stream EXCEPT ![modStream] = Ended(@)]
    IN IF MustMake(cfg)
       THEN LET s == CHOOSE s \in unused : TRUE
            IN /\ unused # {}
               /\ modStream' = s
               /\ unused' = unused \ {s}
               /\ RunShared(s, [ended EXCEPT ![s] = Made(s, cfg)], cleared, callback')
       ELSE IF MustEnd(cfg)
       THEN UNCHANGED <<modStream, unused>> /\ RunShared(modStream, ended, cleared, callback')
       ELSE UNCHANGED <<modStream, unused>> /\ RunShared(modStream, stream, chain, callback')

\* Histories: what is listed, and not being doled out, when a stream begins
\* afresh, the last one having been ended, or takes up further subreddits; what
\* is due goes with those that stop listening.
Taken(ended) ==
    LET runs == modStream' # Nothing /\ stream'[modStream'].running
        further == stream'[modStream'].subreddits \ stream[modStream].subreddits
        old == Range(listing) \ Range(doling)
    IN /\ fresh' = ((fresh \/ ended) /\ ~runs)
       /\ existing' = IF ~UseDateCutoff \/ ~runs THEN existing
                      ELSE IF fresh \/ ended THEN old
                      ELSE existing \cup {i \in old : home[i] \in further}

DueTo(listeners) == due' = {i \in due : home[i] \in listeners}

-----------------------------------------------------------------------------
(* Doling out *)

\* createSharedStreamListingListener: the first item that finds its manager
\* listening is pushed, and the rest goes on after the pause.
DoleOut(items, waiting) ==
    LET finds == {k \in DOMAIN items : Listens(home[items[k]])}
        first == CHOOSE k \in finds : \A l \in finds : k <= l
    IN IF finds = {}
       THEN doling' = waiting /\ due' = due \ Range(items) /\ UNCHANGED pushed
       ELSE /\ doling' = waiting \o SubSeq(items, first + 1, Len(items))
            /\ due' = due \ {items[k] : k \in 1 .. first}
            /\ pushed' = [pushed EXCEPT ![items[first]] = IF @ < 2 THEN @ + 1 ELSE @]

\* The pause of stagger milliseconds is over.
DoleOutNext ==
    /\ doling # <<>>
    /\ DoleOut(doling, <<>>)
    /\ UNCHANGED <<streamVars, config, eventsState, callback, modStream, unused,
                   listedOnce, existing, fresh>>

-----------------------------------------------------------------------------
(* Reddit and the stream *)

restUnchanged == <<config, eventsState, callback, modStream, unused, fresh>>

ItemPosted(m) ==
    /\ Post(m)
    /\ due' = IF Watched(m) THEN due \cup {posted + 1} ELSE due
    /\ UNCHANGED <<restUnchanged, listedOnce, doling, pushed, existing>>

ItemDelisted(i) ==
    /\ source \in DelistedFrom
    /\ Delist(i)
    /\ due' = due \ {i} /\ existing' = existing \ {i}
    /\ UNCHANGED <<restUnchanged, listedOnce, doling, pushed>>

ItemReported(i) ==
    /\ Report(i)
    /\ UNCHANGED <<restUnchanged, listedOnce, doling, pushed, existing, due>>

PollBegins(c) ==
    /\ Fire(c)
    /\ UNCHANGED <<restUnchanged, listedOnce, doling, pushed, existing, due>>

\* A poll that reads on has no listing yet; the very first listing of the
\* source is not doled out.
PollAnswered(c) ==
    /\ Awaits(c)
    /\ \E batch \in {Batch(c)}, items \in {Emissions(c, Batch(c))} :
        /\ Receive(c, batch)
        /\ IF ReadsOn(c, batch) THEN UNCHANGED <<listedOnce, doling, pushed, due>>
           ELSE /\ listedOnce' = TRUE
                /\ IF listedOnce THEN DoleOut(items, doling)
                   ELSE due' = due \ Range(items) /\ UNCHANGED <<doling, pushed>>
    /\ UNCHANGED <<restUnchanged, existing>>

PollFails(c) ==
    /\ Fail(c)
    /\ (IF stream[chain[c].stream].newStart THEN "first" ELSE chain[c].pc) \in FailsAt
    /\ UNCHANGED <<restUnchanged, listedOnce, doling, pushed, existing, due>>

\* The error listener retries with the stream that modStreams has by then.
PollRetried(c) ==
    /\ Active(c) /\ chain[c].pc = "retrying"
    /\ chain' = [chain EXCEPT ![c] = Timer(modStream)]
    /\ stream' = [stream EXCEPT ![modStream] = Started(@, c, FALSE)]
    /\ UNCHANGED <<source, posted, home, listing>>
    /\ UNCHANGED <<restUnchanged, listedOnce, doling, pushed, existing, due>>

\* It gives up: the next heartbeat will start the stream.
GiveUp(c) ==
    /\ Active(c) /\ chain[c].pc = "retrying"
    /\ chain' = [chain EXCEPT ![c] = Nothing]
    /\ UNCHANGED <<source, posted, home, listing, stream>>
    /\ UNCHANGED <<restUnchanged, listedOnce, doling, pushed, existing, due>>

-----------------------------------------------------------------------------
(* Operations *)

\* The stream is between its polls, unless InFlight.
MayAct == InFlight \/ \A c \in Chains : Active(c) => chain[c].pc = "timer"

\* A config of m that shares the source or not: a running manager builds its
\* polling before the event configChange makes the bot look at its streams.
UpdateConfig(m, shared) ==
    LET cfg == [config EXCEPT ![m] = shared]
    IN /\ MayAct
       /\ \/ eventsState[m] = "PAUSED"
          \/ shared /\ modStream = Nothing /\ eventsState[m] = "RUNNING"
          => Unfollowed
       /\ MustMake(cfg) /\ modStream # Nothing =>
              \/ ReplacesAny
              \/ Watching /\ \A i \in Range(listing) \ stream[modStream].processed :
                    home[i] \in SharedBy(cfg) =>
                        i \notin existing /\ home[i] \in stream[modStream].subreddits
       /\ config' = cfg
       /\ IF eventsState[m] = "RUNNING" THEN BuildPolling(m, cfg) ELSE UNCHANGED callback
       /\ ParseSharedStreams(cfg)
       /\ Taken(MustEnd(cfg))
       /\ DueTo({n \in Subreddits : n # m \/ shared})
       /\ UNCHANGED <<source, posted, home, listing, eventsState, listedOnce, doling, pushed>>

\* startEvents: only a stopped manager builds its polling.
StartEvents(m) ==
    /\ eventsState[m] # "RUNNING"
    /\ eventsState' = [eventsState EXCEPT ![m] = "RUNNING"]
    /\ IF eventsState[m] = "STOPPED" THEN BuildPolling(m, config) ELSE UNCHANGED callback
    /\ UNCHANGED <<streamVars, config, modStream, unused, listedOnce, doling, pushed, existing,
                   fresh, due>>

\* pauseEvents and stopEvents leave the callback.
EndEvents(m, state) ==
    /\ eventsState[m] # state
    /\ state = "PAUSED" => eventsState[m] = "RUNNING"
    /\ eventsState' = [eventsState EXCEPT ![m] = state]
    /\ DueTo(Subreddits \ {m})
    /\ UNCHANGED <<streamVars, config, callback, modStream, unused, listedOnce, doling, pushed,
                   existing, fresh>>

\* runSharedStreams, at the end of runManagers and of every heartbeat.
RunSharedStreams ==
    /\ MayAct
    /\ RunShared(modStream, stream, chain, callback)
    /\ UNCHANGED <<modStream, source, posted, home, listing>>
    /\ Taken(FALSE)
    /\ UNCHANGED <<config, eventsState, callback, unused, listedOnce, doling, pushed, due>>

\* The hard limit of the api: runApiNanny pauses the managers and ends the stream.
HardLimit ==
    /\ MayAct
    /\ modStream # Nothing
    /\ eventsState' = [m \in Subreddits |->
                          IF eventsState[m] = "RUNNING" THEN "PAUSED" ELSE eventsState[m]]
    /\ chain' = TimerCleared(chain, modStream)
    /\ stream' = [stream EXCEPT ![modStream] = Ended(@)]
    /\ due' = {}
    /\ UNCHANGED <<source, posted, home, listing, config, callback, modStream, unused,
                   listedOnce, doling, pushed>>
    /\ Taken(TRUE)

-----------------------------------------------------------------------------
(* The specification *)

\* buildManagers has read the configs and called parseSharedStreams.
Init ==
    /\ RedditInit
    /\ chain = [c \in Chains |-> Nothing]
    /\ config \in [Subreddits -> BOOLEAN]
    /\ LET s == CHOOSE s \in Streams : TRUE
           shared == IF SharedBy(config) # {} THEN {s} ELSE {}
       IN /\ modStream = IF shared # {} THEN s ELSE Nothing
          /\ unused = Streams \ shared
          /\ stream = [t \in Streams |->
                          NewStream(t, IF t \in shared THEN Subjects(config) ELSE {},
                                    t \in shared /\ source = "new")]
    /\ eventsState = [m \in Subreddits |-> "STOPPED"]
    /\ callback = [m \in Subreddits |-> FALSE]
    /\ listedOnce = FALSE
    /\ doling = <<>>
    /\ pushed = [i \in Items |-> 0]
    /\ existing = {} /\ due = {} /\ fresh = TRUE

Poll(c) ==
    \/ PollBegins(c)
    \/ PollAnswered(c)
    \/ PollFails(c)
    \/ PollRetried(c)
    \/ GiveUp(c)

Manager(m) ==
    \/ \E shared \in BOOLEAN : UpdateConfig(m, shared)
    \/ StartEvents(m)
    \/ \E state \in {"PAUSED", "STOPPED"} : EndEvents(m, state)

Next ==
    \/ \E m \in Subreddits : ItemPosted(m) \/ Manager(m)
    \/ \E i \in Items : ItemDelisted(i) \/ ItemReported(i)
    \/ \E c \in Chains : Poll(c)
    \/ DoleOutNext
    \/ RunSharedStreams
    \/ HardLimit

Spec == Init /\ [][Next]_vars

\* Timers fire, calls end, and heartbeats go on.
Fairness ==
    /\ \A c \in Chains :
        /\ WF_vars(PollBegins(c))
        /\ WF_vars(PollRetried(c) \/ GiveUp(c))
        /\ SF_vars(PollAnswered(c))
    /\ SF_vars(RunSharedStreams)

FairSpec == Spec /\ Fairness

-----------------------------------------------------------------------------
(* Properties *)

\* Whoever runs with a config that shares the source has a callback, and only
\* a config that shares it leaves one behind: buildPolling sets callbacks only
\* if the bot has made the stream before.
CallbacksFollowConfigs ==
    \A m \in Subreddits :
        eventsState[m] = "RUNNING" /\ modStream # Nothing => (callback[m] <=> config[m])

\* The stream has one polling chain, and none while it does not run, although
\* it is replaced and four operations start and end it.
OneChain ==
    /\ \A c \in Chains : Active(c) => chain[c].stream = modStream
    /\ Cardinality({c \in Chains : Active(c) /\ chain[c].pc # "retrying"}) =
           IF modStream # Nothing /\ stream[modStream].running THEN 1 ELSE 0

\* The stream is polled by one chain for those whose configs share it.
StreamFollows == OneChain /\ CallbacksFollowConfigs

\* What was listed when the stream took up a subreddit is not pushed (comment
\* on newStart), whatever the stream goes on with.
NothingOld ==
    [][\A i \in existing : pushed'[i] = pushed[i]]_vars

\* An item listed while its manager listened is on its way to it, also across a
\* replacement of the stream and a retry (sources other than the modqueue).
NothingSkipped ==
    \A i \in due :
        \/ i \in Range(doling)
        \/ \E c \in Chains : Active(c) /\ i \in Range(chain[c].newItems)
        \/ modStream # Nothing /\ i \notin stream[modStream].processed

\* No item is pushed to a manager twice.
NeverPushedTwice ==
    [][\A i \in Items : pushed'[i] # pushed[i] => pushed[i] = 0]_vars

\* What the stream lists reaches the manager it belongs to once, if it is new.
PushedOnceIfNew == NothingOld /\ NeverPushedTwice /\ []NothingSkipped

\* A manager that runs with a shared source does not wait for ever for the
\* stream to be polled: the heartbeat starts what failed or was ended.
EventuallyPolled ==
    \A m \in Subreddits :
        ~<>[](eventsState[m] = "RUNNING" /\ config[m] /\ modStream # Nothing
                /\ \A c \in Chains : ~Active(c))
=============================================================================
