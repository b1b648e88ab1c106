------------------------------- MODULE Polling -------------------------------
(***************************************************************************)
(* How a Manager polls one source with a dedicated stream.                 *)
(*                                                                         *)
(* startEvents, pauseEvents, stopEvents and a config update start, end and *)
(* replace the stream (module Stream) while its polls are in flight; the   *)
(* listener onItem pushes what the stream emits to the firehose as long as *)
(* the manager's events are RUNNING.                                       *)
(***************************************************************************)
EXTENDS Stream

CONSTANTS
    EndInFlight,    \* whether a stream may be ended during a poll or a retry
    FirstFails,     \* whether the first poll of a fresh start may fail
    ConfigUpdates   \* whether the config is updated while events are RUNNING

ASSUME PollingAssumption ==
    /\ {EndInFlight, FirstFails, ConfigUpdates} \subseteq BOOLEAN
    /\ Cardinality(Subreddits) = 1

VARIABLES
    eventsState, \* eventsState.state
    current,     \* the entry of this source in the manager's streams, if any
    unused,      \* stream objects not yet constructed
    pushed,      \* history: how often an item was pushed to the firehose
    existing,    \* history: items listed when polling last began afresh
    due,         \* history: unseen items listed while the stream watches
    updated      \* history: the config was updated since events were started

vars == <<streamVars, eventsState, current, unused, pushed, existing, due, updated>>

historyVars == <<pushed, existing, due, updated>>

TypeOK ==
    /\ StreamTypeOK
    /\ eventsState \in {"RUNNING", "PAUSED", "STOPPED"}
    /\ current \in Streams \cup {Nothing}
    /\ unused \subseteq Streams
    /\ pushed \in [Items -> 0 .. 2]
    /\ existing \subseteq Items
    /\ due \subseteq Items
    /\ updated \in BOOLEAN

Init ==
    /\ StreamInit
    /\ eventsState = "STOPPED"
    /\ current = Nothing
    /\ unused = Streams
    /\ pushed = [i \in Items |-> 0]
    /\ existing = {}
    /\ due = {}
    /\ updated = FALSE

\* A stream may be ended: between its polls only, unless EndInFlight.
MayEnd ==
    EndInFlight \/ current = Nothing
                \/ \A c \in ChainsOf(current) : chain[c].pc = "timer"

Watching == eventsState = "RUNNING" /\ current # Nothing /\ ~stream[current].newStart

-----------------------------------------------------------------------------
(* Reddit *)

ItemPosted ==
    /\ \E r \in Subreddits : Post(r)
    /\ due' = IF Watching THEN due \cup {posted + 1} ELSE due
    /\ UNCHANGED <<eventsState, current, unused, pushed, existing, updated>>

ItemDelisted(i) ==
    /\ Delist(i)
    /\ due' = due \ {i}
    /\ UNCHANGED <<eventsState, current, unused, pushed, existing, updated>>

ItemReported(i) ==
    /\ Report(i)
    /\ due' = IF Watching /\ i \notin stream[current].processed THEN due \cup {i} ELSE due
    /\ UNCHANGED <<eventsState, current, unused, pushed, existing, updated>>

-----------------------------------------------------------------------------
(* The stream *)

\* onItem: the listener of every stream the manager ever built.
OnItems(items) ==
    /\ pushed' = IF eventsState = "RUNNING"
                 THEN [i \in Items |-> IF i \in Range(items) /\ pushed[i] < 2
                                       THEN pushed[i] + 1 ELSE pushed[i]]
                 ELSE pushed
    /\ due' = IF eventsState = "RUNNING" THEN due \ Range(items) ELSE due

PollBegins(c) ==
    /\ Fire(c)
    /\ UNCHANGED <<eventsState, current, unused, historyVars>>

PollAnswered(c) ==
    /\ Awaits(c)
    /\ \E batch \in {Batch(c)} : Receive(c, batch) /\ OnItems(Emissions(c, batch))
    /\ UNCHANGED <<eventsState, current, unused, existing, updated>>

PollFails(c) ==
    /\ Fail(c)
    /\ FirstFails \/ ~stream[chain[c].stream].newStart
    /\ UNCHANGED <<eventsState, current, unused, historyVars>>

\* pollingRetryHandler allows a retry.
PollRetried(c) ==
    /\ Retry(c)
    /\ UNCHANGED <<eventsState, current, unused, historyVars>>

-----------------------------------------------------------------------------
(* The manager *)

\* A timer for stream s, in a free slot of the chains.
NewTimer(s, chains, fields, newStart) ==
    \E c \in Chains :
        /\ chains[c] = Nothing
        /\ chain' = [chains EXCEPT ![c] = Timer(s)]
        /\ stream' = [stream EXCEPT ![s] = Started(fields, c, newStart)]

\* The items a stream starts with are those listed now.
BeginsAfresh(s) ==
    existing' = IF stream[s].newStart THEN Range(listing) ELSE existing

\* A stream that buildPolling makes for the manager's own subreddit.
Dedicated(s) == NewStream(s, Subreddits, FALSE)

\* startEvents: a stopped manager builds its polling first.
StartEvents ==
    /\ eventsState # "RUNNING"
    /\ eventsState' = "RUNNING"
    /\ IF eventsState = "STOPPED"
       THEN \E s \in unused :
                /\ current' = s
                /\ unused' = unused \ {s}
                /\ NewTimer(s, chain, Dedicated(s), TRUE)
                /\ BeginsAfresh(s)
       ELSE IF current = Nothing
       THEN UNCHANGED <<current, unused, chain, stream, existing>>
       ELSE /\ NewTimer(current, chain, stream[current], stream[current].newStart)
            /\ BeginsAfresh(current)
            /\ UNCHANGED <<current, unused>>
    /\ updated' = FALSE
    /\ UNCHANGED <<source, posted, home, listing, pushed, due>>

\* end() of the manager's stream
EndStream(chains) ==
    IF current = Nothing THEN chain' = chains /\ UNCHANGED stream
    ELSE /\ chain' = TimerCleared(chains, current)
         /\ stream' = [stream EXCEPT ![current] = Ended(@)]

PauseEvents ==
    /\ eventsState = "RUNNING"
    /\ MayEnd
    /\ eventsState' = "PAUSED"
    /\ EndStream(chain)
    /\ due' = {}
    /\ UNCHANGED <<source, posted, home, listing, current, unused, pushed, existing, updated>>

\* stopEvents forgets the stream.
StopEventsWith(chains) ==
    /\ eventsState' = "STOPPED"
    /\ IF eventsState = "STOPPED" THEN chain' = chains /\ UNCHANGED <<stream, current>>
       ELSE EndStream(chains) /\ current' = Nothing
    /\ due' = {}
    /\ UNCHANGED <<source, posted, home, listing, unused, pushed, existing, updated>>

StopEvents ==
    /\ eventsState # "STOPPED"
    /\ MayEnd
    /\ StopEventsWith(chain)

\* pollingRetryHandler allows no retry: the error listener stops the manager.
GiveUp(c) ==
    /\ Active(c) /\ chain[c].pc = "retrying"
    /\ StopEventsWith([chain EXCEPT ![c] = Nothing])

\* buildPolling on a config update: a new stream, which knows nothing of what
\* the old one processed, replaces it; it is started since it does not run.
Replace(s) ==
    /\ unused' = unused \ {s}
    /\ current' = s
    /\ LET cleared == IF current = Nothing THEN chain ELSE TimerCleared(chain, current)
       IN \E c \in Chains :
              /\ cleared[c] = Nothing
              /\ chain' = [cleared EXCEPT ![c] = Timer(s)]
              /\ stream' = [t \in Streams |->
                     IF t = s THEN Started(Dedicated(s), c, TRUE)
                     ELSE IF t = current THEN Ended(stream[t]) ELSE stream[t]]

UpdatePolling ==
    /\ ConfigUpdates
    /\ eventsState = "RUNNING"
    /\ MayEnd
    /\ \E s \in unused : Replace(s) /\ existing' = Range(listing) \ due
    /\ updated' = TRUE
    /\ UNCHANGED <<source, posted, home, listing, eventsState, pushed, due>>

\* The updated config does not poll the source any more.
DropPolling ==
    /\ ConfigUpdates
    /\ eventsState = "RUNNING"
    /\ current # Nothing
    /\ MayEnd
    /\ EndStream(chain)
    /\ current' = Nothing
    /\ due' = {}
    /\ UNCHANGED <<source, posted, home, listing, eventsState, unused, pushed, existing, updated>>

-----------------------------------------------------------------------------
(* The specification *)

Reddit ==
    \/ ItemPosted
    \/ \E i \in Items : ItemDelisted(i) \/ ItemReported(i)

Poll(c) ==
    \/ PollBegins(c)
    \/ PollAnswered(c)
    \/ PollFails(c)
    \/ PollRetried(c)
    \/ GiveUp(c)

Events ==
    \/ StartEvents
    \/ PauseEvents
    \/ StopEvents
    \/ UpdatePolling
    \/ DropPolling

Next ==
    \/ Reddit
    \/ \E c \in Chains : Poll(c)
    \/ Events

Spec == Init /\ [][Next]_vars

\* Timers fire, calls to Reddit end and error listeners come to a decision.
\* A chain that polls again and again succeeds at last: the retry handler
\* gives up after a few failures in a row.
Fairness ==
    \A c \in Chains :
        /\ WF_vars(PollBegins(c))
        /\ WF_vars(PollRetried(c) \/ GiveUp(c))
        /\ WF_vars(PollAnswered(c) \/ PollFails(c))
        /\ SF_vars(PollAnswered(c))

FairSpec == Spec /\ Fairness

-----------------------------------------------------------------------------
(* Properties *)

\* While events are RUNNING the source has exactly one polling chain, and none
\* otherwise: a source is neither polled twice nor silently not at all.
OneChain ==
    /\ \A c \in Chains : Active(c) => chain[c].stream = current
    /\ Cardinality({c \in Chains : Active(c)}) =
           IF eventsState = "RUNNING" /\ current # Nothing THEN 1 ELSE 0

\* No poll begins unless events are RUNNING (tooltip of the Events' controls in
\* status.ejs: pausing or stopping events causes polling to stop).
NoPollUnlessRunning ==
    [][\A c \in Chains :
          Active(c) /\ chain[c].pc = "timer" /\ chain'[c] # Nothing /\ chain'[c].pc = "get"
              => eventsState = "RUNNING"]_vars

\* Nothing that was listed when polling began afresh is pushed (comment on
\* newStart: these items existed before polling started); the modqueue cannot
\* tell, since it has no cutoff date.
NothingOld ==
    [][\A i \in existing : UseDateCutoff => pushed'[i] = pushed[i]]_vars

\* An item that was listed while the stream watched is not skipped: it has been
\* pushed, or the stream in use has not seen it yet (comment on processed: a
\* stream continues from where the previous one left off).
NothingSkipped ==
    \A i \in due : current # Nothing /\ i \notin stream[current].processed

\* The same as long as the config is not updated.
NothingSkippedUnlessUpdated == ~updated => NothingSkipped

\* No item of a source with a cutoff date is pushed twice, however often the
\* polling is stopped, rebuilt and started.
NeverPushedTwice ==
    [][\A i \in Items : UseDateCutoff /\ pushed'[i] # pushed[i] => pushed[i] = 0]_vars

\* What a source lists reaches its manager once, if it is new: what came before
\* the polling never, the rest not twice, and nothing is passed over while the
\* config stays as it is.
PushedOnceIfNew == NothingOld /\ NeverPushedTwice /\ []NothingSkippedUnlessUpdated

\* What appears while the stream watches and stays on the first page of the
\* listing is not left waiting for ever.
EventuallyPushed ==
    \A i \in Items : ~<>[](i \in due /\ current # Nothing /\ i \in Range(FirstPage(current)) /\ ~updated)
=============================================================================
