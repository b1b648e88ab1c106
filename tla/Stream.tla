-------------------------------- MODULE Stream --------------------------------
(***************************************************************************)
(* SPoll: a stream that polls one of Reddit's listings and emits what is   *)
(* new in it.                                                              *)
(*                                                                         *)
(* A stream object re-arms a timer after every successful poll; the timer, *)
(* the poll it fires and the listener that handles the poll's error follow *)
(* one another, so that they are one CHAIN here.  Nothing in the object    *)
(* keeps two chains apart: it remembers only the last timer it created.    *)
(*                                                                         *)
(* Items are numbered in the order of their creation, and an item's number *)
(* stands for created_utc.                                                 *)
(***************************************************************************)
EXTENDS Naturals, Sequences, FiniteSets, SequencesExt

CONSTANTS
    Streams,            \* stream objects
    Chains,             \* polling chains
    Nothing,            \* "none": a model value
    MaxItem,            \* bound: items created on Reddit
    PageSize,           \* items that one call to Reddit's API returns
    Subreddits,         \* subreddits that items belong to
    Sources             \* what is polled: "new" stands for submissions and comments

ASSUME StreamAssumption ==
    /\ Nothing \notin Streams \cup Chains
    /\ IsFiniteSet(Chains)
    /\ MaxItem \in Nat
    /\ PageSize \in Nat \ {0}
    /\ Subreddits # {}
    /\ Sources \subseteq {"new", "unmoderated", "modqueue"}

VARIABLES
    source,   \* what is polled
    posted,   \* number of items created so far
    home,     \* home[i]: the subreddit of an item
    listing,  \* what Reddit lists, the newest entry first
    stream,   \* stream[s]: the fields of s
    chain     \* chain[c]: what the chain is doing

streamVars == <<source, posted, home, listing, stream, chain>>

Items == 1 .. MaxItem

\* dateCutoff 0 stands for undefined; interval is the last timer created; set
\* is the stream whose constructor made the Set processed, which streams share.
StreamFields == [subreddits : SUBSET Subreddits, enforceContinuity : BOOLEAN,
                 running : BOOLEAN, newStart : BOOLEAN, dateCutoff : 0 .. MaxItem + 1,
                 set : Streams, processed : SUBSET Items, interval : Chains \cup {Nothing}]

\* A chain waits for its timer, for the first or a further page of a poll (with
\* the pages it has and the new items in them), or for the error's listener.
Chain == [stream : Streams, pc : {"timer", "get", "more", "retrying"},
          batch : Seq(Items), newItems : Seq(Items)]

ASSUME NothingAssumption == Nothing \notin Chain

StreamTypeOK ==
    /\ source \in Sources
    /\ posted \in 0 .. MaxItem
    /\ home \in [Items -> Subreddits]
    /\ listing \in Seq(Items)
    /\ stream \in [Streams -> StreamFields]
    /\ chain \in [Chains -> Chain \cup {Nothing}]

\* Stream s as its constructor leaves it, without processed items.
NewStream(s, subreddits, enforceContinuity) ==
    [subreddits |-> subreddits, enforceContinuity |-> enforceContinuity,
     running |-> FALSE, newStart |-> TRUE, dateCutoff |-> 0,
     set |-> s, processed |-> {}, interval |-> Nothing]

RedditInit ==
    /\ source \in Sources
    /\ posted = 0
    /\ home = [i \in Items |-> CHOOSE r \in Subreddits : TRUE]
    /\ listing = <<>>

StreamInit ==
    /\ RedditInit
    /\ stream = [s \in Streams |-> NewStream(s, {}, FALSE)]
    /\ chain = [c \in Chains |-> Nothing]

-----------------------------------------------------------------------------
(* The methods of a stream *)

Active(c) == chain[c] # Nothing

ChainsOf(s) == {c \in Chains : Active(c) /\ chain[c].stream = s}

\* The timer c, created for stream s.
Timer(s) == [stream |-> s, pc |-> "timer", batch |-> <<>>, newItems |-> <<>>]

\* startInterval(newStartState): a new timer, whatever the stream is doing.
\* NewStartState is undefined in most calls, and then newStart stays.
Started(fields, c, newStart) ==
    [fields EXCEPT !.running = TRUE, !.newStart = newStart, !.interval = c]

\* end(): the fields
Ended(fields) ==
    [fields EXCEPT !.running = FALSE, !.newStart = TRUE, !.dateCutoff = 0]

\* Mutant: Poll.end is not called.
TimerNotCleared(chains, s) == chains

\* end(): clearInterval has an effect on the last timer only, and none on it
\* once it has fired.
TimerCleared(chains, s) ==
    LET c == stream[s].interval
    IN IF c # Nothing /\ chains[c] # Nothing /\ chains[c].stream = s /\ chains[c].pc = "timer"
       THEN [chains EXCEPT ![c] = Nothing] ELSE chains

-----------------------------------------------------------------------------
(* Reddit *)

\* The items that are in kept, in their order (SelectSeq for a set: what the
\* proofs say of it, they cannot say of an operator that takes an operator).
Only(items, kept) ==
    LET first[n \in 0 .. Len(items)] ==
            IF n = 0 THEN <<>>
            ELSE IF items[n] \in kept THEN Append(first[n - 1], items[n])
            ELSE first[n - 1]
    IN first[Len(items)]

\* A new submission or comment in subreddit r.
Post(r) ==
    /\ posted < MaxItem
    /\ posted' = posted + 1
    /\ home' = [home EXCEPT ![posted + 1] = r]
    /\ listing' = <<posted + 1>> \o listing
    /\ UNCHANGED <<source, stream, chain>>

\* An item leaves the listing: a moderator dealt with it.
Delist(i) ==
    /\ i \in Range(listing)
    /\ listing' = Only(listing, Items \ {i})
    /\ UNCHANGED <<source, posted, home, stream, chain>>

\* The modqueue lists an old item anew: it was reported.
Report(i) ==
    /\ source = "modqueue"
    /\ i \in 1 .. posted /\ i \notin Range(listing)
    /\ listing' = <<i>> \o listing
    /\ UNCHANGED <<source, posted, home, stream, chain>>

\* What Reddit lists of the subreddits of stream s.
Listed(s) == Only(listing, {i \in Items : home[i] \in stream[s].subreddits})

FirstPage(s) ==
    SubSeq(Listed(s), 1, IF Len(Listed(s)) < PageSize THEN Len(Listed(s)) ELSE PageSize)

\* fetchMore appends the entries that follow the last one to those it has.
WithNextPage(s, batch) ==
    LET all == Listed(s)
        last == CHOOSE k \in DOMAIN all : all[k] = Last(batch)
        upTo == IF last + PageSize > Len(all) THEN Len(all) ELSE last + PageSize
    IN IF Last(batch) \notin Range(all) THEN batch ELSE batch \o SubSeq(all, last + 1, upTo)

\* Listing.isFinished: no further page, as far as Reddit's answer tells.
IsFinished(s, batch) ==
    batch = <<>> \/ Listed(s) = <<>> \/ Last(batch) = Last(Listed(s))

-----------------------------------------------------------------------------
(* A poll *)

\* Mutant: the items are not remembered.
NotRemembered(s, batch) == stream[s].processed

\* The items the stream will not take for new any more.
Remembered(s, batch) == stream[s].processed \cup Range(batch)

UnseenIn(s, batch) == Only(batch, Items \ stream[s].processed)

AnyAlreadySeen(s, batch) ==
    \/ IsFinished(s, batch)
    \/ Range(batch) \cap stream[s].processed # {}

\* Chain c waits for an answer of Reddit.
Awaits(c) == Active(c) /\ chain[c].pc \in {"get", "more"}

\* The pages that the awaited call returns to chain c.
Batch(c) ==
    LET s == chain[c].stream
    IN IF chain[c].pc = "get" THEN FirstPage(s) ELSE WithNextPage(s, chain[c].batch)

NewItems(c, batch) == chain[c].newItems \o UnseenIn(chain[c].stream, batch)

\* Only a stream that enforces continuity and saw nothing it knows reads on.
ReadsOn(c, batch) ==
    LET s == chain[c].stream
    IN stream[s].enforceContinuity /\ ~stream[s].newStart /\ ~AnyAlreadySeen(s, batch)

Newest(items) == CHOOSE i \in Range(items) : \A j \in Range(items) : j <= i

\* All sources but the modqueue use a cutoff date.
UseDateCutoff == source # "modqueue"

\* Mutant: now is taken a tick too late.
CutoffTooLate(s, items) ==
    IF UseDateCutoff /\ stream[s].dateCutoff = 0
    THEN IF items = <<>> THEN posted + 2 ELSE Newest(items)
    ELSE stream[s].dateCutoff

\* The cutoff of a first poll: its newest item, or now if it returns none.
FirstCutoff(s, items) ==
    IF UseDateCutoff /\ stream[s].dateCutoff = 0
    THEN IF items = <<>> THEN posted + 1 ELSE Newest(items)
    ELSE stream[s].dateCutoff

\* Mutant: an item of the cutoff's second is not valid.
AfterCutoffOnly(s, items) ==
    LET cutoff == stream[s].dateCutoff
    IN IF UseDateCutoff /\ cutoff # 0
       THEN Only(items, {i \in Items : i > cutoff}) ELSE items

\* Only items as new as the cutoff, if there is one, are valid.
ValidNewItems(s, items) ==
    LET cutoff == stream[s].dateCutoff
    IN IF UseDateCutoff /\ cutoff # 0
       THEN Only(items, {i \in Items : i >= cutoff}) ELSE items

\* What the poll emits in the step in which c receives its (last) page.
Emissions(c, batch) ==
    LET s == chain[c].stream
    IN IF ReadsOn(c, batch) \/ stream[s].newStart THEN <<>>
       ELSE ValidNewItems(s, NewItems(c, batch))

\* The timer fires.
Fire(c) ==
    /\ Active(c) /\ chain[c].pc = "timer"
    /\ chain' = [chain EXCEPT ![c].pc = "get"]
    /\ UNCHANGED <<source, posted, home, listing, stream>>

\* Reddit answers with batch: the chain asks for another page, or ends the poll,
\* emits and re-arms the timer, whether or not the stream was ended meanwhile.
Receive(c, batch) ==
    /\ LET s == chain[c].stream
           seen == [t \in Streams |->
               IF stream[t].set = stream[s].set
               THEN [stream[t] EXCEPT !.processed = Remembered(s, batch)] ELSE stream[t]]
       IN IF ReadsOn(c, batch)
          THEN /\ chain' = [chain EXCEPT ![c].pc = "more", ![c].batch = batch,
                                         ![c].newItems = NewItems(c, batch)]
               /\ stream' = seen
          ELSE /\ chain' = [chain EXCEPT ![c] = Timer(s)]
               /\ stream' = [seen EXCEPT
                      ![s].dateCutoff = IF stream[s].newStart
                                        THEN FirstCutoff(s, NewItems(c, batch)) ELSE @,
                      ![s].newStart = FALSE,
                      ![s].interval = c]
    /\ UNCHANGED <<source, posted, home, listing>>

\* The call fails: the stream stops, and its error listener runs.
Fail(c) ==
    /\ Awaits(c)
    /\ chain' = [chain EXCEPT ![c] = [Timer(@.stream) EXCEPT !.pc = "retrying"]]
    /\ stream' = [stream EXCEPT ![chain[c].stream].running = FALSE]
    /\ UNCHANGED <<source, posted, home, listing>>

\* The listener retries: startInterval(false), on whatever became of the stream.
Retry(c) ==
    /\ Active(c) /\ chain[c].pc = "retrying"
    /\ LET s == chain[c].stream
       IN /\ chain' = [chain EXCEPT ![c] = Timer(s)]
          /\ stream' = [stream EXCEPT ![s] = Started(@, c, FALSE)]
    /\ UNCHANGED <<source, posted, home, listing>>

=============================================================================
