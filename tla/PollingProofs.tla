----------------------------- MODULE PollingProofs -----------------------------
(***************************************************************************)
(* Theorems about Polling: its type invariant for every choice of the      *)
(* constants; that a source is polled by one chain exactly while events    *)
(* are RUNNING, if its stream is ended between polls only; and that what   *)
(* is listed is pushed once if it is new, if no first poll fails either.   *)
(***************************************************************************)
EXTENDS Polling, StreamProofs, FiniteSetTheorems

(***************************************************************************)
(* The inductive invariants.                                               *)
(***************************************************************************)

\* Whatever polls, polls for the stream in use, which knows it as its last
\* timer: this is why end() clears all there is.  It is inductive if streams
\* are ended between their polls only.
ChainInv ==
    /\ \A c \in Chains : Active(c) =>
           /\ eventsState = "RUNNING" /\ current # Nothing
           /\ chain[c].stream = current /\ stream[current].interval = c
    /\ eventsState = "RUNNING" /\ current # Nothing =>
           stream[current].interval # Nothing /\ Active(stream[current].interval)

\* What is listed and what is processed was posted; without reports the listing
\* keeps the order of the posts.
ListingInv ==
    /\ Range(listing) \subseteq 1 .. posted
    /\ UseDateCutoff => Descending(listing)
    /\ \A s \in Streams : stream[s].processed \subseteq 1 .. posted

\* A dedicated stream reads one page a poll, and has a cutoff exactly from its
\* first poll on; a retry is never that of a first poll.
StreamInv ==
    /\ current # Nothing =>
           /\ stream[current].subreddits = Subreddits
           /\ ~stream[current].enforceContinuity
           /\ UseDateCutoff => (stream[current].newStart <=> stream[current].dateCutoff = 0)
           /\ stream[current].dateCutoff <= posted + 1
           /\ eventsState # "RUNNING" => stream[current].newStart
    /\ \A c \in Chains : Active(c) =>
           /\ chain[c].pc # "more" /\ chain[c].newItems = <<>>
           /\ chain[c].pc = "retrying" => ~stream[current].newStart

\* What must not be pushed any more: what is old, and what has been pushed.
Known == existing \cup {i \in Items : pushed[i] # 0}

\* A stream that watches has processed the known items it is shown, or they are
\* older than its cutoff.
KnownInv ==
    /\ Known \subseteq 1 .. posted
    /\ UseDateCutoff /\ Watching =>
           \A i \in Known \cap Range(listing) :
               i \in stream[current].processed \/ i < stream[current].dateCutoff

\* A stream that watches has yet to process what is due, and its cutoff will let
\* it through.
DueInv ==
    /\ eventsState # "RUNNING" => due = {}
    /\ ~updated => \A i \in due :
           /\ Watching
           /\ i \notin stream[current].processed
           /\ UseDateCutoff => i >= stream[current].dateCutoff

PushInv == ListingInv /\ StreamInv /\ KnownInv /\ DueInv

(***************************************************************************)
(* Type correctness.                                                       *)
(***************************************************************************)

ManagerTypes == TypeOK /\ UNCHANGED <<source, posted, home, listing>>

\* What the listener does keeps the histories in their types.
LEMMA ItemsTypes ==
    ASSUME TypeOK, NEW items, OnItems(items)
    PROVE  pushed' \in [Items -> 0 .. 2] /\ due' \subseteq Items
<1>1. \A i \in Items : pushed[i] < 2 => pushed[i] + 1 \in 0 .. 2
  BY DEF TypeOK
<1> QED
  BY <1>1 DEF TypeOK, OnItems

\* A new timer for a stream, and the end of one.
LEMMA NewTimerTypes ==
    ASSUME ManagerTypes, NEW s \in Streams, NEW chains \in [Chains -> Chain \cup {Nothing}],
           NEW fields \in StreamFields, NEW newStart \in BOOLEAN,
           NewTimer(s, chains, fields, newStart)
    PROVE  StreamTypeOK'
<1>1. PICK c \in Chains :
          /\ chain' = [chains EXCEPT ![c] = Timer(s)]
          /\ stream' = [stream EXCEPT ![s] = Started(fields, c, newStart)]
  BY DEF NewTimer
<1>2. Timer(s) \in Chain /\ Started(fields, c, newStart) \in StreamFields
  BY TimerType, StartedType
<1> QED
  BY <1>1, <1>2 DEF ManagerTypes, TypeOK, StreamTypeOK

LEMMA EndStreamTypes ==
    ASSUME ManagerTypes, NEW chains \in [Chains -> Chain \cup {Nothing}], EndStream(chains)
    PROVE  StreamTypeOK'
<1>1. CASE current = Nothing
  BY <1>1 DEF ManagerTypes, TypeOK, StreamTypeOK, EndStream
<1>2. CASE current # Nothing
  <2>1. current \in Streams
    BY <1>2 DEF ManagerTypes, TypeOK
  <2>2. stream[current] \in StreamFields
    BY <2>1 DEF ManagerTypes, TypeOK, StreamTypeOK
  <2>3. Ended(stream[current]) \in StreamFields
    BY <2>2, EndedType
  <2>4. chain' \in [Chains -> Chain \cup {Nothing}]
    BY <1>2, ClearedTypes DEF EndStream
  <2>5. stream' = [stream EXCEPT ![current] = Ended(stream[current])]
    BY <1>2 DEF EndStream
  <2> QED BY <2>1, <2>3, <2>4, <2>5 DEF ManagerTypes, TypeOK, StreamTypeOK
<1> QED
  BY <1>1, <1>2

LEMMA StopTypes ==
    ASSUME TypeOK, NEW chains \in [Chains -> Chain \cup {Nothing}], StopEventsWith(chains)
    PROVE  TypeOK'
<1>1. ManagerTypes
  BY DEF ManagerTypes, StopEventsWith
<1>2. CASE eventsState = "STOPPED"
  <2>1. StreamTypeOK'
    BY <1>2 DEF TypeOK, StreamTypeOK, StopEventsWith
  <2> QED BY <1>2, <2>1 DEF TypeOK, StopEventsWith
<1>3. CASE eventsState # "STOPPED"
  <2>1. StreamTypeOK'
    BY <1>1, <1>3, EndStreamTypes DEF StopEventsWith
  <2> QED BY <1>3, <2>1 DEF TypeOK, StopEventsWith
<1> QED
  BY <1>2, <1>3

LEMMA DedicatedType ==
    ASSUME NEW s \in Streams
    PROVE  /\ Dedicated(s) \in StreamFields
           /\ Dedicated(s).subreddits = Subreddits /\ ~Dedicated(s).enforceContinuity
           /\ Dedicated(s).dateCutoff = 0 /\ Dedicated(s).processed = {}
<1>1. Dedicated(s) \in StreamFields
  BY NewStreamType DEF Dedicated
<1> QED
  BY <1>1 DEF Dedicated, NewStream

LEMMA TypesInit == Init => TypeOK
<1> SUFFICES ASSUME Init PROVE TypeOK
  OBVIOUS
<1>1. \A s \in Streams : NewStream(s, {}, FALSE) \in StreamFields
  BY NewStreamType
<1>2. StreamTypeOK
  <2>1. posted \in 0 .. MaxItem /\ listing \in Seq(Items)
    BY StreamAssumption DEF Init, StreamInit, RedditInit
  <2>2. home \in [Items -> Subreddits]
    BY StreamAssumption DEF Init, StreamInit, RedditInit
  <2>3. stream \in [Streams -> StreamFields]
    BY <1>1 DEF Init, StreamInit
  <2> QED BY <2>1, <2>2, <2>3 DEF Init, StreamInit, RedditInit, StreamTypeOK
<1>3. pushed \in [Items -> 0 .. 2]
  BY DEF Init
<1>4. /\ eventsState = "STOPPED" /\ current = Nothing /\ unused = Streams
      /\ existing = {} /\ due = {} /\ updated = FALSE
  BY DEF Init
<1> QED
  BY <1>2, <1>3, <1>4 DEF TypeOK

\* The cases of a step.
LEMMA TypesStep == TypeOK /\ [Next]_vars => TypeOK'
<1> SUFFICES ASSUME TypeOK, [Next]_vars PROVE TypeOK'
  OBVIOUS
<1> USE DEF TypeOK
<1>1. CASE ItemPosted
  <2>1. StreamTypeOK'
    BY <1>1, PostTypes DEF ItemPosted
  <2>2. posted + 1 \in Items
    BY <1>1, StreamAssumption DEF ItemPosted, Post, StreamTypeOK, Items
  <2> QED BY <1>1, <2>1, <2>2 DEF ItemPosted
<1>2. ASSUME NEW i \in Items, ItemDelisted(i) PROVE TypeOK'
  BY <1>2, DelistTypes DEF ItemDelisted
<1>3. ASSUME NEW i \in Items, ItemReported(i) PROVE TypeOK'
  BY <1>3, ReportTypes DEF ItemReported
<1>4. ASSUME NEW c \in Chains, PollBegins(c) PROVE TypeOK'
  BY <1>4, FireTypes DEF PollBegins, historyVars
<1>5. ASSUME NEW c \in Chains, PollAnswered(c) PROVE TypeOK'
  <2>1. Batch(c) \in Seq(Items)
    BY <1>5, BatchType DEF PollAnswered, Awaits
  <2>2. StreamTypeOK'
    BY <1>5, <2>1, ReceiveTypes DEF PollAnswered
  <2>3. pushed' \in [Items -> 0 .. 2] /\ due' \subseteq Items
    BY <1>5, ItemsTypes DEF PollAnswered
  <2> QED BY <1>5, <2>2, <2>3 DEF PollAnswered
<1>6. ASSUME NEW c \in Chains, PollFails(c) PROVE TypeOK'
  BY <1>6, FailTypes DEF PollFails, historyVars
<1>7. ASSUME NEW c \in Chains, PollRetried(c) PROVE TypeOK'
  BY <1>7, RetryTypes DEF PollRetried, historyVars
<1>8. ASSUME NEW c \in Chains, GiveUp(c) PROVE TypeOK'
  <2>1. [chain EXCEPT ![c] = Nothing] \in [Chains -> Chain \cup {Nothing}]
    BY DEF StreamTypeOK
  <2> QED BY <1>8, <2>1, StopTypes DEF GiveUp
<1>9. CASE StartEvents
  <2>1. ManagerTypes
    BY <1>9 DEF ManagerTypes, StartEvents
  <2>2. Range(listing) \subseteq Items
    BY RangeOfSeq DEF StreamTypeOK
  <2>3. CASE eventsState = "STOPPED"
    <3>1. PICK s \in unused :
              /\ current' = s
              /\ unused' = unused \ {s}
              /\ NewTimer(s, chain, Dedicated(s), TRUE)
              /\ BeginsAfresh(s)
      BY <1>9, <2>3 DEF StartEvents
    <3>2. StreamTypeOK'
      <4>1. s \in Streams /\ chain \in [Chains -> Chain \cup {Nothing}]
        BY DEF StreamTypeOK
      <4> QED BY <2>1, <3>1, <4>1, NewTimerTypes, DedicatedType
    <3> QED BY <1>9, <2>2, <3>1, <3>2 DEF StartEvents, BeginsAfresh
  <2>4. CASE eventsState # "STOPPED" /\ current = Nothing
    BY <1>9, <2>4 DEF StartEvents, StreamTypeOK
  <2>5. CASE eventsState # "STOPPED" /\ current # Nothing
    <3>1. /\ NewTimer(current, chain, stream[current], stream[current].newStart)
          /\ BeginsAfresh(current)
          /\ UNCHANGED <<current, unused>>
      BY <1>9, <2>5 DEF StartEvents
    <3>2. current \in Streams /\ chain \in [Chains -> Chain \cup {Nothing}]
      BY <2>5 DEF StreamTypeOK
    <3>3. stream[current] \in StreamFields
      BY <3>2 DEF StreamTypeOK
    <3>4. stream[current].newStart \in BOOLEAN
      BY <3>3 DEF StreamFields
    <3>5. StreamTypeOK'
      BY <2>1, <3>1, <3>2, <3>3, <3>4, NewTimerTypes
    <3> QED BY <1>9, <2>2, <3>1, <3>5 DEF StartEvents, BeginsAfresh
  <2> QED BY <2>3, <2>4, <2>5
<1>10. CASE PauseEvents
  <2>1. StreamTypeOK'
    BY <1>10, EndStreamTypes DEF PauseEvents, ManagerTypes, StreamTypeOK
  <2> QED BY <1>10, <2>1 DEF PauseEvents
<1>11. CASE StopEvents
  BY <1>11, StopTypes DEF StopEvents, StreamTypeOK
<1>12. CASE UpdatePolling
  <2>1. PICK s \in unused : Replace(s) /\ existing' = Range(listing) \ due
    BY <1>12 DEF UpdatePolling
  <2> DEFINE cleared == IF current = Nothing THEN chain ELSE TimerCleared(chain, current)
  <2>2. PICK c \in Chains :
            /\ chain' = [cleared EXCEPT ![c] = Timer(s)]
            /\ stream' = [t \in Streams |->
                   IF t = s THEN Started(Dedicated(s), c, TRUE)
                   ELSE IF t = current THEN Ended(stream[t]) ELSE stream[t]]
    BY <2>1 DEF Replace
  <2>3. s \in Streams /\ cleared \in [Chains -> Chain \cup {Nothing}]
    BY ClearedTypes DEF StreamTypeOK
  <2>4. chain' \in [Chains -> Chain \cup {Nothing}]
    <3> HIDE DEF cleared
    <3> QED BY <2>2, <2>3, TimerType
  <2>5. Started(Dedicated(s), c, TRUE) \in StreamFields
    BY <2>3, DedicatedType, StartedType
  <2>6. \A t \in Streams : Ended(stream[t]) \in StreamFields
    BY EndedType DEF StreamTypeOK
  <2>7. stream' \in [Streams -> StreamFields]
    BY <2>2, <2>5, <2>6 DEF StreamTypeOK
  <2>8. Range(listing) \subseteq Items
    BY RangeOfSeq DEF StreamTypeOK
  <2> QED BY <1>12, <2>1, <2>3, <2>4, <2>7, <2>8 DEF UpdatePolling, Replace, StreamTypeOK
<1>13. CASE DropPolling
  <2>1. StreamTypeOK'
    BY <1>13, EndStreamTypes DEF DropPolling, ManagerTypes, StreamTypeOK
  <2> QED BY <1>13, <2>1 DEF DropPolling
<1>14. CASE UNCHANGED vars
  BY <1>14 DEF vars, streamVars, StreamTypeOK
<1> QED
  BY <1>1, <1>2, <1>3, <1>4, <1>5, <1>6, <1>7, <1>8, <1>9, <1>10, <1>11, <1>12, <1>13, <1>14
  DEF Next, Reddit, Poll, Events

\* Every variable keeps its type, whenever a stream is ended and whatever fails.
THEOREM PollingTypes == Spec => []TypeOK
BY TypesInit, TypesStep, PTL DEF Spec

(***************************************************************************)
(* One chain.                                                              *)
(***************************************************************************)

\* At most one chain is active, and none unless events are RUNNING.
LEMMA OnlyInterval ==
    ASSUME ChainInv, NEW c \in Chains, Active(c)
    PROVE  eventsState = "RUNNING" /\ current # Nothing /\ c = stream[current].interval
BY DEF ChainInv

\* end() between polls leaves no chain.
LEMMA EndingClears ==
    ASSUME TypeOK, ChainInv, ~EndInFlight, MayEnd, current # Nothing, NEW c \in Chains
    PROVE  TimerCleared(chain, current)[c] = Nothing
<1> DEFINE d == stream[current].interval
<1>1. chain \in [Chains -> Chain \cup {Nothing}]
  BY DEF TypeOK, StreamTypeOK
<1>2. CASE Active(c)
  <2>1. c = d /\ chain[c].stream = current /\ c # Nothing /\ chain[c] # Nothing
    BY <1>2, OnlyInterval, StreamAssumption DEF ChainInv, Active
  <2>2. chain[c].pc = "timer"
    BY <1>2, <2>1 DEF MayEnd, ChainsOf
  <2>3. TimerCleared(chain, current) = [chain EXCEPT ![c] = Nothing]
    BY <2>1, <2>2 DEF TimerCleared
  <2> QED BY <1>1, <2>3
<1>3. CASE ~Active(c)
  BY <1>1, <1>3 DEF TimerCleared, Active
<1> QED
  BY <1>2, <1>3

\* Where nothing is active, one new timer makes one chain.
LEMMA NewTimerMakesOne ==
    ASSUME TypeOK, NEW s \in Streams, NEW chains \in [Chains -> Chain \cup {Nothing}],
           \A c \in Chains : chains[c] = Nothing,
           NEW fields \in StreamFields, NEW newStart,
           NewTimer(s, chains, fields, newStart),
           eventsState' = "RUNNING", current' = s
    PROVE  ChainInv'
<1>1. PICK c \in Chains :
          /\ chain' = [chains EXCEPT ![c] = Timer(s)]
          /\ stream' = [stream EXCEPT ![s] = Started(fields, c, newStart)]
  BY DEF NewTimer
<1>2. stream'[s].interval = c
  <2>1. stream'[s] = Started(fields, c, newStart)
    BY <1>1 DEF TypeOK, StreamTypeOK
  <2> QED BY <2>1 DEF Started, StreamFields
<1>3. chain'[c] = Timer(s) /\ \A d \in Chains \ {c} : chain'[d] = Nothing
  BY <1>1
<1>4. c # Nothing /\ s # Nothing
  BY StreamAssumption
<1> QED
  BY <1>2, <1>3, <1>4, TimerType DEF ChainInv, Active

\* Where nothing is active and nothing should be, all is well.
LEMMA NoneNeeded ==
    ASSUME \A c \in Chains : chain'[c] = Nothing,
           eventsState' # "RUNNING" \/ current' = Nothing
    PROVE  ChainInv'
BY DEF ChainInv, Active

\* A chain that goes on as the last timer of its stream stays the only one.
LEMMA GoesOn ==
    ASSUME ChainInv, NEW c \in Chains, Active(c),
           Active(c)', chain'[c].stream = chain[c].stream,
           \A d \in Chains \ {c} : chain'[d] = chain[d],
           stream'[current].interval = c,
           UNCHANGED <<eventsState, current>>
    PROVE  ChainInv'
<1>1. /\ eventsState' = "RUNNING" /\ current' # Nothing
      /\ chain'[c].stream = current' /\ stream'[current'].interval = c
      /\ c # Nothing
  BY StreamAssumption DEF ChainInv
<1>2. \A d \in Chains \ {c} : ~Active(d)'
  BY OnlyInterval DEF Active
<1> QED
  BY <1>1, <1>2 DEF ChainInv

\* What the steps of the chains that go on do to chains and streams.
LEMMA FireGoesOn ==
    ASSUME TypeOK, NEW c \in Chains, Fire(c)
    PROVE  /\ Active(c) /\ Active(c)' /\ chain'[c].stream = chain[c].stream
           /\ chain[c].pc = "timer" /\ chain'[c].pc = "get"
           /\ chain'[c].newItems = chain[c].newItems
           /\ \A d \in Chains \ {c} : chain'[d] = chain[d]
           /\ stream' = stream
<1>1. Active(c) /\ chain[c].pc = "timer" /\ stream' = stream
  BY DEF Fire
<1>2. chain[c] \in Chain
  BY <1>1 DEF TypeOK, StreamTypeOK, Active
<1>3. chain' = [chain EXCEPT ![c] = [chain[c] EXCEPT !.pc = "get"]]
  BY <1>2 DEF Fire, Chain
<1>4. [chain[c] EXCEPT !.pc = "get"] \in Chain
  BY <1>2 DEF Chain
<1>5. chain'[c] = [chain[c] EXCEPT !.pc = "get"]
  BY <1>3 DEF TypeOK, StreamTypeOK
<1>6. \A d \in Chains \ {c} : chain'[d] = chain[d]
  BY <1>3 DEF TypeOK, StreamTypeOK
<1> QED
  BY <1>1, <1>2, <1>4, <1>5, <1>6, NothingAssumption DEF Chain, Active

LEMMA FailGoesOn ==
    ASSUME TypeOK, NEW c \in Chains, Fail(c)
    PROVE  LET s == chain[c].stream
           IN /\ Active(c) /\ Active(c)' /\ chain'[c].stream = s /\ s \in Streams
              /\ chain[c].pc \in {"get", "more"} /\ chain'[c].pc = "retrying"
              /\ chain'[c].newItems = <<>>
              /\ \A d \in Chains \ {c} : chain'[d] = chain[d]
              /\ stream' = [stream EXCEPT ![s] = [stream[s] EXCEPT !.running = FALSE]]
<1> DEFINE s == chain[c].stream
<1>1. Active(c) /\ chain[c].pc \in {"get", "more"} /\ chain[c] \in Chain
  BY DEF Fail, Awaits, TypeOK, StreamTypeOK, Active
<1>2. s \in Streams
  BY <1>1 DEF Chain
<1>3. [Timer(s) EXCEPT !.pc = "retrying"] \in Chain
  BY <1>2, TimerType DEF Chain
<1>4. chain' = [chain EXCEPT ![c] = [Timer(s) EXCEPT !.pc = "retrying"]]
  BY DEF Fail
<1>5. chain'[c] = [Timer(s) EXCEPT !.pc = "retrying"]
  BY <1>4 DEF TypeOK, StreamTypeOK
<1>6. \A d \in Chains \ {c} : chain'[d] = chain[d]
  BY <1>4 DEF TypeOK, StreamTypeOK
<1>7. stream' = [stream EXCEPT ![s] = [stream[s] EXCEPT !.running = FALSE]]
  BY <1>2 DEF Fail, TypeOK, StreamTypeOK
<1>8. chain'[c].stream = s /\ chain'[c].pc = "retrying" /\ chain'[c].newItems = <<>>
  BY <1>5 DEF Timer
<1> QED
  BY <1>1, <1>2, <1>3, <1>5, <1>6, <1>7, <1>8, NothingAssumption DEF Active

LEMMA RetryGoesOn ==
    ASSUME TypeOK, NEW c \in Chains, Retry(c)
    PROVE  LET s == chain[c].stream
           IN /\ Active(c) /\ Active(c)' /\ chain'[c].stream = s /\ s \in Streams
              /\ chain[c].pc = "retrying" /\ chain'[c].pc = "timer"
              /\ chain'[c].newItems = <<>>
              /\ \A d \in Chains \ {c} : chain'[d] = chain[d]
              /\ stream' = [stream EXCEPT ![s] = Started(stream[s], c, FALSE)]
<1> DEFINE s == chain[c].stream
<1>1. Active(c) /\ chain[c].pc = "retrying" /\ chain[c] \in Chain
  BY DEF Retry, TypeOK, StreamTypeOK, Active
<1>2. s \in Streams
  BY <1>1 DEF Chain
<1>3. chain' = [chain EXCEPT ![c] = Timer(s)]
  BY DEF Retry
<1>4. chain'[c] = Timer(s) /\ \A d \in Chains \ {c} : chain'[d] = chain[d]
  BY <1>3 DEF TypeOK, StreamTypeOK
<1>5. stream' = [stream EXCEPT ![s] = Started(stream[s], c, FALSE)]
  BY DEF Retry
<1> QED
  BY <1>1, <1>2, <1>4, <1>5, TimerType DEF Active

LEMMA ChainInit == Init => ChainInv
BY DEF Init, StreamInit, ChainInv, Active

\* A stop that finds the chains given leaves none, if end() clears them.
LEMMA StopLeavesNone ==
    ASSUME TypeOK, NEW chains, StopEventsWith(chains),
           \A c \in Chains : eventsState = "STOPPED" => chains[c] = Nothing,
           \A c \in Chains : current = Nothing => chains[c] = Nothing,
           \A c \in Chains : current # Nothing => TimerCleared(chains, current)[c] = Nothing
    PROVE  ChainInv'
<1>1. eventsState' = "STOPPED"
  BY DEF StopEventsWith
<1>2. CASE eventsState = "STOPPED"
  BY <1>1, <1>2, NoneNeeded DEF StopEventsWith
<1>3. CASE eventsState # "STOPPED"
  BY <1>1, <1>3, NoneNeeded DEF StopEventsWith, EndStream
<1> QED
  BY <1>2, <1>3

LEMMA ChainStep == TypeOK /\ ChainInv /\ ~EndInFlight /\ [Next]_vars => ChainInv'
<1> SUFFICES ASSUME TypeOK, ChainInv, ~EndInFlight, [Next]_vars PROVE ChainInv'
  OBVIOUS
<1>a. eventsState # "RUNNING" \/ current = Nothing => \A c \in Chains : chain[c] = Nothing
  BY OnlyInterval DEF Active
<1>b. /\ chain \in [Chains -> Chain \cup {Nothing}]
      /\ stream \in [Streams -> StreamFields]
      /\ current # Nothing => current \in Streams
      /\ unused \subseteq Streams
  BY DEF TypeOK, StreamTypeOK
<1>1. CASE UNCHANGED <<chain, stream, eventsState, current>>
  BY <1>1 DEF ChainInv, Active
<1>2. CASE Reddit
  BY <1>1, <1>2 DEF Reddit, ItemPosted, ItemDelisted, ItemReported, Post, Delist, Report
<1>3. ASSUME NEW c \in Chains, PollBegins(c) PROVE ChainInv'
  BY <1>3, FireGoesOn, GoesOn, OnlyInterval DEF PollBegins
<1>4. ASSUME NEW c \in Chains, PollAnswered(c) PROVE ChainInv'
  <2>1. PICK batch \in {Batch(c)} : Receive(c, batch)
    BY <1>4 DEF PollAnswered
  <2>2. /\ Awaits(c) /\ Active(c) /\ UNCHANGED <<eventsState, current>> /\ StreamTypeOK
        /\ batch \in Seq(Items)
    BY <1>4, <2>1, BatchType DEF PollAnswered, Awaits, TypeOK
  <2>3. current \in Streams /\ chain[c].stream = current /\ stream[current].interval = c
    BY <1>b, <2>2 DEF ChainInv
  <2>4. stream'[current].interval = c
    BY <2>1, <2>2, <2>3, ReceiveUpdates
  <2>5. /\ \A d \in Chains \ {c} : chain'[d] = chain[d]
        /\ Active(c)' /\ chain'[c].stream = chain[c].stream
    BY <2>1, <2>2, ReceiveChains
  <2> QED BY <2>2, <2>4, <2>5, GoesOn
<1>5. ASSUME NEW c \in Chains, PollFails(c) PROVE ChainInv'
  <2>1. Fail(c) /\ UNCHANGED <<eventsState, current>>
    BY <1>5 DEF PollFails
  <2>2. Active(c) /\ chain[c].stream = current /\ stream[current].interval = c
    BY <2>1, FailGoesOn DEF ChainInv
  <2>3. stream' = [stream EXCEPT ![current] = [stream[current] EXCEPT !.running = FALSE]]
    BY <2>1, <2>2, FailGoesOn
  <2>4. stream'[current].interval = c
    BY <1>b, <2>2, <2>3 DEF StreamFields, ChainInv
  <2> QED BY <2>1, <2>2, <2>4, FailGoesOn, GoesOn
<1>6. ASSUME NEW c \in Chains, PollRetried(c) PROVE ChainInv'
  <2>1. Retry(c) /\ UNCHANGED <<eventsState, current>>
    BY <1>6 DEF PollRetried
  <2>2. Active(c) /\ chain[c].stream = current /\ current \in Streams
    BY <1>b, <2>1, RetryGoesOn DEF ChainInv
  <2>3. stream' = [stream EXCEPT ![current] = Started(stream[current], c, FALSE)]
    BY <2>1, <2>2, RetryGoesOn
  <2>4. stream'[current].interval = c
    BY <1>b, <2>2, <2>3 DEF StreamFields, Started
  <2> QED BY <2>1, <2>2, <2>4, RetryGoesOn, GoesOn
<1>7. ASSUME NEW c \in Chains, GiveUp(c) PROVE ChainInv'
  <2> DEFINE chains == [chain EXCEPT ![c] = Nothing]
  <2>1. Active(c) /\ StopEventsWith(chains)
    BY <1>7 DEF GiveUp
  <2>2. \A d \in Chains : chains[d] = Nothing
    BY <1>b, <2>1, OnlyInterval DEF Active
  <2>3. current # Nothing => TimerCleared(chains, current) = chains
    BY <2>2, StreamAssumption, <1>b DEF TimerCleared, StreamFields
  <2> HIDE DEF chains
  <2> QED BY <2>1, <2>2, <2>3, StopLeavesNone
<1>8. CASE StartEvents
  <2>1. eventsState # "RUNNING" /\ eventsState' = "RUNNING"
    BY <1>8 DEF StartEvents
  <2>2. CASE eventsState = "STOPPED"
    <3>1. PICK s \in unused : current' = s /\ NewTimer(s, chain, Dedicated(s), TRUE)
      BY <1>8, <2>2 DEF StartEvents
    <3> QED BY <1>a, <1>b, <2>1, <3>1, DedicatedType, NewTimerMakesOne
  <2>3. CASE eventsState # "STOPPED" /\ current = Nothing
    <3>1. UNCHANGED <<current, chain>>
      BY <1>8, <2>3 DEF StartEvents
    <3> QED BY <1>a, <2>3, <3>1, NoneNeeded
  <2>4. CASE eventsState # "STOPPED" /\ current # Nothing
    <3>1. /\ NewTimer(current, chain, stream[current], stream[current].newStart)
          /\ current' = current
      BY <1>8, <2>4 DEF StartEvents
    <3>2. stream[current] \in StreamFields /\ current \in Streams
      BY <1>b, <2>4
    <3> QED BY <1>a, <1>b, <2>1, <3>1, <3>2, NewTimerMakesOne
  <2> QED BY <2>2, <2>3, <2>4
<1>9. CASE PauseEvents
  <2>1. eventsState' = "PAUSED" /\ EndStream(chain) /\ MayEnd
    BY <1>9 DEF PauseEvents
  <2>2. \A c \in Chains : chain'[c] = Nothing
    BY <1>a, <2>1, EndingClears DEF EndStream
  <2> QED BY <2>1, <2>2, NoneNeeded
<1>10. CASE StopEvents
  <2>1. StopEventsWith(chain) /\ MayEnd
    BY <1>10 DEF StopEvents
  <2> QED BY <1>a, <2>1, EndingClears, StopLeavesNone
<1>11. CASE UpdatePolling
  <2>1. PICK s \in unused : Replace(s)
    BY <1>11 DEF UpdatePolling
  <2>2. /\ MayEnd /\ eventsState' = "RUNNING" /\ s \in Streams
    BY <1>b, <1>11 DEF UpdatePolling
  <2> DEFINE cleared == IF current = Nothing THEN chain ELSE TimerCleared(chain, current)
  <2>3. PICK c \in Chains :
            /\ chain' = [cleared EXCEPT ![c] = Timer(s)]
            /\ stream' = [t \in Streams |->
                   IF t = s THEN Started(Dedicated(s), c, TRUE)
                   ELSE IF t = current THEN Ended(stream[t]) ELSE stream[t]]
    BY <2>1 DEF Replace
  <2>4. \A d \in Chains : cleared[d] = Nothing
    BY <1>a, <2>2, EndingClears
  <2>5. cleared \in [Chains -> Chain \cup {Nothing}]
    BY <1>b, ClearedTypes
  <2> HIDE DEF cleared
  <2>6. chain'[c] = Timer(s) /\ \A d \in Chains \ {c} : chain'[d] = Nothing
    BY <2>3, <2>4, <2>5
  <2>7. stream'[s].interval = c
    <3>1. stream'[s] = Started(Dedicated(s), c, TRUE)
      BY <2>2, <2>3
    <3> QED BY <2>2, <3>1, DedicatedType DEF Started, StreamFields
  <2>8. current' = s /\ s # Nothing /\ c # Nothing
    BY <2>1, <2>2, StreamAssumption DEF Replace
  <2> QED BY <2>2, <2>6, <2>7, <2>8, TimerType DEF ChainInv, Active
<1>12. CASE DropPolling
  <2>1. current' = Nothing /\ EndStream(chain) /\ MayEnd
    BY <1>12 DEF DropPolling
  <2>2. \A c \in Chains : chain'[c] = Nothing
    BY <1>a, <2>1, EndingClears DEF EndStream
  <2> QED BY <2>1, <2>2, NoneNeeded
<1>13. CASE UNCHANGED vars
  BY <1>1, <1>13 DEF vars, streamVars
<1> QED
  BY <1>2, <1>3, <1>4, <1>5, <1>6, <1>7, <1>8, <1>9, <1>10, <1>11, <1>12, <1>13
  DEF Next, Poll, Events

LEMMA ChainAlways == ~EndInFlight /\ Spec => [](TypeOK /\ ChainInv)
<1> SUFFICES ASSUME ~EndInFlight PROVE Spec => [](TypeOK /\ ChainInv)
  OBVIOUS
<1>1. Init => TypeOK /\ ChainInv
  BY TypesInit, ChainInit
<1>2. TypeOK /\ ChainInv /\ [Next]_vars => (TypeOK /\ ChainInv)'
  BY TypesStep, ChainStep
<1> QED
  BY <1>1, <1>2, PTL DEF Spec

\* One chain is one element.
LEMMA ChainCounts == TypeOK /\ ChainInv => OneChain
<1> SUFFICES ASSUME TypeOK, ChainInv PROVE OneChain
  OBVIOUS
<1> DEFINE active == {c \in Chains : Active(c)}
<1>1. CASE eventsState = "RUNNING" /\ current # Nothing
  <2> DEFINE c == stream[current].interval
  <2>1. c \in Chains
    BY <1>1 DEF TypeOK, StreamTypeOK, StreamFields, ChainInv
  <2>2. active = {c}
    BY <1>1, <2>1 DEF ChainInv
  <2>3. Cardinality(active) = 1
    BY <2>2, FS_Singleton
  <2> QED BY <1>1, <2>3 DEF ChainInv, OneChain
<1>2. CASE ~ (eventsState = "RUNNING" /\ current # Nothing)
  <2>1. active = {}
    BY <1>2 DEF ChainInv
  <2>2. Cardinality(active) = 0
    BY <2>1, FS_EmptySet
  <2> QED BY <1>2, <2>2 DEF ChainInv, OneChain
<1> QED
  BY <1>1, <1>2

\* While events are RUNNING the source has exactly one polling chain and none
\* otherwise, however often startEvents, pauseEvents, stopEvents and config
\* updates follow one another: provided that they end a stream between its
\* polls, which the code does not see to (run polling checks the same bound).
THEOREM PolledByOneChain == ~EndInFlight /\ Spec => []OneChain
BY ChainAlways, ChainCounts, PTL

\* No poll begins unless events are RUNNING, under the same proviso.
THEOREM PollsOnlyRunning == ~EndInFlight /\ Spec => NoPollUnlessRunning
<1>1. TypeOK /\ ChainInv /\ [Next]_vars =>
          [\A c \in Chains :
              Active(c) /\ chain[c].pc = "timer" /\ chain'[c] # Nothing /\ chain'[c].pc = "get"
                  => eventsState = "RUNNING"]_vars
  BY DEF ChainInv
<1> QED
  BY <1>1, ChainAlways, PTL DEF Spec, NoPollUnlessRunning

(***************************************************************************)
(* What is pushed.                                                         *)
(***************************************************************************)

\* What a poll of the stream in use pushes.
Emitted ==
    {i \in Range(FirstPage(current)) \ stream[current].processed :
        /\ ~stream[current].newStart
        /\ UseDateCutoff => i >= stream[current].dateCutoff}

\* Everything that is listed is shown to the stream in use.
LEMMA AllListed ==
    ASSUME TypeOK, StreamInv, current # Nothing
    PROVE  Range(Listed(current)) = Range(listing)
<1>1. Range(listing) \subseteq Items /\ \A i \in Items : home[i] \in Subreddits
  BY RangeOfSeq DEF TypeOK, StreamTypeOK
<1>2. stream[current].subreddits = Subreddits
  BY DEF StreamInv
<1>3. Range(Listed(current)) = {i \in Range(listing) : home[i] \in stream[current].subreddits}
  BY ListedItems DEF TypeOK, StreamTypeOK
<1> QED
  BY <1>1, <1>2, <1>3

\* A poll answered, in terms of the stream in use.
LEMMA Answered ==
    ASSUME TypeOK, ChainInv, ListingInv, StreamInv, NEW c \in Chains, PollAnswered(c)
    PROVE  LET page == FirstPage(current)
               old == stream[current]
               new == stream'[current]
           IN /\ current \in Streams /\ eventsState = "RUNNING" /\ Active(c)
              /\ chain'[c].pc = "timer" /\ chain'[c].newItems = <<>>
              /\ \A d \in Chains \ {c} : chain'[d] = Nothing
              /\ Range(page) \subseteq Range(listing)
              /\ new.subreddits = old.subreddits
              /\ new.enforceContinuity = old.enforceContinuity
              /\ new.processed = old.processed \cup Range(page)
              /\ ~new.newStart
              /\ ~old.newStart \/ ~UseDateCutoff => new.dateCutoff = old.dateCutoff
              /\ UseDateCutoff /\ old.newStart =>
                     /\ new.dateCutoff # 0 /\ new.dateCutoff <= posted + 1
                     /\ \A i \in Range(listing) : i \in new.processed \/ i < new.dateCutoff
              /\ \A t \in Streams : stream'[t].processed \subseteq 1 .. posted
              /\ pushed' = [i \in Items |-> IF i \in Emitted /\ pushed[i] < 2
                                            THEN pushed[i] + 1 ELSE pushed[i]]
              /\ due' = due \ Emitted
<1> DEFINE page == FirstPage(current)
           old == stream[current]
           new == stream'[current]
           items == NewItems(c, page)
<1>1. Awaits(c) /\ Active(c) /\ StreamTypeOK
  BY DEF PollAnswered, Awaits, TypeOK
<1>2. /\ eventsState = "RUNNING" /\ current # Nothing /\ current \in Streams
      /\ chain[c].stream = current
      /\ chain[c].pc = "get" /\ chain[c].newItems = <<>>
      /\ ~stream[current].enforceContinuity
  BY <1>1 DEF ChainInv, StreamInv, Awaits, TypeOK
<1>3. Batch(c) = page /\ page \in Seq(Items)
  BY <1>1, <1>2, FirstPageBegins DEF Batch, StreamTypeOK
<1>4. Receive(c, page) /\ OnItems(Emissions(c, page))
  BY <1>3 DEF PollAnswered
<1>5. ~ReadsOn(c, page)
  BY <1>2 DEF ReadsOn
<1>6. Range(page) \subseteq Range(listing) /\ Range(listing) \subseteq 1 .. posted
  BY <1>1, <1>2, AllListed, FirstPageBegins DEF StreamTypeOK, ListingInv
<1> HIDE DEF page
<1>7. items \in Seq(Items) /\ Range(items) = Range(page) \ old.processed
  <2>1. Range(chain[c].newItems) = {}
    BY <1>2 DEF Range
  <2>2. /\ NewItems(c, page) \in Seq(Items)
        /\ Range(NewItems(c, page)) =
               Range(chain[c].newItems) \cup (Range(page) \ stream[chain[c].stream].processed)
    BY <1>1, <1>3, NewItemsAre
  <2> QED BY <1>2, <2>1, <2>2
<1>8. /\ new.subreddits = old.subreddits
      /\ new.enforceContinuity = old.enforceContinuity
      /\ new.processed = old.processed \cup Range(page)
      /\ ~new.newStart
      /\ new.dateCutoff = IF old.newStart THEN FirstCutoff(current, items) ELSE old.dateCutoff
  BY <1>1, <1>2, <1>3, <1>4, <1>5, ReceiveUpdates
<1>9. chain'[c] = Timer(current) /\ \A d \in Chains \ {c} : chain'[d] = Nothing
  <2>1. chain' = [chain EXCEPT ![c] = Timer(current)]
    BY <1>2, <1>4, <1>5 DEF Receive
  <2>2. \A d \in Chains \ {c} : chain[d] = Nothing
    BY <1>1, OnlyInterval DEF Active
  <2> QED BY <2>1, <2>2 DEF TypeOK, StreamTypeOK
<1>10. \A t \in Streams : stream'[t].processed \subseteq 1 .. posted
  <2> SUFFICES ASSUME NEW t \in Streams PROVE stream'[t].processed \subseteq 1 .. posted
    OBVIOUS
  <2>1. \/ stream'[t].processed = stream[t].processed
        \/ stream'[t].processed = stream[current].processed \cup Range(page)
    BY <1>1, <1>2, <1>3, <1>4, ReceiveRemembers
  <2> QED BY <1>2, <1>6, <2>1 DEF ListingInv
<1>11. Range(Emissions(c, page)) = Emitted
  <2>1. Range(Emissions(c, page)) =
            IF old.newStart THEN {}
            ELSE {i \in Range(items) :
                     UseDateCutoff /\ old.dateCutoff # 0 => i >= old.dateCutoff}
    BY <1>1, <1>2, <1>3, <1>5, EmissionsAre
  <2>2. UseDateCutoff /\ ~old.newStart => old.dateCutoff # 0
    BY <1>2 DEF StreamInv
  <2> QED BY <1>7, <2>1, <2>2 DEF Emitted, page
<1>12. UseDateCutoff /\ old.newStart =>
           /\ new.dateCutoff # 0 /\ new.dateCutoff <= posted + 1
           /\ \A i \in Range(listing) : i \in new.processed \/ i < new.dateCutoff
  <2> SUFFICES ASSUME UseDateCutoff, old.newStart
               PROVE  /\ new.dateCutoff # 0 /\ new.dateCutoff <= posted + 1
                      /\ \A i \in Range(listing) : i \in new.processed \/ i < new.dateCutoff
    OBVIOUS
  <2>1. new.dateCutoff = FirstCutoff(current, items)
    BY <1>8
  <2>2. \A i \in Range(listing) : \/ i \in old.processed \cup Range(page)
                                  \/ i < FirstCutoff(current, items)
    <3>1. stream[current].dateCutoff = 0 /\ Descending(listing)
      BY <1>2 DEF StreamInv, ListingInv
    <3>2. Range(Listed(current)) = Range(listing)
      BY <1>1, <1>2, AllListed
    <3> HIDE DEF items
    <3> QED BY <1>1, <1>2, <1>6, <1>7, <3>1, <3>2, FirstPollCovers DEF page
  <2>3. FirstCutoff(current, items) # 0 /\ FirstCutoff(current, items) <= posted + 1
    <3>1. posted \in Nat /\ \A i \in Range(items) : i \in 1 .. posted
      BY <1>1, <1>6, <1>7, StreamAssumption DEF StreamTypeOK
    <3>2. items # <<>> => Newest(items) \in Range(items)
      BY <1>7, NewestOf
    <3>3. /\ FirstCutoff(current, items) # 0
          /\ FirstCutoff(current, items) = IF items = <<>> THEN posted + 1 ELSE Newest(items)
      <4> HIDE DEF items
      <4> QED BY <1>1, <1>2, <1>7, FirstCutoffIs DEF StreamInv
    <3> HIDE DEF items
    <3> QED BY <3>1, <3>2, <3>3
  <2> QED BY <1>8, <2>1, <2>2, <2>3
<1>13. ~UseDateCutoff => FirstCutoff(current, items) = old.dateCutoff
  BY DEF FirstCutoff
<1>14. /\ pushed' = [i \in Items |-> IF i \in Emitted /\ pushed[i] < 2
                                    THEN pushed[i] + 1 ELSE pushed[i]]
       /\ due' = due \ Emitted
  BY <1>2, <1>4, <1>11 DEF OnItems
<1> QED
  BY <1>1, <1>2, <1>6, <1>8, <1>9, <1>10, <1>12, <1>13, <1>14, TimerType DEF page

LEMMA PushInit == Init => PushInv
<1> SUFFICES ASSUME Init PROVE PushInv
  OBVIOUS
<1>1. ListingInv
  <2>1. listing = <<>> /\ posted = 0 /\ \A s \in Streams : stream[s].processed = {}
    BY DEF Init, StreamInit, RedditInit, NewStream
  <2>2. Range(listing) = {} /\ Descending(listing)
    BY <2>1 DEF Range, Descending
  <2> QED BY <2>1, <2>2 DEF ListingInv
<1>2. StreamInv
  BY DEF Init, StreamInit, StreamInv, Active
<1>3. Known = {} /\ due = {} /\ ~Watching
  BY DEF Init, Known, Watching
<1> QED
  BY <1>1, <1>2, <1>3 DEF PushInv, KnownInv, DueInv

\* A stream that does not watch, with nothing due, leaves nothing to show of
\* what is known or due.
LEMMA NotWatching ==
    ASSUME ListingInv', StreamInv', Known' \subseteq 1 .. posted', ~Watching',
           due' = {} \/ (updated' /\ eventsState' = "RUNNING")
    PROVE  PushInv'
BY DEF PushInv, KnownInv, DueInv

\* A step that ends the stream in use, or none, and leaves no chain.
LEMMA EndKeeps ==
    ASSUME TypeOK, PushInv,
           \A c \in Chains : chain'[c] = Nothing,
           UNCHANGED <<source, posted, listing, pushed, existing>>, due' = {},
           \/ UNCHANGED stream
           \/ current # Nothing /\ stream' = [stream EXCEPT ![current] = Ended(stream[current])],
           \/ current' = Nothing
           \/ /\ current' = current /\ eventsState' # "RUNNING"
              /\ stream' = [stream EXCEPT ![current] = Ended(stream[current])]
    PROVE  PushInv'
<1>1. /\ stream \in [Streams -> StreamFields] /\ posted \in Nat
      /\ current # Nothing => current \in Streams
  BY StreamAssumption DEF TypeOK, StreamTypeOK
<1>2. ASSUME current # Nothing
      PROVE  /\ Ended(stream[current]).subreddits = stream[current].subreddits
             /\ Ended(stream[current]).enforceContinuity = stream[current].enforceContinuity
             /\ Ended(stream[current]).processed = stream[current].processed
             /\ Ended(stream[current]).newStart = TRUE
             /\ Ended(stream[current]).dateCutoff = 0
  <2>1. stream[current] \in StreamFields
    BY <1>1, <1>2
  <2> QED BY <2>1 DEF Ended, StreamFields
<1>3. ListingInv'
  <2>1. \A t \in Streams : stream'[t].processed = stream[t].processed
    BY <1>1, <1>2
  <2> QED BY <2>1 DEF PushInv, ListingInv, UseDateCutoff
<1>4. StreamInv'
  <2>1. CASE current' = Nothing
    BY <2>1 DEF StreamInv, Active
  <2>2. CASE current' # Nothing
    <3>1. current' = current /\ stream'[current] = Ended(stream[current])
      BY <1>1, <2>2
    <3>2. UNCHANGED UseDateCutoff
      BY DEF UseDateCutoff
    <3>3. /\ stream'[current'].subreddits = Subreddits
          /\ ~stream'[current'].enforceContinuity
          /\ stream'[current'].newStart
          /\ stream'[current'].dateCutoff = 0
      BY <1>2, <2>2, <3>1 DEF PushInv, StreamInv
    <3>4. \A c \in Chains : ~Active(c)'
      BY DEF Active
    <3> QED BY <1>1, <3>2, <3>3, <3>4 DEF StreamInv
  <2> QED BY <2>1, <2>2
<1>5. Known' \subseteq 1 .. posted' /\ ~Watching'
  BY DEF PushInv, KnownInv, Known, Watching
<1> QED
  BY <1>3, <1>4, <1>5, NotWatching

\* A step that starts stream s afresh.
LEMMA BeginKeeps ==
    ASSUME TypeOK, PushInv, NEW s \in Streams, NEW fields \in StreamFields, NEW c \in Chains,
           UNCHANGED <<source, posted, listing, pushed>>,
           current' = s, eventsState' = "RUNNING",
           fields.subreddits = Subreddits, ~fields.enforceContinuity,
           UseDateCutoff => fields.dateCutoff = 0,
           fields.dateCutoff <= posted + 1,
           fields.processed \subseteq 1 .. posted,
           chain'[c] = Timer(s), \A d \in Chains \ {c} : chain'[d] = Nothing,
           stream'[s] = Started(fields, c, TRUE),
           \A t \in Streams \ {s} : stream'[t].processed = stream[t].processed,
           existing' \subseteq existing \cup 1 .. posted,
           due' = {} \/ updated'
    PROVE  PushInv'
<1>1. /\ stream'[s].subreddits = fields.subreddits
      /\ stream'[s].enforceContinuity = fields.enforceContinuity
      /\ stream'[s].processed = fields.processed
      /\ stream'[s].newStart = TRUE
      /\ stream'[s].dateCutoff = fields.dateCutoff
  BY DEF Started, StreamFields
<1>2. ListingInv'
  BY <1>1 DEF PushInv, ListingInv, UseDateCutoff
<1>3. StreamInv'
  <2>1. \A d \in Chains : Active(d)' => d = c
    BY DEF Active
  <2>2. UNCHANGED UseDateCutoff
    BY DEF UseDateCutoff
  <2>3. /\ stream'[current'].subreddits = Subreddits
        /\ ~stream'[current'].enforceContinuity
        /\ stream'[current'].newStart
        /\ UseDateCutoff => stream'[current'].dateCutoff = 0
        /\ stream'[current'].dateCutoff <= posted' + 1
        /\ eventsState' = "RUNNING"
    BY <1>1
  <2>4. chain'[c].pc = "timer" /\ chain'[c].newItems = <<>>
    BY TimerType
  <2> QED BY <2>1, <2>2, <2>3, <2>4 DEF StreamInv
<1>4. Known' \subseteq 1 .. posted' /\ ~Watching'
  BY <1>1 DEF PushInv, KnownInv, Known, Watching
<1> QED
  BY <1>2, <1>3, <1>4, NotWatching

LEMMA PostKeeps ==
    ASSUME TypeOK, PushInv, ItemPosted
    PROVE  PushInv'
<1>1. /\ posted \in Nat /\ posted' = posted + 1 /\ listing' = <<posted + 1>> \o listing
      /\ listing \in Seq(Items) /\ <<posted + 1>> \in Seq(Items)
      /\ UNCHANGED <<source, stream, chain, eventsState, current, pushed, existing, updated>>
      /\ due' = IF Watching THEN due \cup {posted + 1} ELSE due
      /\ Range(listing) \subseteq 1 .. posted
  BY StreamAssumption DEF TypeOK, StreamTypeOK, ItemPosted, Post, Items, PushInv, ListingInv
<1>2. /\ UNCHANGED UseDateCutoff /\ UNCHANGED Watching /\ UNCHANGED Known
      /\ 1 .. posted' = 1 .. posted \cup {posted'}
  BY <1>1 DEF UseDateCutoff, Watching, Known
<1>3. ListingInv'
  <2>1. Range(listing') = {posted'} \cup Range(listing)
    <3>1. posted + 1 \in Items
      BY StreamAssumption DEF TypeOK, StreamTypeOK, ItemPosted, Post, Items
    <3> QED BY <1>1, <3>1, RangeOfCons
  <2>2. UseDateCutoff => Descending(listing')
    <3> SUFFICES ASSUME Descending(listing) PROVE Descending(listing')
      BY DEF PushInv, ListingInv
    <3>1. /\ DOMAIN listing = 1 .. Len(listing) /\ Len(listing) \in Nat
          /\ DOMAIN listing' = 1 .. Len(listing) + 1
          /\ listing'[1] = posted + 1
          /\ \A k \in 2 .. Len(listing) + 1 : listing'[k] = listing[k - 1]
      BY <1>1
    <3>2. \A k \in DOMAIN listing : listing[k] \in 1 .. posted
      BY <1>1 DEF Range
    <3> SUFFICES ASSUME NEW j \in DOMAIN listing', NEW k \in DOMAIN listing', j < k
                 PROVE  listing'[k] < listing'[j]
      BY DEF Descending
    <3>3. k - 1 \in DOMAIN listing /\ listing'[k] = listing[k - 1]
      BY <3>1
    <3>4. CASE j = 1
      BY <1>1, <3>1, <3>2, <3>3, <3>4
    <3>5. CASE j # 1
      <4>1. j - 1 \in DOMAIN listing /\ listing'[j] = listing[j - 1] /\ j - 1 < k - 1
        BY <3>1, <3>5
      <4> QED BY <3>3, <4>1 DEF Descending
    <3> QED BY <3>4, <3>5
  <2> QED BY <1>1, <1>2, <2>1, <2>2 DEF PushInv, ListingInv
<1>4. StreamInv'
  <2>1. current # Nothing => stream[current].dateCutoff \in Nat
    BY StreamAssumption DEF TypeOK, StreamTypeOK, StreamFields
  <2>2. current # Nothing => stream[current].dateCutoff <= posted' + 1
    BY <1>1, <2>1 DEF PushInv, StreamInv
  <2> QED BY <1>1, <1>2, <2>2 DEF PushInv, StreamInv, Active
<1>5. KnownInv'
  <2>1. Known \cap Range(listing') \subseteq Range(listing)
    <3>1. posted + 1 \in Items
      BY StreamAssumption DEF TypeOK, StreamTypeOK, ItemPosted, Post, Items
    <3>2. Range(listing') = {posted + 1} \cup Range(listing)
      BY <1>1, <3>1, RangeOfCons
    <3> QED BY <1>1, <3>2 DEF PushInv, KnownInv
  <2> QED BY <1>1, <1>2, <2>1 DEF PushInv, KnownInv
<1>6. DueInv'
  <2>1. Watching => /\ posted + 1 \notin stream[current].processed
                    /\ posted + 1 >= stream[current].dateCutoff
                    /\ eventsState = "RUNNING"
    <3>1. Watching => current \in Streams /\ stream[current].dateCutoff \in Nat
      BY StreamAssumption DEF Watching, TypeOK, StreamTypeOK, StreamFields
    <3> QED BY <1>1, <3>1 DEF PushInv, ListingInv, StreamInv, Watching
  <2> QED BY <1>1, <1>2, <2>1 DEF PushInv, DueInv
<1> QED
  BY <1>3, <1>4, <1>5, <1>6 DEF PushInv

LEMMA DelistKeeps ==
    ASSUME TypeOK, PushInv, NEW i \in Items, ItemDelisted(i)
    PROVE  PushInv'
<1>1. /\ UNCHANGED <<source, posted, stream, chain, eventsState, current, pushed, existing, updated>>
      /\ due' = due \ {i}
      /\ listing' = Only(listing, Items \ {i})
  BY DEF ItemDelisted, Delist
<1>2. Range(listing') \subseteq Range(listing) /\ (Descending(listing) => Descending(listing'))
  BY <1>1, OnlyKept DEF TypeOK, StreamTypeOK
<1>3. UNCHANGED UseDateCutoff /\ UNCHANGED Watching /\ UNCHANGED Known
  BY <1>1 DEF UseDateCutoff, Watching, Known
<1>4. ListingInv'
  BY <1>1, <1>2, <1>3 DEF PushInv, ListingInv
<1>5. StreamInv'
  BY <1>1, <1>3 DEF PushInv, StreamInv, Active
<1>6. KnownInv'
  BY <1>1, <1>2, <1>3 DEF PushInv, KnownInv
<1>7. DueInv'
  BY <1>1, <1>3 DEF PushInv, DueInv
<1> QED
  BY <1>4, <1>5, <1>6, <1>7 DEF PushInv

LEMMA ReportKeeps ==
    ASSUME TypeOK, PushInv, NEW i \in Items, ItemReported(i)
    PROVE  PushInv'
<1>1. /\ UNCHANGED <<source, posted, stream, chain, eventsState, current, pushed, existing, updated>>
      /\ due' = IF Watching /\ i \notin stream[current].processed THEN due \cup {i} ELSE due
      /\ listing' = <<i>> \o listing
      /\ ~UseDateCutoff /\ i \in 1 .. posted
  BY DEF ItemReported, Report, UseDateCutoff
<1>2. Range(listing') = {i} \cup Range(listing)
  <2>1. listing \in Seq(Items)
    BY DEF TypeOK, StreamTypeOK
  <2> QED BY <1>1, <2>1, RangeOfCons
<1>3. UNCHANGED UseDateCutoff /\ UNCHANGED Watching /\ UNCHANGED Known
  BY <1>1 DEF UseDateCutoff, Watching, Known
<1>4. ListingInv'
  BY <1>1, <1>2, <1>3 DEF PushInv, ListingInv
<1>5. StreamInv'
  BY <1>1, <1>3 DEF PushInv, StreamInv, Active
<1>6. KnownInv'
  BY <1>1, <1>3 DEF PushInv, KnownInv
<1>7. DueInv'
  BY <1>1, <1>3 DEF PushInv, DueInv, Watching
<1> QED
  BY <1>4, <1>5, <1>6, <1>7 DEF PushInv

\* A step of a chain c that changes nothing but how the chain goes on.
LEMMA ChainKeeps ==
    ASSUME TypeOK, ChainInv, PushInv, NEW c \in Chains, Active(c),
           \A d \in Chains \ {c} : chain'[d] = chain[d],
           chain'[c].pc # "more", chain'[c].newItems = <<>>,
           chain'[c].pc = "retrying" => ~stream[current].newStart,
           current \in Streams,
           stream'[current].subreddits = stream[current].subreddits,
           stream'[current].enforceContinuity = stream[current].enforceContinuity,
           stream'[current].newStart <=> stream[current].newStart,
           stream'[current].dateCutoff = stream[current].dateCutoff,
           \A t \in Streams : stream'[t].processed = stream[t].processed,
           UNCHANGED <<source, posted, listing, eventsState, current, pushed, existing, due,
                       updated>>
    PROVE  PushInv'
<1>1. \A d \in Chains \ {c} : ~Active(d)'
  BY OnlyInterval DEF Active
<1>2. UNCHANGED UseDateCutoff /\ (Watching' <=> Watching) /\ UNCHANGED Known
  BY DEF UseDateCutoff, Watching, Known
<1>3. ListingInv'
  BY <1>2 DEF PushInv, ListingInv
<1>4. StreamInv'
  BY <1>1, <1>2 DEF PushInv, StreamInv
<1>5. KnownInv'
  BY <1>2 DEF PushInv, KnownInv
<1>6. DueInv'
  BY <1>2 DEF PushInv, DueInv
<1> QED
  BY <1>3, <1>4, <1>5, <1>6 DEF PushInv

LEMMA AnswerKeeps ==
    ASSUME TypeOK, ChainInv, PushInv, NEW c \in Chains, PollAnswered(c)
    PROVE  PushInv'
<1> DEFINE page == FirstPage(current)
           old == stream[current]
           new == stream'[current]
<1>1. UNCHANGED <<source, posted, listing, eventsState, current, existing, updated>>
  <2>1. PICK batch : Receive(c, batch)
    BY DEF PollAnswered
  <2> QED BY <2>1 DEF PollAnswered, Receive
<1>2. /\ current \in Streams /\ eventsState = "RUNNING"
      /\ chain'[c].pc = "timer" /\ chain'[c].newItems = <<>>
      /\ \A d \in Chains \ {c} : chain'[d] = Nothing
      /\ Range(page) \subseteq Range(listing)
      /\ new.subreddits = old.subreddits
      /\ new.enforceContinuity = old.enforceContinuity
      /\ new.processed = old.processed \cup Range(page)
      /\ ~new.newStart
      /\ ~old.newStart \/ ~UseDateCutoff => new.dateCutoff = old.dateCutoff
      /\ UseDateCutoff /\ old.newStart =>
             /\ new.dateCutoff # 0 /\ new.dateCutoff <= posted + 1
             /\ \A i \in Range(listing) : i \in new.processed \/ i < new.dateCutoff
      /\ \A t \in Streams : stream'[t].processed \subseteq 1 .. posted
      /\ pushed' = [i \in Items |-> IF i \in Emitted /\ pushed[i] < 2
                                    THEN pushed[i] + 1 ELSE pushed[i]]
      /\ due' = due \ Emitted
  BY Answered DEF PushInv
<1> HIDE DEF page, old, new
<1>3. UNCHANGED UseDateCutoff
  BY <1>1 DEF UseDateCutoff
<1>4. current # Nothing /\ Watching' /\ (Watching <=> ~old.newStart)
  BY <1>1, <1>2, StreamAssumption DEF Watching, old, new
<1>5. ListingInv'
  BY <1>1, <1>2, <1>3 DEF PushInv, ListingInv
<1>6. StreamInv'
  <2>1. \A d \in Chains : Active(d)' => d = c
    BY <1>2 DEF Active
  <2>2. /\ old.subreddits = Subreddits /\ ~old.enforceContinuity
        /\ UseDateCutoff => (old.newStart <=> old.dateCutoff = 0)
        /\ old.dateCutoff <= posted + 1
    BY <1>4 DEF PushInv, StreamInv, old
  <2>3. /\ new.subreddits = Subreddits /\ ~new.enforceContinuity
        /\ UseDateCutoff => new.dateCutoff # 0
        /\ new.dateCutoff <= posted + 1
    BY <1>2, <2>2
  <2> QED BY <1>1, <1>2, <1>3, <2>1, <2>3 DEF StreamInv, new
<1>7. Known' \subseteq Known \cup Emitted
  BY <1>1, <1>2 DEF Known
<1>8. Emitted \subseteq Range(page)
  BY DEF Emitted, page
<1>9. KnownInv'
  <2>1. Known' \subseteq 1 .. posted'
    BY <1>1, <1>2, <1>7, <1>8 DEF PushInv, KnownInv, ListingInv
  <2>2. ASSUME UseDateCutoff, NEW i \in Known' \cap Range(listing)
        PROVE  i \in new.processed \/ i < new.dateCutoff
    <3>1. CASE old.newStart
      BY <1>2, <2>2, <3>1
    <3>2. CASE ~old.newStart /\ i \in Known
      <4>1. i \in old.processed \/ i < old.dateCutoff
        BY <1>4, <2>2, <3>2 DEF PushInv, KnownInv, old
      <4> QED BY <1>2, <3>2, <4>1
    <3>3. CASE i \in Emitted
      BY <1>2, <1>8, <3>3
    <3> QED BY <1>7, <2>2, <3>1, <3>2, <3>3
  <2> QED BY <1>1, <1>3, <2>1, <2>2 DEF KnownInv, new
<1>10. DueInv'
  <2>1. ASSUME ~updated, NEW i \in due'
        PROVE  i \notin new.processed /\ (UseDateCutoff => i >= new.dateCutoff)
    <3>1. /\ i \in due /\ i \notin Emitted /\ ~old.newStart /\ i \notin old.processed
          /\ UseDateCutoff => i >= old.dateCutoff
      BY <1>2, <1>4, <2>1 DEF PushInv, DueInv, old
    <3>2. i \notin Range(page)
      BY <3>1 DEF Emitted, page, old
    <3> QED BY <1>2, <3>1, <3>2
  <2> QED BY <1>1, <1>2, <1>3, <1>4, <2>1 DEF DueInv, new
<1> QED
  BY <1>5, <1>6, <1>9, <1>10 DEF PushInv

\* The cases of a step.
LEMMA PushStep ==
    TypeOK /\ ChainInv /\ PushInv /\ ~EndInFlight /\ ~FirstFails /\ [Next]_vars => PushInv'
<1> SUFFICES ASSUME TypeOK, ChainInv, PushInv, ~EndInFlight, ~FirstFails, [Next]_vars
             PROVE  PushInv'
  OBVIOUS
<1>a. /\ chain \in [Chains -> Chain \cup {Nothing}]
      /\ stream \in [Streams -> StreamFields]
      /\ current # Nothing => current \in Streams
      /\ unused \subseteq Streams /\ posted \in Nat
  BY StreamAssumption DEF TypeOK, StreamTypeOK
<1>b. eventsState # "RUNNING" \/ current = Nothing => \A c \in Chains : chain[c] = Nothing
  BY OnlyInterval DEF Active
<1>c. ASSUME NEW c \in Chains, Active(c)
      PROVE  current \in Streams /\ chain[c].stream = current
  BY <1>a, <1>c DEF ChainInv
<1>1. CASE ItemPosted
  BY <1>1, PostKeeps
<1>2. ASSUME NEW i \in Items, ItemDelisted(i) PROVE PushInv'
  BY <1>2, DelistKeeps
<1>3. ASSUME NEW i \in Items, ItemReported(i) PROVE PushInv'
  BY <1>3, ReportKeeps
<1>4. ASSUME NEW c \in Chains, PollBegins(c) PROVE PushInv'
  <2>1. /\ Active(c) /\ chain'[c].pc = "get" /\ chain'[c].newItems = chain[c].newItems
        /\ \A d \in Chains \ {c} : chain'[d] = chain[d]
        /\ stream' = stream
    BY <1>4, FireGoesOn DEF PollBegins
  <2>2. chain[c].newItems = <<>> /\ current \in Streams
    BY <1>c, <2>1 DEF PushInv, StreamInv
  <2>3. UNCHANGED <<source, posted, listing, eventsState, current, pushed, existing, due, updated>>
    BY <1>4 DEF PollBegins, Fire, historyVars
  <2> QED BY <2>1, <2>2, <2>3, ChainKeeps
<1>5. ASSUME NEW c \in Chains, PollAnswered(c) PROVE PushInv'
  BY <1>5, AnswerKeeps
<1>6. ASSUME NEW c \in Chains, PollFails(c) PROVE PushInv'
  <2>1. Fail(c) /\ ~stream[chain[c].stream].newStart
    BY <1>6 DEF PollFails
  <2>2. /\ Active(c) /\ chain'[c].pc = "retrying" /\ chain'[c].newItems = <<>>
        /\ \A d \in Chains \ {c} : chain'[d] = chain[d]
        /\ chain[c].stream \in Streams
        /\ stream' = [stream EXCEPT ![chain[c].stream] =
                          [stream[chain[c].stream] EXCEPT !.running = FALSE]]
    BY <2>1, FailGoesOn
  <2>3. current \in Streams /\ chain[c].stream = current
    BY <1>c, <2>2
  <2>4. ASSUME NEW t \in Streams
        PROVE  /\ stream'[t].subreddits = stream[t].subreddits
               /\ stream'[t].enforceContinuity = stream[t].enforceContinuity
               /\ stream'[t].newStart = stream[t].newStart
               /\ stream'[t].dateCutoff = stream[t].dateCutoff
               /\ stream'[t].processed = stream[t].processed
    <3>1. stream[t] \in StreamFields
      BY <1>a
    <3>2. stream'[t] = stream[t] \/ stream'[t] = [stream[t] EXCEPT !.running = FALSE]
      BY <1>a, <2>2
    <3> QED BY <3>1, <3>2 DEF StreamFields
  <2>5. UNCHANGED <<source, posted, listing, eventsState, current, pushed, existing, due, updated>>
    BY <1>6 DEF PollFails, Fail, historyVars
  <2> QED BY <2>1, <2>2, <2>3, <2>4, <2>5, ChainKeeps
<1>7. ASSUME NEW c \in Chains, PollRetried(c) PROVE PushInv'
  <2>1. Retry(c)
    BY <1>7 DEF PollRetried
  <2>2. /\ Active(c) /\ chain[c].pc = "retrying"
        /\ chain'[c].pc = "timer" /\ chain'[c].newItems = <<>>
        /\ \A d \in Chains \ {c} : chain'[d] = chain[d]
        /\ stream' = [stream EXCEPT ![chain[c].stream] =
                          Started(stream[chain[c].stream], c, FALSE)]
    BY <2>1, RetryGoesOn
  <2>3. current \in Streams /\ chain[c].stream = current /\ ~stream[current].newStart
    BY <1>c, <2>2 DEF PushInv, StreamInv
  <2>4. /\ Started(stream[current], c, FALSE).subreddits = stream[current].subreddits
        /\ Started(stream[current], c, FALSE).enforceContinuity = stream[current].enforceContinuity
        /\ Started(stream[current], c, FALSE).newStart = FALSE
        /\ Started(stream[current], c, FALSE).dateCutoff = stream[current].dateCutoff
        /\ Started(stream[current], c, FALSE).processed = stream[current].processed
    <3>1. stream[current] \in StreamFields
      BY <1>a, <2>3
    <3> QED BY <3>1 DEF Started, StreamFields
  <2>5. /\ stream'[current] = Started(stream[current], c, FALSE)
        /\ \A t \in Streams \ {current} : stream'[t] = stream[t]
    BY <1>a, <2>2, <2>3
  <2>6. \A t \in Streams : stream'[t].processed = stream[t].processed
    BY <2>4, <2>5
  <2>7. UNCHANGED <<source, posted, listing, eventsState, current, pushed, existing, due, updated>>
    BY <1>7 DEF PollRetried, Retry, historyVars
  <2> QED BY <2>2, <2>3, <2>4, <2>5, <2>6, <2>7, ChainKeeps
<1>8. ASSUME NEW c \in Chains, GiveUp(c) PROVE PushInv'
  <2> DEFINE chains == [chain EXCEPT ![c] = Nothing]
  <2>1. Active(c) /\ StopEventsWith(chains)
    BY <1>8 DEF GiveUp
  <2>2. \A d \in Chains : chains[d] = Nothing
    BY <1>a, <2>1, OnlyInterval DEF Active
  <2>3. eventsState = "RUNNING" /\ current # Nothing
    BY <2>1 DEF ChainInv
  <2>4. TimerCleared(chains, current) = chains
    BY <1>a, <2>2, <2>3, StreamAssumption DEF TimerCleared, StreamFields
  <2> HIDE DEF chains
  <2>5. /\ chain' = chains /\ current' = Nothing /\ due' = {}
        /\ stream' = [stream EXCEPT ![current] = Ended(stream[current])]
        /\ UNCHANGED <<source, posted, listing, pushed, existing>>
    BY <2>1, <2>3, <2>4 DEF StopEventsWith, EndStream
  <2> QED BY <2>2, <2>3, <2>5, EndKeeps
<1>9. CASE StartEvents
  <2>1. /\ eventsState # "RUNNING" /\ eventsState' = "RUNNING"
        /\ UNCHANGED <<source, posted, listing, pushed, due>>
        /\ due = {}
    BY <1>9 DEF StartEvents, PushInv, DueInv
  <2>2. Range(listing) \subseteq 1 .. posted
    BY DEF PushInv, ListingInv
  <2>3. CASE eventsState = "STOPPED"
    <3>1. PICK s \in unused : /\ current' = s /\ NewTimer(s, chain, Dedicated(s), TRUE)
                             /\ BeginsAfresh(s)
      BY <1>9, <2>3 DEF StartEvents
    <3>2. PICK c \in Chains :
              /\ chain' = [chain EXCEPT ![c] = Timer(s)]
              /\ stream' = [stream EXCEPT ![s] = Started(Dedicated(s), c, TRUE)]
      BY <3>1 DEF NewTimer
    <3>3. /\ chain'[c] = Timer(s) /\ \A d \in Chains \ {c} : chain'[d] = Nothing
          /\ stream'[s] = Started(Dedicated(s), c, TRUE)
          /\ \A t \in Streams \ {s} : stream'[t].processed = stream[t].processed
      BY <1>a, <1>b, <2>1, <3>2
    <3>4. existing' \subseteq existing \cup 1 .. posted
      BY <2>2, <3>1 DEF BeginsAfresh
    <3>5. s \in Streams /\ 0 <= posted + 1
      BY <1>a
    <3> QED BY <2>1, <3>1, <3>3, <3>4, <3>5, DedicatedType, BeginKeeps
  <2>4. CASE eventsState # "STOPPED" /\ current = Nothing
    <3>1. UNCHANGED <<current, chain, stream, existing>>
      BY <1>9, <2>4 DEF StartEvents
    <3> QED BY <1>b, <2>1, <2>4, <3>1, EndKeeps
  <2>5. CASE eventsState # "STOPPED" /\ current # Nothing
    <3>1. /\ NewTimer(current, chain, stream[current], stream[current].newStart)
          /\ BeginsAfresh(current) /\ current' = current
      BY <1>9, <2>5 DEF StartEvents
    <3>2. /\ current \in Streams /\ stream[current] \in StreamFields
          /\ stream[current].newStart
          /\ UseDateCutoff => stream[current].dateCutoff = 0
          /\ stream[current].dateCutoff <= posted + 1
          /\ stream[current].subreddits = Subreddits /\ ~stream[current].enforceContinuity
          /\ stream[current].processed \subseteq 1 .. posted
      BY <1>a, <2>1, <2>5 DEF PushInv, StreamInv, ListingInv
    <3>3. stream[current].newStart = TRUE
      BY <3>2 DEF StreamFields
    <3>4. PICK c \in Chains :
              /\ chain' = [chain EXCEPT ![c] = Timer(current)]
              /\ stream' = [stream EXCEPT ![current] = Started(stream[current], c, TRUE)]
      BY <3>1, <3>3 DEF NewTimer
    <3>5. /\ chain'[c] = Timer(current) /\ \A d \in Chains \ {c} : chain'[d] = Nothing
          /\ stream'[current] = Started(stream[current], c, TRUE)
          /\ \A t \in Streams \ {current} : stream'[t].processed = stream[t].processed
      BY <1>a, <1>b, <2>1, <3>2, <3>4
    <3>6. existing' \subseteq existing \cup 1 .. posted
      BY <2>2, <3>1 DEF BeginsAfresh
    <3> QED BY <2>1, <3>1, <3>2, <3>5, <3>6, BeginKeeps
  <2> QED BY <2>3, <2>4, <2>5
<1>10. CASE PauseEvents
  <2>1. /\ MayEnd /\ EndStream(chain) /\ eventsState' = "PAUSED" /\ due' = {}
        /\ current' = current
        /\ UNCHANGED <<source, posted, listing, pushed, existing>>
    BY <1>10 DEF PauseEvents
  <2>2. \A c \in Chains : chain'[c] = Nothing
    BY <1>b, <2>1, EndingClears DEF EndStream
  <2>3. CASE current = Nothing
    <3>1. UNCHANGED stream
      BY <2>1, <2>3 DEF EndStream
    <3> QED BY <2>1, <2>2, <2>3, <3>1, EndKeeps
  <2>4. CASE current # Nothing
    <3>1. stream' = [stream EXCEPT ![current] = Ended(stream[current])]
      BY <2>1, <2>4 DEF EndStream
    <3> QED BY <2>1, <2>2, <2>4, <3>1, EndKeeps
  <2> QED BY <2>3, <2>4
<1>11. CASE StopEvents
  <2>1. /\ MayEnd /\ EndStream(chain) /\ current' = Nothing /\ due' = {}
        /\ UNCHANGED <<source, posted, listing, pushed, existing>>
    BY <1>11 DEF StopEvents, StopEventsWith
  <2>2. \A c \in Chains : chain'[c] = Nothing
    BY <1>b, <2>1, EndingClears DEF EndStream
  <2>3. \/ UNCHANGED stream
        \/ current # Nothing /\ stream' = [stream EXCEPT ![current] = Ended(stream[current])]
    BY <2>1 DEF EndStream
  <2> QED BY <2>1, <2>2, <2>3, EndKeeps
<1>12. CASE UpdatePolling
  <2>1. PICK s \in unused : Replace(s) /\ existing' = Range(listing) \ due
    BY <1>12 DEF UpdatePolling
  <2>2. /\ MayEnd /\ eventsState' = "RUNNING" /\ updated' = TRUE /\ s \in Streams
        /\ UNCHANGED <<source, posted, listing, pushed>>
    BY <1>a, <1>12 DEF UpdatePolling
  <2> DEFINE cleared == IF current = Nothing THEN chain ELSE TimerCleared(chain, current)
  <2>3. PICK c \in Chains :
            /\ chain' = [cleared EXCEPT ![c] = Timer(s)]
            /\ stream' = [t \in Streams |->
                   IF t = s THEN Started(Dedicated(s), c, TRUE)
                   ELSE IF t = current THEN Ended(stream[t]) ELSE stream[t]]
    BY <2>1 DEF Replace
  <2>4. \A d \in Chains : cleared[d] = Nothing
    BY <1>b, <2>2, EndingClears
  <2>5. cleared \in [Chains -> Chain \cup {Nothing}]
    BY <1>a, ClearedTypes
  <2> HIDE DEF cleared
  <2>6. chain'[c] = Timer(s) /\ \A d \in Chains \ {c} : chain'[d] = Nothing
    BY <2>3, <2>4, <2>5
  <2>7. stream'[s] = Started(Dedicated(s), c, TRUE) /\ current' = s
    BY <2>1, <2>2, <2>3 DEF Replace
  <2>8. \A t \in Streams \ {s} : stream'[t].processed = stream[t].processed
    <3>1. \A t \in Streams : Ended(stream[t]).processed = stream[t].processed
      BY <1>a DEF Ended, StreamFields
    <3> QED BY <2>3, <3>1
  <2>9. existing' \subseteq existing \cup 1 .. posted
    BY <2>1 DEF PushInv, ListingInv
  <2>10. 0 <= posted + 1
    BY <1>a
  <2> QED BY <2>2, <2>6, <2>7, <2>8, <2>9, <2>10, DedicatedType, BeginKeeps
<1>13. CASE DropPolling
  <2>1. /\ MayEnd /\ EndStream(chain) /\ current' = Nothing /\ current # Nothing /\ due' = {}
        /\ UNCHANGED <<source, posted, listing, pushed, existing>>
    BY <1>13 DEF DropPolling
  <2>2. \A c \in Chains : chain'[c] = Nothing
    BY <2>1, EndingClears DEF EndStream
  <2>3. stream' = [stream EXCEPT ![current] = Ended(stream[current])]
    BY <2>1 DEF EndStream
  <2> QED BY <2>1, <2>2, <2>3, EndKeeps
<1>14. CASE UNCHANGED vars
  <2>1. /\ UNCHANGED <<source, posted, listing, stream, chain, eventsState, current, pushed,
                      existing, due, updated>>
    BY <1>14 DEF vars, streamVars
  <2>2. UNCHANGED UseDateCutoff /\ UNCHANGED Watching /\ UNCHANGED Known
    BY <2>1 DEF UseDateCutoff, Watching, Known
  <2>3. ListingInv' /\ StreamInv'
    BY <2>1, <2>2 DEF PushInv, ListingInv, StreamInv, Active
  <2>4. KnownInv' /\ DueInv'
    BY <2>1, <2>2 DEF PushInv, KnownInv, DueInv
  <2> QED BY <2>3, <2>4 DEF PushInv
<1> QED
  BY <1>1, <1>2, <1>3, <1>4, <1>5, <1>6, <1>7, <1>8, <1>9, <1>10, <1>11, <1>12, <1>13, <1>14
  DEF Next, Reddit, Poll, Events

\* Only an answer pushes, and never what is known already.
LEMMA PushesUnknown ==
    ASSUME TypeOK, ChainInv, PushInv, [Next]_vars, UseDateCutoff,
           NEW i \in Known
    PROVE  pushed'[i] = pushed[i]
<1>1. ASSUME NEW c \in Chains, PollAnswered(c) PROVE pushed'[i] = pushed[i]
  <2>1. /\ pushed' = [j \in Items |-> IF j \in Emitted /\ pushed[j] < 2
                                     THEN pushed[j] + 1 ELSE pushed[j]]
        /\ current \in Streams /\ eventsState = "RUNNING"
        /\ Range(FirstPage(current)) \subseteq Range(listing)
    BY <1>1, Answered DEF PushInv
  <2>2. i \notin Emitted
    <3> SUFFICES ASSUME i \in Emitted PROVE FALSE
      OBVIOUS
    <3>1. Watching /\ i \in Range(listing)
      BY <2>1, StreamAssumption DEF Emitted, Watching
    <3>2. i \in stream[current].processed \/ i < stream[current].dateCutoff
      BY <3>1 DEF PushInv, KnownInv
    <3>3. i >= stream[current].dateCutoff /\ i \notin stream[current].processed
      BY DEF Emitted
    <3>4. i \in Nat /\ stream[current].dateCutoff \in Nat
      <4>1. i \in Items
        BY DEF Known, TypeOK
      <4> QED BY <2>1, <4>1, StreamAssumption DEF Items, TypeOK, StreamTypeOK, StreamFields
    <3> QED BY <3>2, <3>3, <3>4
  <2>3. i \in Items
    BY DEF Known, TypeOK
  <2> QED BY <2>1, <2>2, <2>3
<1>2. CASE UNCHANGED pushed
  BY <1>2
<1>3. CASE Events
  BY <1>2, <1>3 DEF Events, StartEvents, PauseEvents, StopEvents, StopEventsWith, UpdatePolling,
                    DropPolling
<1>4. CASE Reddit
  BY <1>2, <1>4 DEF Reddit, ItemPosted, ItemDelisted, ItemReported
<1>5. ASSUME NEW c \in Chains, Poll(c) PROVE pushed'[i] = pushed[i]
  BY <1>1, <1>2, <1>5 DEF Poll, PollBegins, PollFails, PollRetried, GiveUp, StopEventsWith,
                          historyVars
<1> QED
  BY <1>2, <1>3, <1>4, <1>5 DEF Next, vars

\* What a source lists is pushed once, if it is new: nothing that was listed when
\* polling began afresh, nothing twice, and, while the config stays as it is,
\* nothing is passed over; for any number of items, streams, chains and pages,
\* however often startEvents, pauseEvents, stopEvents and config updates follow
\* one another, and whichever polls fail but the first of a fresh start.
THEOREM PushesOnceIfNew == ~EndInFlight /\ ~FirstFails /\ Spec => PushedOnceIfNew
<1> SUFFICES ASSUME ~EndInFlight, ~FirstFails PROVE Spec => PushedOnceIfNew
  OBVIOUS
<1>1. TypeOK /\ ChainInv /\ PushInv /\ [Next]_vars => PushInv'
  BY PushStep
<1>2. TypeOK /\ ChainInv /\ PushInv /\ [Next]_vars =>
          [\A i \in existing : UseDateCutoff => pushed'[i] = pushed[i]]_vars
  BY PushesUnknown DEF Known
<1>3. TypeOK /\ ChainInv /\ PushInv /\ [Next]_vars =>
          [\A i \in Items : UseDateCutoff /\ pushed'[i] # pushed[i] => pushed[i] = 0]_vars
  BY PushesUnknown DEF Known
<1>4. PushInv => NothingSkippedUnlessUpdated
  BY DEF PushInv, DueInv, NothingSkippedUnlessUpdated, NothingSkipped, Watching
<1> QED
  BY <1>1, <1>2, <1>3, <1>4, PushInit, ChainAlways, PTL
  DEF Spec, PushedOnceIfNew, NothingOld, NeverPushedTwice
=============================================================================
