-------------------------- MODULE SharedStreamsProofs --------------------------
(***************************************************************************)
(* What SharedStreams promises for any numbers of managers, streams,       *)
(* chains and items: types, and that the stream is polled by one chain for *)
(* the managers that share it.                                             *)
(***************************************************************************)
EXTENDS SharedStreams, StreamProofs, FiniteSetTheorems

\* Whatever is polling, modStreams has a stream: the error listener starts it.
HasStream == modStream = Nothing => \A c \in Chains : ~Active(c)

\* The one active chain is that of the shared stream and the timer it created
\* last, and the stream runs unless that chain is to be retried.
ChainInv ==
    /\ \A c \in Chains : Active(c) =>
           /\ modStream # Nothing
           /\ chain[c].stream = modStream /\ stream[modStream].interval = c
           /\ stream[modStream].running <=> chain[c].pc # "retrying"
    /\ modStream # Nothing /\ stream[modStream].running =>
           stream[modStream].interval # Nothing /\ Active(stream[modStream].interval)

\* A manager that was not stopped has the callback that its config asks for, and
\* there is a stream as soon as a config asks for one.
FollowInv ==
    /\ modStream = Nothing => \A m \in Subreddits : ~config[m] /\ ~callback[m]
    /\ modStream # Nothing => \A m \in Subreddits :
           eventsState[m] # "STOPPED" => (callback[m] <=> config[m])

(***************************************************************************)
(* The operations of the bot.                                              *)
(***************************************************************************)

\* runSharedStreams starts the stream with a new timer, or does nothing.
LEMMA RunSharedDoes ==
    ASSUME NEW current, NEW streams, NEW chains, NEW callbacks,
           RunShared(current, streams, chains, callbacks)
    PROVE  \/ stream' = streams /\ chain' = chains
           \/ /\ current # Nothing /\ ~streams[current].running
              /\ \E c \in Chains :
                    /\ chains[c] = Nothing
                    /\ chain' = [chains EXCEPT ![c] = Timer(current)]
                    /\ stream' = [streams EXCEPT ![current] =
                                     Started(streams[current], c, streams[current].newStart)]
  BY DEF RunShared

LEMMA RunSharedTypes ==
    ASSUME NEW current \in Streams \cup {Nothing}, NEW streams \in [Streams -> StreamFields],
           NEW chains \in [Chains -> Chain \cup {Nothing}], NEW callbacks,
           RunShared(current, streams, chains, callbacks)
    PROVE  /\ stream' \in [Streams -> StreamFields]
           /\ chain' \in [Chains -> Chain \cup {Nothing}]
           /\ current = Nothing => chain' = chains
<1>1. CASE stream' = streams /\ chain' = chains
  BY <1>1
<1>2. CASE ~ (stream' = streams /\ chain' = chains)
  <2>1. PICK c \in Chains :
            /\ current # Nothing
            /\ chain' = [chains EXCEPT ![c] = Timer(current)]
            /\ stream' = [streams EXCEPT ![current] =
                             Started(streams[current], c, streams[current].newStart)]
    BY <1>2, RunSharedDoes
  <2>2. current \in Streams /\ streams[current] \in StreamFields
    BY <2>1
  <2>3. streams[current].newStart \in BOOLEAN
    BY <2>2 DEF StreamFields
  <2>4. Started(streams[current], c, streams[current].newStart) \in StreamFields
    BY <2>2, <2>3, StartedType
  <2> QED BY <2>1, <2>2, <2>4, TimerType
<1> QED
  BY <1>1, <1>2

\* The stream that is made is one.
LEMMA MadeType ==
    ASSUME TypeOK, NEW s \in Streams, NEW cfg \in [Subreddits -> BOOLEAN]
    PROVE  Made(s, cfg) \in StreamFields
<1> DEFINE new == NewStream(s, Subjects(cfg), source = "new")
<1>1. new \in StreamFields
  <2>1. Subjects(cfg) \in SUBSET Subreddits
    BY DEF Subjects, SharedBy
  <2> QED BY <2>1, NewStreamType
<1>2. CASE modStream = Nothing
  BY <1>1, <1>2 DEF Made
<1>3. CASE modStream # Nothing
  <2>1. stream[modStream] \in StreamFields
    BY <1>3 DEF TypeOK, StreamTypeOK
  <2>2. stream[modStream].set \in Streams /\ stream[modStream].processed \in SUBSET Items
    BY <2>1 DEF StreamFields
  <2> HIDE DEF new
  <2>3. [new EXCEPT !.set = stream[modStream].set,
                    !.processed = stream[modStream].processed,
                    !.newStart = FALSE] \in StreamFields
    BY <1>1, <2>2 DEF StreamFields
  <2> QED BY <1>3, <2>3 DEF Made, new
<1> QED
  BY <1>2, <1>3

\* parseSharedStreams makes a stream, ends the one there is, or leaves it.
LEMMA ParseDoes ==
    ASSUME TypeOK, NEW cfg, ParseSharedStreams(cfg)
    PROVE  \/ /\ MustMake(cfg)
              /\ \E s \in unused :
                    /\ modStream' = s /\ unused' = unused \ {s}
                    /\ RunShared(s, [(IF modStream = Nothing THEN stream
                                      ELSE [stream EXCEPT ![modStream] = Ended(stream[modStream])])
                                        EXCEPT ![s] = Made(s, cfg)],
                                 IF modStream = Nothing THEN chain
                                 ELSE TimerCleared(chain, modStream), callback')
           \/ /\ ~MustMake(cfg) /\ MustEnd(cfg) /\ modStream # Nothing
              /\ UNCHANGED <<modStream, unused>>
              /\ RunShared(modStream, [stream EXCEPT ![modStream] = Ended(stream[modStream])],
                           TimerCleared(chain, modStream), callback')
           \/ /\ ~MustMake(cfg) /\ ~MustEnd(cfg)
              /\ UNCHANGED <<modStream, unused>>
              /\ RunShared(modStream, stream, chain, callback')
  BY DEF ParseSharedStreams, MustEnd

LEMMA ParseTypes ==
    ASSUME TypeOK, NEW cfg \in [Subreddits -> BOOLEAN], ParseSharedStreams(cfg)
    PROVE  /\ stream' \in [Streams -> StreamFields]
           /\ chain' \in [Chains -> Chain \cup {Nothing}]
           /\ modStream' \in Streams \cup {Nothing} /\ unused' \subseteq Streams
           /\ modStream # Nothing => modStream' # Nothing
           /\ modStream' = Nothing => chain' = chain
<1>1. /\ chain \in [Chains -> Chain \cup {Nothing}] /\ stream \in [Streams -> StreamFields]
      /\ modStream \in Streams \cup {Nothing} /\ unused \subseteq Streams /\ Nothing \notin Streams
  BY StreamAssumption DEF TypeOK, StreamTypeOK
<1> DEFINE ended == [stream EXCEPT ![modStream] = Ended(stream[modStream])]
           cleared == TimerCleared(chain, modStream)
<1>2. cleared \in [Chains -> Chain \cup {Nothing}]
  BY <1>1, ClearedTypes
<1>3. modStream # Nothing => ended \in [Streams -> StreamFields]
  BY <1>1, EndedType
<1>4. CASE MustMake(cfg)
  <2> DEFINE streams == IF modStream = Nothing THEN stream ELSE ended
             chains == IF modStream = Nothing THEN chain ELSE cleared
  <2>1. PICK s \in unused :
            /\ modStream' = s /\ unused' = unused \ {s}
            /\ RunShared(s, [streams EXCEPT ![s] = Made(s, cfg)], chains, callback')
    BY <1>4, ParseDoes
  <2>2. s \in Streams /\ Made(s, cfg) \in StreamFields
    BY <1>1, MadeType
  <2>3. chains \in [Chains -> Chain \cup {Nothing}] /\ streams \in [Streams -> StreamFields]
    BY <1>1, <1>2, <1>3
  <2> HIDE DEF streams, chains
  <2> DEFINE made == [streams EXCEPT ![s] = Made(s, cfg)]
  <2>4. made \in [Streams -> StreamFields]
    BY <2>2, <2>3
  <2>5. RunShared(s, made, chains, callback')
    BY <2>1
  <2> HIDE DEF made
  <2>6. stream' \in [Streams -> StreamFields] /\ chain' \in [Chains -> Chain \cup {Nothing}]
    BY <2>2, <2>3, <2>4, <2>5, RunSharedTypes
  <2> QED BY <1>1, <2>1, <2>2, <2>6
<1>5. CASE ~MustMake(cfg) /\ MustEnd(cfg)
  <2>1. /\ modStream # Nothing /\ UNCHANGED <<modStream, unused>>
        /\ RunShared(modStream, ended, cleared, callback')
    BY <1>5, ParseDoes
  <2>2. ended \in [Streams -> StreamFields]
    BY <1>3, <2>1
  <2> HIDE DEF ended, cleared
  <2>3. stream' \in [Streams -> StreamFields] /\ chain' \in [Chains -> Chain \cup {Nothing}]
    BY <1>1, <1>2, <2>1, <2>2, RunSharedTypes
  <2> QED BY <1>1, <2>1, <2>3
<1>6. CASE ~MustMake(cfg) /\ ~MustEnd(cfg)
  <2>1. UNCHANGED <<modStream, unused>> /\ RunShared(modStream, stream, chain, callback')
    BY <1>6, ParseDoes
  <2> QED BY <1>1, <2>1, RunSharedTypes
<1> QED
  BY <1>4, <1>5, <1>6

(***************************************************************************)
(* Type correctness.                                                       *)
(***************************************************************************)

TypesInv == TypeOK /\ HasStream

LEMMA TypesInit == Init => TypesInv
<1> SUFFICES ASSUME Init PROVE TypesInv
  OBVIOUS
<1> DEFINE s == CHOOSE s \in Streams : TRUE
           shared == IF SharedBy(config) # {} THEN {s} ELSE {}
           subreddits(t) == IF t \in shared THEN Subjects(config) ELSE {}
           reads(t) == t \in shared /\ source = "new"
<1>1. s \in Streams /\ shared \subseteq Streams
  BY SharedAssumption
<1>2. Subjects(config) \in SUBSET Subreddits
  BY DEF Subjects, SharedBy
<1>3. \A t \in Streams : NewStream(t, subreddits(t), reads(t)) \in StreamFields
  BY <1>2, NewStreamType
<1>4. stream = [t \in Streams |-> NewStream(t, subreddits(t), reads(t))]
  BY DEF Init
<1>5. stream \in [Streams -> StreamFields]
  <2> HIDE DEF subreddits, reads
  <2> QED BY <1>3, <1>4
<1>6. modStream \in Streams \cup {Nothing} /\ unused \subseteq Streams
  BY <1>1 DEF Init
<1>7. home \in [Items -> Subreddits]
  BY StreamAssumption DEF Init, RedditInit
<1>8. StreamTypeOK
  BY <1>5, <1>7, StreamAssumption DEF Init, RedditInit, StreamTypeOK
<1>9. HasStream
  BY DEF Init, HasStream, Active
<1>10. doling \in Seq(Items) /\ pushed \in [Items -> 0 .. 2]
  BY DEF Init
<1>11. /\ {config, callback} \subseteq [Subreddits -> BOOLEAN]
       /\ eventsState \in [Subreddits -> {"RUNNING", "PAUSED", "STOPPED"}]
       /\ listedOnce \in BOOLEAN /\ fresh \in BOOLEAN
       /\ existing \subseteq Items /\ due \subseteq Items
  BY DEF Init
<1> QED
  BY <1>6, <1>8, <1>9, <1>10, <1>11 DEF TypesInv, TypeOK

\* The first item that finds its manager is one of the items.
LEMMA FirstFinds ==
    ASSUME TypeOK, NEW items \in Seq(Items),
           NEW finds, finds = {k \in DOMAIN items : Listens(home[items[k]])}, finds # {},
           NEW first, first = CHOOSE k \in finds : \A l \in finds : k <= l
    PROVE  first \in finds /\ first \in 1 .. Len(items) /\ \A l \in finds : first <= l
<1>1. finds \in SUBSET Nat
  OBVIOUS
<1>2. \E k \in finds : \A l \in finds : k <= l
  BY <1>1, LeastNat
<1> QED
  BY <1>2

LEMMA DoleOutTypes ==
    ASSUME TypeOK, NEW items \in Seq(Items), NEW waiting \in Seq(Items), DoleOut(items, waiting)
    PROVE  doling' \in Seq(Items) /\ pushed' \in [Items -> 0 .. 2] /\ due' \subseteq due
<1> DEFINE finds == {k \in DOMAIN items : Listens(home[items[k]])}
           first == CHOOSE k \in finds : \A l \in finds : k <= l
           rest == SubSeq(items, first + 1, Len(items))
<1>1. CASE finds = {}
  BY <1>1 DEF DoleOut, TypeOK
<1>2. CASE finds # {}
  <2>1. first \in 1 .. Len(items)
    BY <1>2, FirstFinds
  <2>2. /\ doling' = waiting \o rest
        /\ due' \subseteq due
        /\ pushed' = [pushed EXCEPT ![items[first]] = IF @ < 2 THEN @ + 1 ELSE @]
    BY <1>2 DEF DoleOut
  <2> HIDE DEF first, finds
  <2>3. rest \in Seq(Items)
    BY <2>1, PartOf
  <2> HIDE DEF rest
  <2>4. waiting \o rest \in Seq(Items)
    BY <2>3, RangeOfConcat
  <2>5. \A i \in Items : pushed[i] < 2 => pushed[i] + 1 \in 0 .. 2
    BY DEF TypeOK
  <2> QED BY <2>2, <2>4, <2>5 DEF TypeOK
<1> QED
  BY <1>1, <1>2

\* What the histories say of a listing is said of items.
LEMMA TakenTypes ==
    ASSUME TypeOK, StreamTypeOK', listing' = listing, NEW ended \in BOOLEAN, Taken(ended),
           modStream' \in Streams \cup {Nothing}
    PROVE  fresh' \in BOOLEAN /\ existing' \subseteq Items
<1>1. Range(listing) \subseteq Items
  BY RangeOfSeq DEF TypeOK, StreamTypeOK
<1>2. existing' \subseteq existing \cup Range(listing)
  BY DEF Taken
<1> QED
  BY <1>1, <1>2 DEF Taken, TypeOK

LEMMA TypesStep == TypesInv /\ [Next]_vars => TypesInv'
<1> SUFFICES ASSUME TypesInv, [Next]_vars PROVE TypesInv'
  OBVIOUS
<1> USE DEF TypesInv
<1>1. StreamTypeOK
  BY DEF TypeOK
<1>2. ASSUME NEW m \in Subreddits, ItemPosted(m) PROVE TypesInv'
  <2>1. StreamTypeOK'
    BY <1>1, <1>2, PostTypes DEF ItemPosted
  <2>2. posted + 1 \in Items
    BY <1>1, <1>2, StreamAssumption DEF ItemPosted, Post, StreamTypeOK, Items
  <2>3. due' \subseteq Items
    BY <1>2, <2>2 DEF ItemPosted, TypeOK
  <2> QED BY <1>2, <2>1, <2>3 DEF ItemPosted, Post, restUnchanged, TypeOK, HasStream, Active
<1>3. ASSUME NEW i \in Items, ItemDelisted(i) PROVE TypesInv'
  <2>1. StreamTypeOK'
    BY <1>1, <1>3, DelistTypes DEF ItemDelisted
  <2> QED BY <1>3, <2>1 DEF ItemDelisted, Delist, restUnchanged, TypeOK, HasStream, Active
<1>4. ASSUME NEW i \in Items, ItemReported(i) PROVE TypesInv'
  <2>1. StreamTypeOK'
    BY <1>1, <1>4, ReportTypes DEF ItemReported
  <2> QED BY <1>4, <2>1 DEF ItemReported, Report, restUnchanged, TypeOK, HasStream, Active
<1>5. ASSUME NEW c \in Chains, PollBegins(c) PROVE TypesInv'
  <2>1. StreamTypeOK' /\ modStream # Nothing
    BY <1>1, <1>5, FireTypes DEF PollBegins, Fire, HasStream
  <2> QED BY <1>5, <2>1 DEF PollBegins, restUnchanged, TypeOK, HasStream
<1>6. ASSUME NEW c \in Chains, PollAnswered(c) PROVE TypesInv'
  <2> DEFINE batch == Batch(c)
             items == Emissions(c, batch)
  <2>1. Awaits(c) /\ Active(c)
    BY <1>6 DEF PollAnswered, Awaits
  <2>2. /\ Receive(c, batch)
        /\ IF ReadsOn(c, batch) THEN UNCHANGED <<listedOnce, doling, pushed, due>>
           ELSE /\ listedOnce' = TRUE
                /\ IF listedOnce THEN DoleOut(items, doling)
                   ELSE due' = due \ Range(items) /\ UNCHANGED <<doling, pushed>>
        /\ UNCHANGED <<restUnchanged, existing>>
    BY <1>6 DEF PollAnswered
  <2>3. batch \in Seq(Items)
    BY <1>1, <2>1, BatchType
  <2> HIDE DEF batch
  <2>4. items \in Seq(Items)
    BY <1>1, <2>1, <2>3, EmissionsAre
  <2> HIDE DEF items
  <2>5. StreamTypeOK'
    BY <1>1, <2>1, <2>2, <2>3, ReceiveTypes
  <2>6. doling' \in Seq(Items) /\ pushed' \in [Items -> 0 .. 2] /\ due' \subseteq Items
    BY <2>2, <2>4, DoleOutTypes DEF TypeOK
  <2>7. listedOnce' \in BOOLEAN
    BY <2>2 DEF TypeOK
  <2>8. UNCHANGED <<config, eventsState, callback, modStream, unused, fresh, existing>>
    BY <2>2 DEF restUnchanged
  <2>9. modStream # Nothing
    BY <2>1 DEF HasStream
  <2> QED BY <2>5, <2>6, <2>7, <2>8, <2>9 DEF TypeOK, HasStream
<1>7. ASSUME NEW c \in Chains, PollFails(c) PROVE TypesInv'
  <2>1. StreamTypeOK' /\ modStream # Nothing
    BY <1>1, <1>7, FailTypes DEF PollFails, Fail, Awaits, HasStream
  <2> QED BY <1>7, <2>1 DEF PollFails, restUnchanged, TypeOK, HasStream
<1>8. ASSUME NEW c \in Chains, PollRetried(c) PROVE TypesInv'
  <2>1. modStream \in Streams /\ modStream # Nothing
    BY <1>8 DEF PollRetried, HasStream, TypeOK
  <2>2. Timer(modStream) \in Chain /\ Started(stream[modStream], c, FALSE) \in StreamFields
    BY <1>1, <2>1, TimerType, StartedType DEF StreamTypeOK
  <2>3. /\ chain' = [chain EXCEPT ![c] = Timer(modStream)]
        /\ stream' = [stream EXCEPT ![modStream] = Started(stream[modStream], c, FALSE)]
    BY <1>8 DEF PollRetried
  <2>4. StreamTypeOK'
    BY <1>1, <1>8, <2>1, <2>2, <2>3 DEF StreamTypeOK, PollRetried
  <2> QED BY <1>8, <2>1, <2>4 DEF PollRetried, restUnchanged, TypeOK, HasStream
<1>9. ASSUME NEW c \in Chains, GiveUp(c) PROVE TypesInv'
  <2>1. StreamTypeOK' /\ modStream # Nothing
    BY <1>1, <1>9 DEF GiveUp, HasStream, StreamTypeOK
  <2> QED BY <1>9, <2>1 DEF GiveUp, restUnchanged, TypeOK, HasStream
<1>10. ASSUME NEW m \in Subreddits, NEW shared \in BOOLEAN, UpdateConfig(m, shared)
       PROVE TypesInv'
  <2> DEFINE cfg == [config EXCEPT ![m] = shared]
  <2>1. /\ config' = cfg
        /\ IF eventsState[m] = "RUNNING" THEN BuildPolling(m, cfg) ELSE UNCHANGED callback
        /\ ParseSharedStreams(cfg)
        /\ Taken(MustEnd(cfg))
        /\ DueTo({n \in Subreddits : n # m \/ shared})
        /\ UNCHANGED <<source, posted, home, listing, eventsState, listedOnce, doling, pushed>>
    BY <1>10 DEF UpdateConfig
  <2>2. cfg \in [Subreddits -> BOOLEAN]
    BY DEF TypeOK
  <2> HIDE DEF cfg
  <2>3. callback' \in [Subreddits -> BOOLEAN]
    BY <2>1, <2>2 DEF TypeOK, BuildPolling
  <2>4. /\ stream' \in [Streams -> StreamFields]
        /\ chain' \in [Chains -> Chain \cup {Nothing}]
        /\ modStream' \in Streams \cup {Nothing} /\ unused' \subseteq Streams
        /\ modStream # Nothing => modStream' # Nothing
        /\ modStream' = Nothing => chain' = chain
    BY <2>1, <2>2, ParseTypes
  <2>5. StreamTypeOK'
    BY <1>1, <2>1, <2>4 DEF StreamTypeOK
  <2>6. MustEnd(cfg) \in BOOLEAN
    BY DEF MustEnd
  <2>7. fresh' \in BOOLEAN /\ existing' \subseteq Items
    BY <2>1, <2>4, <2>5, <2>6, TakenTypes
  <2>8. HasStream'
    BY <2>4 DEF HasStream, Active
  <2> QED BY <2>1, <2>2, <2>3, <2>4, <2>5, <2>7, <2>8 DEF TypeOK, DueTo
<1>11. ASSUME NEW m \in Subreddits, StartEvents(m) PROVE TypesInv'
  <2>1. callback' \in [Subreddits -> BOOLEAN]
    BY <1>11 DEF StartEvents, BuildPolling, TypeOK
  <2>2. eventsState' \in [Subreddits -> {"RUNNING", "PAUSED", "STOPPED"}]
    BY <1>11 DEF StartEvents, TypeOK
  <2> QED BY <1>11, <2>1, <2>2 DEF StartEvents, streamVars, StreamTypeOK, TypeOK, HasStream, Active
<1>12. ASSUME NEW m \in Subreddits, NEW state \in {"PAUSED", "STOPPED"}, EndEvents(m, state)
       PROVE TypesInv'
  <2>1. eventsState' \in [Subreddits -> {"RUNNING", "PAUSED", "STOPPED"}]
    BY <1>12 DEF EndEvents, TypeOK
  <2>2. due' \subseteq Items
    BY <1>12 DEF EndEvents, DueTo, TypeOK
  <2> QED BY <1>12, <2>1, <2>2 DEF EndEvents, streamVars, StreamTypeOK, TypeOK, HasStream, Active
<1>13. CASE DoleOutNext
  <2>1. doling \in Seq(Items) /\ <<>> \in Seq(Items)
    BY DEF TypeOK
  <2>2. DoleOut(doling, <<>>)
    BY <1>13 DEF DoleOutNext
  <2>3. doling' \in Seq(Items) /\ pushed' \in [Items -> 0 .. 2] /\ due' \subseteq due
    BY <2>1, <2>2, DoleOutTypes
  <2> QED BY <1>13, <2>3 DEF DoleOutNext, streamVars, StreamTypeOK, TypeOK, HasStream, Active
<1>14. CASE RunSharedStreams
  <2>1. /\ RunShared(modStream, stream, chain, callback)
        /\ UNCHANGED <<modStream, source, posted, home, listing>>
        /\ Taken(FALSE)
    BY <1>14 DEF RunSharedStreams
  <2>2. /\ modStream \in Streams \cup {Nothing} /\ stream \in [Streams -> StreamFields]
        /\ chain \in [Chains -> Chain \cup {Nothing}]
    BY DEF TypeOK, StreamTypeOK
  <2>3. /\ stream' \in [Streams -> StreamFields]
        /\ chain' \in [Chains -> Chain \cup {Nothing}]
        /\ modStream = Nothing => chain' = chain
    BY <2>1, <2>2, RunSharedTypes
  <2>4. StreamTypeOK'
    BY <1>1, <2>1, <2>3 DEF StreamTypeOK
  <2>5. fresh' \in BOOLEAN /\ existing' \subseteq Items
    BY <2>1, <2>2, <2>4, TakenTypes
  <2>6. HasStream'
    BY <2>1, <2>3 DEF HasStream, Active
  <2> QED BY <1>14, <2>1, <2>4, <2>5, <2>6 DEF RunSharedStreams, TypeOK
<1>15. CASE HardLimit
  <2>1. /\ modStream # Nothing /\ modStream' = modStream
        /\ chain' = TimerCleared(chain, modStream)
        /\ stream' = [stream EXCEPT ![modStream] = Ended(stream[modStream])]
        /\ UNCHANGED <<source, posted, home, listing>>
        /\ Taken(TRUE)
    BY <1>15 DEF HardLimit
  <2>2. modStream \in Streams
    BY <2>1 DEF TypeOK
  <2>3. StreamTypeOK'
    BY <1>1, <2>1, <2>2, ClearedTypes, EndedType DEF StreamTypeOK
  <2>4. fresh' \in BOOLEAN /\ existing' \subseteq Items
    BY <2>1, <2>2, <2>3, TakenTypes
  <2>5. eventsState' \in [Subreddits -> {"RUNNING", "PAUSED", "STOPPED"}]
    BY <1>15 DEF HardLimit, TypeOK
  <2> QED BY <1>15, <2>1, <2>3, <2>4, <2>5 DEF HardLimit, TypeOK, HasStream
<1>16. CASE UNCHANGED vars
  BY <1>16 DEF vars, streamVars, StreamTypeOK, TypeOK, HasStream, Active
<1> QED
  BY <1>2, <1>3, <1>4, <1>5, <1>6, <1>7, <1>8, <1>9, <1>10, <1>11, <1>12, <1>13, <1>14, <1>15,
     <1>16
  DEF Next, Manager, Poll

\* Every variable keeps its type, whatever the bot does during a poll or a retry,
\* whichever calls fail and whatever the configs say.
THEOREM SharedTypes == Spec => []TypeOK
<1>1. TypesInv => TypeOK
  BY DEF TypesInv
<1> QED
  BY <1>1, TypesInit, TypesStep, PTL DEF Spec

(***************************************************************************)
(* One chain.                                                              *)
(***************************************************************************)

\* Between polls end() leaves no chain.
LEMMA NoneLeft ==
    ASSUME TypesInv, ChainInv, ~InFlight, MayAct, modStream # Nothing, NEW c \in Chains
    PROVE  TimerCleared(chain, modStream)[c] = Nothing
<1>1. chain \in [Chains -> Chain \cup {Nothing}]
  BY DEF TypesInv, TypeOK, StreamTypeOK
<1>2. CASE ~Active(c)
  BY <1>1, <1>2 DEF TimerCleared, Active
<1>3. CASE Active(c)
  <2>1. /\ stream[modStream].interval = c /\ c # Nothing /\ chain[c] # Nothing
        /\ chain[c].stream = modStream /\ chain[c].pc = "timer"
    BY <1>3, StreamAssumption DEF ChainInv, MayAct, Active
  <2> QED BY <1>1, <2>1 DEF TimerCleared
<1> QED
  BY <1>2, <1>3

\* A stream that does not run is started with a chain of its own, or not at all.
LEMMA StartsOne ==
    ASSUME NEW current \in Streams, NEW streams \in [Streams -> StreamFields],
           NEW chains \in [Chains -> Chain \cup {Nothing}], NEW callbacks,
           RunShared(current, streams, chains, callbacks), modStream' = current,
           ~streams[current].running, \A c \in Chains : chains[c] = Nothing
    PROVE  ChainInv'
<1>1. current # Nothing
  BY StreamAssumption
<1>2. CASE stream' = streams /\ chain' = chains
  BY <1>2 DEF ChainInv, Active
<1>3. CASE ~ (stream' = streams /\ chain' = chains)
  <2>1. PICK c \in Chains :
            /\ chain' = [chains EXCEPT ![c] = Timer(current)]
            /\ stream' = [streams EXCEPT ![current] =
                             Started(streams[current], c, streams[current].newStart)]
    BY <1>3, RunSharedDoes
  <2>2. /\ chain'[c] = Timer(current)
        /\ \A d \in Chains \ {c} : chain'[d] = Nothing
        /\ stream'[current] = Started(streams[current], c, streams[current].newStart)
    BY <2>1
  <2>3. streams[current] \in StreamFields
    OBVIOUS
  <2>4. stream'[current].running /\ stream'[current].interval = c
    BY <2>2, <2>3 DEF Started, StreamFields
  <2>5. /\ chain'[c] # Nothing /\ chain'[c].stream = current /\ chain'[c].pc = "timer"
        /\ c # Nothing
    BY <2>2, TimerType, StreamAssumption
  <2> QED BY <1>1, <2>2, <2>4, <2>5 DEF ChainInv, Active
<1> QED
  BY <1>2, <1>3

\* Nothing more than a stream that runs is needed, and so nothing is done.
LEMMA RunsOn ==
    ASSUME TypesInv, ChainInv, ~InFlight, MayAct, NEW callbacks,
           RunShared(modStream, stream, chain, callbacks), UNCHANGED modStream
    PROVE  ChainInv'
<1>1. CASE modStream = Nothing \/ stream[modStream].running
  <2>1. stream' = stream /\ chain' = chain
    BY <1>1, RunSharedDoes
  <2> QED BY <2>1 DEF ChainInv, Active
<1>2. CASE modStream # Nothing /\ ~stream[modStream].running
  <2>1. \A c \in Chains : chain[c] = Nothing
    BY <1>2 DEF ChainInv, MayAct, Active
  <2>2. /\ modStream \in Streams /\ stream \in [Streams -> StreamFields]
        /\ chain \in [Chains -> Chain \cup {Nothing}]
    BY <1>2 DEF TypesInv, TypeOK, StreamTypeOK
  <2> QED BY <1>2, <2>1, <2>2, StartsOne
<1> QED
  BY <1>1, <1>2

\* The streams that parseSharedStreams makes and ends do not run.
LEMMA MadeStill ==
    ASSUME TypeOK, NEW s \in Streams, NEW cfg
    PROVE  ~Made(s, cfg).running
<1> DEFINE new == NewStream(s, Subjects(cfg), source = "new")
<1>1. ~new.running /\ DOMAIN new = {"subreddits", "enforceContinuity", "running", "newStart",
                                    "dateCutoff", "set", "processed", "interval"}
  BY DEF NewStream
<1> HIDE DEF new
<1>2. Made(s, cfg) = IF modStream = Nothing THEN new
                     ELSE [new EXCEPT !.set = stream[modStream].set,
                                      !.processed = stream[modStream].processed,
                                      !.newStart = FALSE]
  BY DEF Made, new
<1> QED
  BY <1>1, <1>2

LEMMA EndedStill ==
    ASSUME NEW fields \in StreamFields
    PROVE  ~Ended(fields).running
  BY DEF Ended, StreamFields

\* A config change between polls leaves one chain for the stream that follows.
LEMMA ParseChains ==
    ASSUME TypesInv, ChainInv, ~InFlight, MayAct,
           NEW cfg \in [Subreddits -> BOOLEAN], ParseSharedStreams(cfg)
    PROVE  ChainInv'
<1>1. /\ chain \in [Chains -> Chain \cup {Nothing}] /\ stream \in [Streams -> StreamFields]
      /\ modStream \in Streams \cup {Nothing} /\ unused \subseteq Streams /\ TypeOK
  BY DEF TypesInv, TypeOK, StreamTypeOK
<1> DEFINE ended == [stream EXCEPT ![modStream] = Ended(stream[modStream])]
           cleared == TimerCleared(chain, modStream)
<1>2. cleared \in [Chains -> Chain \cup {Nothing}]
  BY <1>1, ClearedTypes
<1>3. modStream # Nothing => /\ ended \in [Streams -> StreamFields]
                             /\ ~ended[modStream].running
                             /\ \A c \in Chains : cleared[c] = Nothing
  BY <1>1, EndedType, EndedStill, NoneLeft
<1>4. CASE MustMake(cfg)
  <2> DEFINE streams == IF modStream = Nothing THEN stream ELSE ended
             chains == IF modStream = Nothing THEN chain ELSE cleared
  <2>1. PICK s \in unused :
            /\ modStream' = s
            /\ RunShared(s, [streams EXCEPT ![s] = Made(s, cfg)], chains, callback')
    BY <1>1, <1>4, ParseDoes
  <2>2. s \in Streams /\ Made(s, cfg) \in StreamFields /\ ~Made(s, cfg).running
    BY <1>1, MadeType, MadeStill
  <2>3. chains \in [Chains -> Chain \cup {Nothing}] /\ streams \in [Streams -> StreamFields]
    BY <1>1, <1>2, <1>3
  <2>4. \A c \in Chains : chains[c] = Nothing
    BY <1>3 DEF TypesInv, HasStream, Active
  <2> HIDE DEF streams, chains
  <2> DEFINE made == [streams EXCEPT ![s] = Made(s, cfg)]
  <2>5. made \in [Streams -> StreamFields] /\ ~made[s].running
    BY <2>2, <2>3
  <2>6. RunShared(s, made, chains, callback')
    BY <2>1
  <2> HIDE DEF made
  <2> QED BY <2>1, <2>2, <2>3, <2>4, <2>5, <2>6, StartsOne
<1>5. CASE ~MustMake(cfg) /\ MustEnd(cfg)
  <2>1. /\ modStream # Nothing /\ UNCHANGED modStream
        /\ RunShared(modStream, ended, cleared, callback')
    BY <1>1, <1>5, ParseDoes
  <2> HIDE DEF ended, cleared
  <2> QED BY <1>1, <1>2, <1>3, <2>1, StartsOne
<1>6. CASE ~MustMake(cfg) /\ ~MustEnd(cfg)
  BY <1>1, <1>6, ParseDoes, RunsOn
<1> QED
  BY <1>4, <1>5, <1>6

LEMMA ChainInit == Init => ChainInv
<1> SUFFICES ASSUME Init PROVE ChainInv
  OBVIOUS
<1>1. \A c \in Chains : ~Active(c)
  BY DEF Init, Active
<1>2. ASSUME modStream # Nothing PROVE ~stream[modStream].running
  <2>1. modStream \in Streams
    BY <1>2, SharedAssumption DEF Init
  <2>2. PICK subreddits, reads : stream[modStream] = NewStream(modStream, subreddits, reads)
    BY <2>1 DEF Init
  <2> QED BY <2>2 DEF NewStream
<1> QED
  BY <1>1, <1>2 DEF ChainInv

LEMMA ChainStep == ~InFlight /\ TypesInv /\ ChainInv /\ [Next]_vars => ChainInv'
<1> SUFFICES ASSUME ~InFlight, TypesInv, ChainInv, [Next]_vars PROVE ChainInv'
  OBVIOUS
<1>1. /\ StreamTypeOK /\ chain \in [Chains -> Chain \cup {Nothing}]
      /\ stream \in [Streams -> StreamFields]
      /\ modStream \in Streams \cup {Nothing} /\ TypeOK
  BY DEF TypesInv, TypeOK, StreamTypeOK
<1>2. ASSUME UNCHANGED <<stream, chain, modStream>> PROVE ChainInv'
  BY <1>2 DEF ChainInv, Active
<1>3. ASSUME NEW m \in Subreddits, ItemPosted(m) PROVE ChainInv'
  BY <1>2, <1>3 DEF ItemPosted, Post, restUnchanged
<1>4. ASSUME NEW i \in Items, ItemDelisted(i) PROVE ChainInv'
  BY <1>2, <1>4 DEF ItemDelisted, Delist, restUnchanged
<1>5. ASSUME NEW i \in Items, ItemReported(i) PROVE ChainInv'
  BY <1>2, <1>5 DEF ItemReported, Report, restUnchanged
<1>6. ASSUME NEW c \in Chains, PollBegins(c) PROVE ChainInv'
  <2>1. /\ Active(c) /\ chain[c].pc = "timer" /\ stream' = stream /\ modStream' = modStream
        /\ chain' = [chain EXCEPT ![c].pc = "get"]
    BY <1>6 DEF PollBegins, Fire, restUnchanged
  <2>2. chain[c] \in Chain
    BY <1>1, <2>1 DEF Active
  <2>3. /\ chain'[c] \in Chain /\ chain'[c].stream = chain[c].stream /\ chain'[c].pc = "get"
        /\ \A d \in Chains \ {c} : chain'[d] = chain[d]
    BY <1>1, <2>1, <2>2 DEF Chain
  <2>4. chain'[c] # Nothing
    BY <2>3, NothingAssumption
  <2> QED BY <2>1, <2>3, <2>4 DEF ChainInv, Active
<1>7. ASSUME NEW c \in Chains, PollAnswered(c) PROVE ChainInv'
  <2> DEFINE batch == Batch(c)
  <2>1. Awaits(c) /\ Active(c) /\ Receive(c, batch) /\ UNCHANGED modStream
    BY <1>7 DEF PollAnswered, Awaits, restUnchanged
  <2>2. batch \in Seq(Items)
    BY <1>1, <2>1, BatchType
  <2>3. modStream # Nothing /\ chain[c].stream = modStream /\ stream[modStream].interval = c
    BY <2>1 DEF ChainInv
  <2> HIDE DEF batch
  <2>4. /\ \A d \in Chains \ {c} : chain'[d] = chain[d]
        /\ Active(c)' /\ chain'[c].stream = chain[c].stream
        /\ chain'[c].pc \in {"more", "timer"}
    BY <1>1, <2>1, <2>2, ReceiveChains
  <2>5. stream'[modStream].running = stream[modStream].running
    BY <1>1, <2>1, <2>2, <2>3, ReceiveUpdates
  <2>6. stream'[modStream].interval = c
    BY <1>1, <2>1, <2>2, <2>3, ReceiveUpdates
  <2>7. stream[modStream].running
    BY <2>1 DEF ChainInv, Awaits
  <2>8. c # Nothing
    BY StreamAssumption
  <2> QED BY <2>1, <2>3, <2>4, <2>5, <2>6, <2>7, <2>8 DEF ChainInv, Active
<1>8. ASSUME NEW c \in Chains, PollFails(c) PROVE ChainInv'
  <2>1. /\ Active(c) /\ modStream' = modStream
        /\ chain' = [chain EXCEPT ![c] = [Timer(chain[c].stream) EXCEPT !.pc = "retrying"]]
        /\ stream' = [stream EXCEPT ![chain[c].stream].running = FALSE]
    BY <1>8 DEF PollFails, Fail, Awaits, restUnchanged
  <2>2. modStream \in Streams /\ chain[c].stream = modStream /\ stream[modStream].interval = c
    BY <1>1, <2>1 DEF ChainInv
  <2>3. /\ chain'[c].stream = modStream /\ chain'[c].pc = "retrying"
        /\ \A d \in Chains \ {c} : chain'[d] = chain[d]
    BY <1>1, <2>1, <2>2 DEF Timer
  <2>4. stream[modStream] \in StreamFields
    BY <1>1, <2>2
  <2>5. ~stream'[modStream].running /\ stream'[modStream].interval = c
    BY <1>1, <2>1, <2>2, <2>4 DEF StreamFields
  <2> QED BY <2>1, <2>2, <2>3, <2>5 DEF ChainInv, Active
<1>9. ASSUME NEW c \in Chains, PollRetried(c) PROVE ChainInv'
  <2>1. /\ Active(c) /\ modStream' = modStream
        /\ chain' = [chain EXCEPT ![c] = Timer(modStream)]
        /\ stream' = [stream EXCEPT ![modStream] = Started(stream[modStream], c, FALSE)]
    BY <1>9 DEF PollRetried, restUnchanged
  <2>2. modStream \in Streams /\ modStream # Nothing /\ c # Nothing
    BY <1>1, <2>1, StreamAssumption DEF ChainInv
  <2>3. /\ chain'[c] # Nothing /\ chain'[c].stream = modStream /\ chain'[c].pc = "timer"
        /\ \A d \in Chains \ {c} : chain'[d] = chain[d]
    BY <1>1, <2>1, <2>2, TimerType
  <2>4. stream'[modStream] = Started(stream[modStream], c, FALSE) /\ stream[modStream] \in StreamFields
    BY <1>1, <2>1, <2>2
  <2>5. stream'[modStream].running /\ stream'[modStream].interval = c
    BY <2>4 DEF Started, StreamFields
  <2> QED BY <2>1, <2>2, <2>3, <2>5 DEF ChainInv, Active
<1>10. ASSUME NEW c \in Chains, GiveUp(c) PROVE ChainInv'
  <2>1. /\ Active(c) /\ chain[c].pc = "retrying" /\ UNCHANGED <<stream, modStream>>
        /\ chain' = [chain EXCEPT ![c] = Nothing]
    BY <1>10 DEF GiveUp, restUnchanged
  <2>2. ~stream[modStream].running
    BY <2>1 DEF ChainInv
  <2>3. \A d \in Chains : chain'[d] = IF d = c THEN Nothing ELSE chain[d]
    BY <1>1, <2>1
  <2> QED BY <2>1, <2>2, <2>3 DEF ChainInv, Active
<1>11. ASSUME NEW m \in Subreddits, NEW shared \in BOOLEAN, UpdateConfig(m, shared)
       PROVE ChainInv'
  <2> DEFINE cfg == [config EXCEPT ![m] = shared]
  <2>1. cfg \in [Subreddits -> BOOLEAN]
    BY <1>1 DEF TypeOK
  <2>2. MayAct /\ ParseSharedStreams(cfg)
    BY <1>11 DEF UpdateConfig
  <2> HIDE DEF cfg
  <2> QED BY <2>1, <2>2, ParseChains
<1>12. ASSUME NEW m \in Subreddits, StartEvents(m) PROVE ChainInv'
  BY <1>2, <1>12 DEF StartEvents, streamVars
<1>13. ASSUME NEW m \in Subreddits, NEW state, EndEvents(m, state) PROVE ChainInv'
  BY <1>2, <1>13 DEF EndEvents, streamVars
<1>14. CASE DoleOutNext
  BY <1>2, <1>14 DEF DoleOutNext, streamVars
<1>15. CASE RunSharedStreams
  BY <1>15, RunsOn DEF RunSharedStreams
<1>16. CASE HardLimit
  <2>1. /\ MayAct /\ modStream # Nothing /\ modStream' = modStream
        /\ chain' = TimerCleared(chain, modStream)
        /\ stream' = [stream EXCEPT ![modStream] = Ended(stream[modStream])]
    BY <1>16 DEF HardLimit
  <2>2. \A c \in Chains : chain'[c] = Nothing
    BY <2>1, NoneLeft
  <2>3. ~stream'[modStream].running
    BY <1>1, <2>1, EndedStill
  <2> QED BY <2>1, <2>2, <2>3 DEF ChainInv, Active
<1>17. CASE UNCHANGED vars
  BY <1>2, <1>17 DEF vars, streamVars
<1> QED
  BY <1>3, <1>4, <1>5, <1>6, <1>7, <1>8, <1>9, <1>10, <1>11, <1>12, <1>13, <1>14, <1>15, <1>16,
     <1>17
  DEF Next, Manager, Poll

\* One chain is one element.
LEMMA ChainCounts == TypesInv /\ ChainInv => OneChain
<1> SUFFICES ASSUME TypesInv, ChainInv PROVE OneChain
  OBVIOUS
<1> DEFINE polling == {c \in Chains : Active(c) /\ chain[c].pc # "retrying"}
<1>1. CASE modStream # Nothing /\ stream[modStream].running
  <2> DEFINE c == stream[modStream].interval
  <2>1. c \in Chains
    BY <1>1 DEF TypesInv, TypeOK, StreamTypeOK, StreamFields, ChainInv
  <2>2. polling = {c}
    BY <1>1, <2>1 DEF ChainInv
  <2>3. Cardinality(polling) = 1
    BY <2>2, FS_Singleton
  <2> QED BY <1>1, <2>3 DEF ChainInv, OneChain
<1>2. CASE ~ (modStream # Nothing /\ stream[modStream].running)
  <2>1. polling = {}
    BY <1>2 DEF ChainInv
  <2>2. Cardinality(polling) = 0
    BY <2>1, FS_EmptySet
  <2> QED BY <1>2, <2>2 DEF ChainInv, OneChain
<1> QED
  BY <1>1, <1>2

(***************************************************************************)
(* Callbacks.                                                              *)
(***************************************************************************)

LEMMA FollowInit == Init => FollowInv
<1> SUFFICES ASSUME Init PROVE FollowInv
  OBVIOUS
<1>1. modStream = Nothing => SharedBy(config) = {}
  BY SharedAssumption, StreamAssumption DEF Init
<1> QED
  BY <1>1 DEF Init, FollowInv, SharedBy

LEMMA FollowStep == ~Unfollowed /\ TypesInv /\ FollowInv /\ [Next]_vars => FollowInv'
<1> SUFFICES ASSUME ~Unfollowed, TypesInv, FollowInv, [Next]_vars PROVE FollowInv'
  OBVIOUS
<1>1. config \in [Subreddits -> BOOLEAN] /\ callback \in [Subreddits -> BOOLEAN] /\ TypeOK
  BY DEF TypesInv, TypeOK
<1>2. ASSUME UNCHANGED <<config, eventsState, callback, modStream>> PROVE FollowInv'
  BY <1>2 DEF FollowInv
<1>3. ASSUME NEW m \in Subreddits, ItemPosted(m) PROVE FollowInv'
  BY <1>2, <1>3 DEF ItemPosted, restUnchanged
<1>4. ASSUME NEW i, ItemDelisted(i) \/ ItemReported(i) PROVE FollowInv'
  BY <1>2, <1>4 DEF ItemDelisted, ItemReported, restUnchanged
<1>5. ASSUME NEW c, Poll(c) PROVE FollowInv'
  BY <1>2, <1>5 DEF Poll, PollBegins, PollAnswered, PollFails, PollRetried, GiveUp, restUnchanged
<1>6. ASSUME NEW m \in Subreddits, NEW shared \in BOOLEAN, UpdateConfig(m, shared)
      PROVE FollowInv'
  <2> DEFINE cfg == [config EXCEPT ![m] = shared]
  <2>1. /\ config' = cfg /\ cfg \in [Subreddits -> BOOLEAN] /\ eventsState' = eventsState
        /\ eventsState[m] # "PAUSED"
        /\ shared /\ modStream = Nothing => eventsState[m] # "RUNNING"
        /\ IF eventsState[m] = "RUNNING" THEN BuildPolling(m, cfg) ELSE UNCHANGED callback
        /\ ParseSharedStreams(cfg)
    BY <1>1, <1>6 DEF UpdateConfig
  <2>2. \A n \in Subreddits : cfg[n] = IF n = m THEN shared ELSE config[n]
    BY <1>1
  <2> HIDE DEF cfg
  <2> DEFINE built == cfg[m] /\ (modStream # Nothing \/ callback[m])
  <2>3. \/ callback' = [callback EXCEPT ![m] = built]
        \/ callback' = callback /\ eventsState[m] # "RUNNING"
    <3>1. CASE eventsState[m] = "RUNNING"
      <4>1. BuildPolling(m, cfg)
        BY <2>1, <3>1
      <4> QED BY <4>1 DEF BuildPolling
    <3>2. CASE eventsState[m] # "RUNNING"
      BY <2>1, <3>2
    <3> QED BY <3>1, <3>2
  <2>4. \A n \in Subreddits \ {m} : callback'[n] = callback[n]
    BY <1>1, <2>3
  <2>5. eventsState[m] \in {"RUNNING", "PAUSED", "STOPPED"}
    BY DEF TypesInv, TypeOK
  <2>6. eventsState[m] = "RUNNING" => (callback'[m] <=> cfg[m] /\ (modStream # Nothing \/ callback[m]))
    BY <1>1, <2>3
  <2>7. modStream # Nothing => modStream' # Nothing
    BY <1>1, <2>1, ParseTypes
  <2>8. modStream = Nothing /\ modStream' = Nothing => \A n \in Subreddits : ~cfg[n]
    <3>1. MustMake(cfg) => modStream' # Nothing
      BY <1>1, <2>1, ParseDoes, StreamAssumption DEF TypeOK
    <3> QED BY <3>1 DEF MustMake, SharedBy
  <2>9. CASE modStream = Nothing
    <3>1. \A n \in Subreddits : ~config[n] /\ ~callback[n]
      BY <2>9 DEF FollowInv
    <3>2. ~callback'[m]
      BY <1>1, <2>2, <2>3, <2>9, <3>1
    <3>3. \A n \in Subreddits : ~callback'[n]
      BY <2>4, <3>1, <3>2
    <3>4. \A n \in Subreddits : eventsState[n] # "STOPPED" => ~cfg[n]
      BY <2>1, <2>2, <2>5, <2>9, <3>1
    <3> QED BY <2>1, <2>8, <2>9, <3>3, <3>4 DEF FollowInv
  <2>10. CASE modStream # Nothing
    <3>1. eventsState[m] # "STOPPED" => (callback'[m] <=> cfg[m])
      BY <2>1, <2>5, <2>6, <2>10
    <3>2. \A n \in Subreddits \ {m} : eventsState[n] # "STOPPED" => (callback'[n] <=> cfg[n])
      BY <2>2, <2>4, <2>10 DEF FollowInv
    <3> QED BY <2>1, <2>7, <2>10, <3>1, <3>2 DEF FollowInv
  <2> QED BY <2>9, <2>10
<1>7. ASSUME NEW m \in Subreddits, StartEvents(m) PROVE FollowInv'
  <2>1. /\ UNCHANGED <<config, modStream>>
        /\ eventsState' = [eventsState EXCEPT ![m] = "RUNNING"]
        /\ IF eventsState[m] = "STOPPED"
           THEN callback' = [callback EXCEPT ![m] = config[m] /\ (modStream # Nothing \/ callback[m])]
           ELSE callback' = callback
    BY <1>7 DEF StartEvents, BuildPolling
  <2>2. \A n \in Subreddits \ {m} : eventsState'[n] = eventsState[n] /\ callback'[n] = callback[n]
    BY <1>1, <2>1 DEF TypeOK
  <2>3. IF eventsState[m] = "STOPPED"
        THEN callback'[m] <=> config[m] /\ (modStream # Nothing \/ callback[m])
        ELSE callback'[m] = callback[m]
    BY <1>1, <2>1
  <2> QED BY <2>1, <2>2, <2>3 DEF FollowInv
<1>8. ASSUME NEW m \in Subreddits, NEW state \in {"PAUSED", "STOPPED"}, EndEvents(m, state)
      PROVE FollowInv'
  <2>1. /\ UNCHANGED <<config, modStream, callback>>
        /\ eventsState' = [eventsState EXCEPT ![m] = state]
        /\ state = "PAUSED" => eventsState[m] = "RUNNING"
    BY <1>8 DEF EndEvents
  <2>2. \A n \in Subreddits : eventsState'[n] # "STOPPED" => eventsState[n] # "STOPPED"
    BY <1>1, <2>1 DEF TypeOK
  <2> QED BY <2>1, <2>2 DEF FollowInv
<1>9. CASE DoleOutNext
  BY <1>2, <1>9 DEF DoleOutNext
<1>10. CASE RunSharedStreams
  BY <1>2, <1>10 DEF RunSharedStreams
<1>11. CASE HardLimit
  <2>1. /\ UNCHANGED <<config, modStream, callback>>
        /\ \A n \in Subreddits : eventsState'[n] # "STOPPED" => eventsState[n] # "STOPPED"
    BY <1>11 DEF HardLimit
  <2> QED BY <2>1 DEF FollowInv
<1>12. CASE UNCHANGED vars
  BY <1>2, <1>12 DEF vars
<1> QED
  BY <1>3, <1>4, <1>5, <1>6, <1>7, <1>8, <1>9, <1>10, <1>11, <1>12 DEF Next, Manager

\* However managers and the bot start and end it, replace it and retry, the
\* stream is polled by one chain while it runs, and the managers that run have
\* the callbacks their configs ask for: provided that the bot acts on the stream
\* between its polls, and that configs change only when the callback follows.
THEOREM FollowsConfigs == ~InFlight /\ ~Unfollowed /\ Spec => []StreamFollows
<1> SUFFICES ASSUME ~InFlight, ~Unfollowed PROVE Spec => []StreamFollows
  OBVIOUS
<1> DEFINE Inv == TypesInv /\ ChainInv /\ FollowInv
<1>1. Init => Inv
  BY TypesInit, ChainInit, FollowInit
<1>2. Inv /\ [Next]_vars => Inv'
  BY TypesStep, ChainStep, FollowStep
<1>3. Inv => StreamFollows
  BY ChainCounts DEF StreamFollows, CallbacksFollowConfigs, FollowInv
<1> QED
  BY <1>1, <1>2, <1>3, PTL DEF Spec

(***************************************************************************)
(* What is pushed: the invariant.                                          *)
(***************************************************************************)

\* The new items of the poll that chain c is at.
Found(c) == IF Active(c) THEN chain[c].newItems ELSE <<>>

\* What has been pushed.
Sent == {i \in Items : pushed[i] # 0}

\* Nothing is listed twice; what is listed and what is processed was posted; and
\* without reports the listing keeps the order of the posts.
ListingInv ==
    /\ Range(listing) \subseteq 1 .. posted
    /\ UseDateCutoff => Descending(listing)
    /\ Distinct(listing)
    /\ \A s \in Streams : stream[s].processed \subseteq 1 .. posted

\* A stream that never ran, or was ended, is at its first poll and has no cutoff;
\* new items are kept from page to page only, when the pages have been processed;
\* and a retry is never that of a first poll.
StreamInv ==
    /\ modStream = Nothing => fresh
    /\ modStream # Nothing =>
           /\ fresh => ~stream[modStream].running /\ stream[modStream].newStart
           /\ stream[modStream].newStart => stream[modStream].dateCutoff = 0
           /\ stream[modStream].dateCutoff <= posted + 1
    /\ \A c \in Chains : Active(c) =>
           /\ chain[c].pc # "more" => chain[c].newItems = <<>>
           /\ chain[c].pc \in {"more", "retrying"} => ~stream[modStream].newStart
           /\ chain[c].pc = "more" =>
                  Range(chain[c].batch) \subseteq stream[modStream].processed

\* What was listed when the stream took up its subreddit is processed or older
\* than the cutoff, once the stream has polled, as far as it is shown to it; and
\* if it is among the new items of a poll it is older than the cutoff.
KnownInv ==
    /\ existing \subseteq Range(listing)
    /\ ~UseDateCutoff => existing = {}
    /\ existing \cap Range(doling) = {}
    /\ modStream # Nothing /\ ~stream[modStream].newStart =>
           \A i \in existing : home[i] \in stream[modStream].subreddits =>
               i \in stream[modStream].processed \/ i < stream[modStream].dateCutoff
    /\ \A c \in Chains : \A i \in existing \cap Range(Found(c)) :
           i < stream[modStream].dateCutoff

\* An item on its way to a firehose.
OnItsWay(i) ==
    \/ i \in Range(doling)
    \/ \E c \in Chains : i \in Range(Found(c))
    \/ i \notin stream[modStream].processed

\* What is due is on its way, the cutoff will let it through, and its manager
\* listens by its config.
DueInv ==
    /\ ~UseDateCutoff => due = {}
    /\ \A i \in due :
           /\ i \in 1 .. posted
           /\ eventsState[home[i]] = "RUNNING" /\ config[home[i]]
           /\ modStream # Nothing /\ ~stream[modStream].newStart
           /\ i >= stream[modStream].dateCutoff
           /\ OnItsWay(i)

\* What is being doled out, what has been pushed and what a poll has found are
\* apart from one another, each item is there once, and all are processed.
OnceInv ==
    /\ Distinct(doling)
    /\ Sent \cap Range(doling) = {}
    /\ modStream = Nothing => doling = <<>> /\ Sent = {}
    /\ modStream # Nothing => Sent \cup Range(doling) \subseteq stream[modStream].processed
    /\ \A c \in Chains :
           /\ Distinct(Found(c))
           /\ Range(Found(c)) \cap (Sent \cup Range(doling)) = {}
           /\ modStream # Nothing => Range(Found(c)) \subseteq stream[modStream].processed

PushInv == ListingInv /\ StreamInv /\ KnownInv /\ DueInv /\ OnceInv

\* A step pushes nothing that is old or was pushed before.
PushesNew == \A i \in Items : pushed'[i] # pushed[i] => i \notin existing /\ pushed[i] = 0

LEMMA NoneIn == Range(<<>>) = {} /\ Distinct(<<>>)
  BY DEF Range, Distinct

LEMMA PushInit == Init => PushInv
<1> SUFFICES ASSUME Init PROVE PushInv
  OBVIOUS
<1>1. /\ posted = 0 /\ listing = <<>> /\ doling = <<>> /\ existing = {} /\ due = {} /\ fresh
      /\ \A c \in Chains : Found(c) = <<>>
      /\ \A c \in Chains : ~Active(c)
  BY DEF Init, RedditInit, Found, Active
<1>2. Sent = {}
  BY DEF Init, Sent
<1>3. ASSUME NEW t \in Streams
      PROVE  /\ ~stream[t].running /\ stream[t].newStart
             /\ stream[t].dateCutoff = 0 /\ stream[t].processed = {}
  <2>1. PICK subreddits, reads : stream[t] = NewStream(t, subreddits, reads)
    BY DEF Init
  <2> QED BY <2>1 DEF NewStream
<1>4. modStream # Nothing => modStream \in Streams
  BY SharedAssumption DEF Init
<1>5. Descending(<<>>)
  BY DEF Descending
<1> QED
  BY <1>1, <1>2, <1>3, <1>4, <1>5, NoneIn
  DEF PushInv, ListingInv, StreamInv, KnownInv, DueInv, OnceInv

(***************************************************************************)
(* What is pushed: steps that do not answer a poll.                        *)
(***************************************************************************)

\* Reddit and the managers do nothing else that concerns what is pushed.
RestSame == UNCHANGED <<source, posted, home, listing, doling, pushed>>

\* The stream goes on as it is.
LEMMA SameStream ==
    ASSUME TypesInv, PushInv, StreamInv', RestSame, UNCHANGED <<modStream, existing>>,
           due' \subseteq due,
           \A i \in due' : eventsState'[home[i]] = "RUNNING" /\ config'[home[i]],
           \A c \in Chains : Found(c)' = Found(c),
           \A t \in Streams : stream'[t].processed = stream[t].processed,
           modStream # Nothing =>
               /\ stream'[modStream].subreddits = stream[modStream].subreddits
               /\ stream'[modStream].newStart <=> stream[modStream].newStart
               /\ stream'[modStream].dateCutoff = stream[modStream].dateCutoff
    PROVE  PushInv'
<1>1. /\ UNCHANGED UseDateCutoff /\ UNCHANGED Sent
      /\ modStream # Nothing => modStream \in Streams
  BY DEF RestSame, UseDateCutoff, Sent, TypesInv, TypeOK
<1>2. ListingInv'
  BY <1>1 DEF PushInv, ListingInv, RestSame
<1>3. KnownInv'
  <2>1. /\ existing' \subseteq Range(listing)' /\ (~UseDateCutoff' => existing' = {})
        /\ existing' \cap Range(doling)' = {}
    BY <1>1 DEF PushInv, KnownInv, RestSame
  <2>2. ASSUME modStream' # Nothing, ~stream'[modStream'].newStart, NEW i \in existing',
               home'[i] \in stream'[modStream'].subreddits
        PROVE  i \in stream'[modStream'].processed \/ i < stream'[modStream'].dateCutoff
    BY <1>1, <2>2 DEF PushInv, KnownInv, RestSame
  <2>3. ASSUME NEW c \in Chains, NEW i \in existing' \cap Range(Found(c)')
        PROVE  i < stream'[modStream'].dateCutoff
    <3>1. modStream # Nothing
      <4>1. Found(c) # <<>>
        BY <2>3, NoneIn
      <4> QED BY <4>1 DEF Found, TypesInv, HasStream
    <3> QED BY <1>1, <2>3, <3>1 DEF PushInv, KnownInv, RestSame
  <2> QED BY <2>1, <2>2, <2>3 DEF KnownInv
<1>4. DueInv'
  <2>1. ~UseDateCutoff' => due' = {}
    BY <1>1 DEF PushInv, DueInv
  <2>2. ASSUME NEW i \in due'
        PROVE  /\ i \in 1 .. posted'
               /\ eventsState'[home'[i]] = "RUNNING" /\ config'[home'[i]]
               /\ modStream' # Nothing /\ ~stream'[modStream'].newStart
               /\ i >= stream'[modStream'].dateCutoff
               /\ OnItsWay(i)'
    <3>1. i \in due /\ modStream # Nothing /\ modStream \in Streams /\ OnItsWay(i)
      BY <1>1, <2>2 DEF PushInv, DueInv
    <3>2. OnItsWay(i)'
      BY <3>1 DEF OnItsWay, RestSame
    <3> QED BY <2>2, <3>1, <3>2 DEF PushInv, DueInv, RestSame
  <2> QED BY <2>1, <2>2 DEF DueInv
<1>5. OnceInv'
  <2>1. modStream # Nothing => stream'[modStream'].processed = stream[modStream].processed
    BY <1>1
  <2>2. /\ modStream' = modStream /\ doling' = doling /\ Sent' = Sent
    BY <1>1 DEF RestSame
  <2> QED BY <2>1, <2>2 DEF PushInv, OnceInv
<1> QED
  BY <1>2, <1>3, <1>4, <1>5 DEF PushInv

\* The stream is at its first poll, and knows at least what the last one did.
LEMMA NewlyStarted ==
    ASSUME TypesInv, PushInv, StreamInv', RestSame,
           modStream' \in Streams, stream'[modStream'].newStart, due' = {},
           existing' \subseteq Range(listing), ~UseDateCutoff => existing' = {},
           existing' \cap Range(doling) = {},
           \A c \in Chains : Found(c)' = <<>>,
           \A t \in Streams : stream'[t].processed \subseteq 1 .. posted,
           modStream # Nothing =>
               stream[modStream].processed \subseteq stream'[modStream'].processed
    PROVE  PushInv'
<1>1. UNCHANGED UseDateCutoff /\ UNCHANGED Sent /\ modStream' # Nothing
  BY StreamAssumption DEF RestSame, UseDateCutoff, Sent
<1>2. ListingInv'
  BY <1>1 DEF PushInv, ListingInv, RestSame
<1>3. KnownInv'
  BY <1>1, NoneIn DEF KnownInv, RestSame
<1>4. DueInv'
  BY DEF DueInv
<1>5. OnceInv'
  <2>1. Sent \cup Range(doling) \subseteq stream'[modStream'].processed
    <3>1. CASE modStream = Nothing
      BY <3>1, NoneIn DEF PushInv, OnceInv
    <3>2. CASE modStream # Nothing
      BY <3>2 DEF PushInv, OnceInv
    <3> QED BY <3>1, <3>2
  <2>2. doling' = doling /\ Sent' = Sent
    BY <1>1 DEF RestSame
  <2> QED BY <1>1, <2>1, <2>2, NoneIn DEF PushInv, OnceInv
<1> QED
  BY <1>2, <1>3, <1>4, <1>5 DEF PushInv

\* A stream that goes on with what another has processed, and has no cutoff, takes
\* its place between two polls.
LEMMA Replaced ==
    ASSUME TypesInv, PushInv, StreamInv', RestSame,
           UseDateCutoff, modStream \in Streams, modStream' \in Streams,
           ~stream'[modStream'].newStart, stream'[modStream'].dateCutoff = 0,
           stream'[modStream'].processed = stream[modStream].processed,
           \A t \in Streams : stream'[t].processed \subseteq 1 .. posted,
           due' \subseteq due,
           \A i \in due' : eventsState'[home[i]] = "RUNNING" /\ config'[home[i]],
           \A c \in Chains : Found(c) = <<>> /\ Found(c)' = <<>>,
           existing' \subseteq existing \cup
               {i \in Range(listing) \ Range(doling) :
                   home[i] \in stream'[modStream'].subreddits \ stream[modStream].subreddits},
           \A i \in Range(listing) \ stream[modStream].processed :
               home[i] \in stream'[modStream'].subreddits =>
                   i \notin existing /\ home[i] \in stream[modStream].subreddits
    PROVE  PushInv'
<1>1. /\ UNCHANGED UseDateCutoff /\ UNCHANGED Sent
      /\ modStream # Nothing /\ modStream' # Nothing
  BY StreamAssumption DEF RestSame, UseDateCutoff, Sent
<1>2. ListingInv'
  BY <1>1 DEF PushInv, ListingInv, RestSame
<1>3. KnownInv'
  <2>1. existing' \subseteq Range(listing) /\ existing' \cap Range(doling) = {}
    BY DEF PushInv, KnownInv
  <2>2. ASSUME NEW i \in existing', home[i] \in stream'[modStream'].subreddits
        PROVE  i \in stream'[modStream'].processed
    BY <2>1, <2>2
  <2> QED BY <1>1, <2>1, <2>2, NoneIn DEF KnownInv, RestSame
<1>4. DueInv'
  <2> SUFFICES ASSUME NEW i \in due'
               PROVE  /\ i \in 1 .. posted'
                      /\ eventsState'[home'[i]] = "RUNNING" /\ config'[home'[i]]
                      /\ i >= stream'[modStream'].dateCutoff
                      /\ OnItsWay(i)'
    BY <1>1 DEF DueInv
  <2>1. i \in due /\ i \in 1 .. posted /\ posted \in Nat /\ OnItsWay(i)
    BY StreamAssumption DEF PushInv, DueInv, TypesInv, TypeOK, StreamTypeOK
  <2>2. i \in Range(doling) \/ i \notin stream[modStream].processed
    BY <2>1, NoneIn DEF OnItsWay
  <2>3. OnItsWay(i)'
    BY <2>2 DEF OnItsWay, RestSame
  <2> QED BY <2>1, <2>3 DEF RestSame
<1>5. OnceInv'
  <2>1. doling' = doling /\ Sent' = Sent
    BY <1>1 DEF RestSame
  <2> QED BY <1>1, <2>1, NoneIn DEF PushInv, OnceInv
<1> QED
  BY <1>2, <1>3, <1>4, <1>5 DEF PushInv

LEMMA PostKeeps ==
    ASSUME TypesInv, FollowInv, PushInv, NEW m \in Subreddits, ItemPosted(m)
    PROVE  PushInv'
<1>1. /\ StreamTypeOK /\ Post(m) /\ posted \in Nat /\ posted' = posted + 1 /\ posted + 1 \in Items
      /\ home \in [Items -> Subreddits] /\ home' = [home EXCEPT ![posted + 1] = m]
      /\ UNCHANGED <<source, stream, chain, config, eventsState, callback, modStream, fresh,
                     doling, pushed, existing>>
      /\ due' = IF Watched(m) THEN due \cup {posted + 1} ELSE due
      /\ modStream # Nothing => modStream \in Streams
      /\ stream \in [Streams -> StreamFields]
  BY StreamAssumption
  DEF TypesInv, TypeOK, StreamTypeOK, ItemPosted, Post, Items, restUnchanged
<1>2. /\ UNCHANGED UseDateCutoff /\ UNCHANGED Sent
      /\ \A c \in Chains : Found(c)' = Found(c) /\ (Active(c)' <=> Active(c))
      /\ \A i \in 1 .. posted : home'[i] = home[i] /\ i \in 1 .. posted'
  <2>1. \A i \in 1 .. posted : i \in Items /\ i # posted + 1
    BY <1>1, StreamAssumption DEF Items
  <2> QED BY <1>1, <2>1 DEF UseDateCutoff, Sent, Found, Active
<1>3. /\ Range(listing') = {posted + 1} \cup Range(listing)
      /\ Descending(listing) => Descending(listing')
      /\ Distinct(listing) => Distinct(listing')
  BY <1>1, PostLists DEF PushInv, ListingInv
<1>4. ListingInv'
  <2>1. posted + 1 \in 1 .. posted'
    BY <1>1
  <2> QED BY <1>1, <1>2, <1>3, <2>1 DEF PushInv, ListingInv
<1>5. StreamInv'
  <2>1. modStream # Nothing => stream[modStream].dateCutoff \in Nat
    BY <1>1 DEF StreamFields
  <2>2. modStream # Nothing => stream[modStream].dateCutoff <= posted' + 1
    BY <1>1, <2>1 DEF PushInv, StreamInv
  <2> QED BY <1>1, <1>2, <2>2 DEF PushInv, StreamInv
<1>6. KnownInv'
  <2>1. \A i \in existing : i \in 1 .. posted
    BY DEF PushInv, KnownInv, ListingInv
  <2> QED BY <1>1, <1>2, <1>3, <2>1 DEF PushInv, KnownInv
<1>7. DueInv'
  <2>1. ASSUME NEW i \in due
        PROVE  /\ i \in 1 .. posted'
               /\ eventsState'[home'[i]] = "RUNNING" /\ config'[home'[i]]
               /\ modStream' # Nothing /\ ~stream'[modStream'].newStart
               /\ i >= stream'[modStream'].dateCutoff
               /\ OnItsWay(i)'
    BY <1>1, <1>2 DEF PushInv, DueInv, OnItsWay
  <2>2. ASSUME Watched(m), NEW i, i = posted + 1
        PROVE  /\ i \in 1 .. posted'
               /\ eventsState'[home'[i]] = "RUNNING" /\ config'[home'[i]]
               /\ modStream' # Nothing /\ ~stream'[modStream'].newStart
               /\ i >= stream'[modStream'].dateCutoff
               /\ OnItsWay(i)'
    <3>1. /\ modStream # Nothing /\ modStream \in Streams /\ ~stream[modStream].newStart
          /\ eventsState[m] = "RUNNING" /\ callback[m]
      BY <1>1, <2>2 DEF Watched, Watching, Listens
    <3>2. config[m]
      BY <3>1 DEF FollowInv
    <3>3. home'[i] = m /\ i \in 1 .. posted'
      BY <1>1, <2>2
    <3>4. i \notin stream[modStream].processed
      <4>1. i \notin 1 .. posted
        BY <1>1, <2>2
      <4> QED BY <3>1, <4>1 DEF PushInv, ListingInv
    <3>5. i >= stream[modStream].dateCutoff
      <4>1. stream[modStream].dateCutoff \in Nat
        BY <1>1, <3>1 DEF StreamFields
      <4> QED BY <1>1, <2>2, <3>1, <4>1 DEF PushInv, StreamInv
    <3> QED BY <1>1, <3>1, <3>2, <3>3, <3>4, <3>5 DEF OnItsWay
  <2>3. ~UseDateCutoff' => due' = {}
    BY <1>1, <1>2 DEF PushInv, DueInv, Watched
  <2> QED BY <1>1, <2>1, <2>2, <2>3 DEF DueInv
<1>8. OnceInv'
  BY <1>1, <1>2 DEF PushInv, OnceInv
<1> QED
  BY <1>4, <1>5, <1>6, <1>7, <1>8 DEF PushInv

LEMMA DelistKeeps ==
    ASSUME TypesInv, PushInv, NEW i \in Items, ItemDelisted(i)
    PROVE  PushInv'
<1>1. /\ UNCHANGED <<source, posted, home, stream, chain, config, eventsState, callback,
                     modStream, fresh, doling, pushed>>
      /\ due' = due \ {i} /\ existing' = existing \ {i}
      /\ listing' = Only(listing, Items \ {i})
      /\ listing \in Seq(Items)
  BY DEF ItemDelisted, Delist, restUnchanged, TypesInv, TypeOK, StreamTypeOK
<1>2. /\ Range(listing') = Range(listing) \ {i}
      /\ Descending(listing) => Descending(listing')
      /\ Distinct(listing) => Distinct(listing')
  <2>1. Range(listing) \subseteq Items
    BY <1>1, RangeOfSeq
  <2>2. Distinct(listing) => DistinctIn(listing, Items \ {i})
    BY DEF Distinct, DistinctIn
  <2> QED BY <1>1, <2>1, <2>2, OnlyKept
<1>3. /\ UNCHANGED UseDateCutoff /\ UNCHANGED Sent
      /\ \A c \in Chains : Found(c)' = Found(c) /\ (Active(c)' <=> Active(c))
  BY <1>1 DEF UseDateCutoff, Sent, Found, Active
<1>4. ListingInv'
  BY <1>1, <1>2, <1>3 DEF PushInv, ListingInv
<1>5. StreamInv'
  BY <1>1, <1>3 DEF PushInv, StreamInv
<1>6. KnownInv'
  BY <1>1, <1>2, <1>3 DEF PushInv, KnownInv
<1>7. DueInv'
  BY <1>1, <1>3 DEF PushInv, DueInv, OnItsWay
<1>8. OnceInv'
  BY <1>1, <1>3 DEF PushInv, OnceInv
<1> QED
  BY <1>4, <1>5, <1>6, <1>7, <1>8 DEF PushInv

LEMMA ReportKeeps ==
    ASSUME TypesInv, PushInv, NEW i \in Items, ItemReported(i)
    PROVE  PushInv'
<1>1. /\ UNCHANGED <<source, posted, home, stream, chain, config, eventsState, callback,
                     modStream, fresh, doling, pushed, due, existing>>
      /\ source = "modqueue" /\ i \in 1 .. posted /\ i \notin Range(listing)
      /\ listing' = <<i>> \o listing
      /\ listing \in Seq(Items)
  BY DEF ItemReported, Report, restUnchanged, TypesInv, TypeOK, StreamTypeOK
<1>2. ~UseDateCutoff /\ ~UseDateCutoff' /\ due = {} /\ existing = {}
  BY <1>1 DEF UseDateCutoff, PushInv, KnownInv, DueInv
<1>3. Range(listing') = {i} \cup Range(listing) /\ (Distinct(listing) => Distinct(listing'))
  <2> DEFINE one == <<i>>
  <2>1. one \in Seq(Items) /\ Range(one) = {i} /\ Distinct(one)
    BY DEF Range, Distinct
  <2> HIDE DEF one
  <2>2. /\ Range(one \o listing) = {i} \cup Range(listing)
        /\ Distinct(listing) => Distinct(one \o listing)
    BY <1>1, <2>1, RangeOfConcat, DistinctConcat
  <2> QED BY <1>1, <2>2 DEF one
<1>4. /\ UNCHANGED Sent
      /\ \A c \in Chains : Found(c)' = Found(c) /\ (Active(c)' <=> Active(c))
  BY <1>1 DEF Sent, Found, Active
<1>5. ListingInv'
  BY <1>1, <1>2, <1>3 DEF PushInv, ListingInv
<1>6. StreamInv'
  BY <1>1, <1>4 DEF PushInv, StreamInv
<1>7. KnownInv' /\ DueInv'
  BY <1>1, <1>2 DEF KnownInv, DueInv
<1>8. OnceInv'
  BY <1>1, <1>4 DEF PushInv, OnceInv
<1> QED
  BY <1>5, <1>6, <1>7, <1>8 DEF PushInv

\* A chain step that finds nothing.
LEMMA ChainKeeps ==
    ASSUME TypesInv, PushInv, StreamInv', NEW c \in Chains,
           RestSame, UNCHANGED <<modStream, existing, due, config, eventsState>>,
           \A d \in Chains \ {c} : chain'[d] = chain[d],
           Found(c) = <<>>, Found(c)' = <<>>,
           \A t \in Streams :
               /\ stream'[t].subreddits = stream[t].subreddits
               /\ stream'[t].newStart <=> stream[t].newStart
               /\ stream'[t].dateCutoff = stream[t].dateCutoff
               /\ stream'[t].processed = stream[t].processed
    PROVE  PushInv'
<1>1. \A d \in Chains : Found(d)' = Found(d)
  BY DEF Found, Active
<1>2. modStream # Nothing => modStream \in Streams
  BY DEF TypesInv, TypeOK
<1>3. \A i \in due' : eventsState'[home[i]] = "RUNNING" /\ config'[home[i]]
  BY DEF PushInv, DueInv
<1> QED
  BY <1>1, <1>2, <1>3, SameStream

LEMMA BeginKeeps ==
    ASSUME TypesInv, PushInv, NEW c \in Chains, PollBegins(c)
    PROVE  PushInv'
<1>1. /\ Active(c) /\ chain[c].pc = "timer"
      /\ chain' = [chain EXCEPT ![c].pc = "get"]
      /\ RestSame
      /\ UNCHANGED <<stream, modStream, fresh, existing, due, config, eventsState>>
  BY DEF PollBegins, Fire, restUnchanged, RestSame
<1>2. chain \in [Chains -> Chain \cup {Nothing}] /\ chain[c] \in Chain
  BY <1>1 DEF TypesInv, TypeOK, StreamTypeOK, Active
<1>3. /\ chain'[c].pc = "get" /\ chain'[c].newItems = chain[c].newItems
      /\ \A d \in Chains \ {c} : chain'[d] = chain[d]
  BY <1>1, <1>2 DEF Chain
<1>4. chain[c].newItems = <<>>
  BY <1>1 DEF PushInv, StreamInv
<1>5. StreamInv'
  BY <1>1, <1>3, <1>4 DEF PushInv, StreamInv, RestSame, Active
<1> QED
  BY <1>1, <1>3, <1>4, <1>5, ChainKeeps DEF Found

LEMMA FailKeeps ==
    ASSUME TypesInv, ChainInv, PushInv, FailsAt \subseteq {"get"}, NEW c \in Chains, PollFails(c)
    PROVE  PushInv'
<1>1. /\ Active(c) /\ chain[c].pc = "get" /\ ~stream[chain[c].stream].newStart
      /\ chain' = [chain EXCEPT ![c] = [Timer(chain[c].stream) EXCEPT !.pc = "retrying"]]
      /\ stream' = [stream EXCEPT ![chain[c].stream].running = FALSE]
      /\ RestSame
      /\ UNCHANGED <<modStream, fresh, existing, due, config, eventsState>>
  BY DEF PollFails, Fail, Awaits, restUnchanged, RestSame
<1>2. /\ chain \in [Chains -> Chain \cup {Nothing}] /\ stream \in [Streams -> StreamFields]
      /\ chain[c].stream = modStream /\ modStream # Nothing /\ modStream \in Streams
  BY <1>1 DEF TypesInv, TypeOK, StreamTypeOK, ChainInv
<1>3. /\ chain'[c].pc = "retrying" /\ chain'[c].newItems = <<>>
      /\ \A d \in Chains \ {c} : chain'[d] = chain[d]
  BY <1>1, <1>2 DEF Timer
<1>4. \A t \in Streams : /\ stream'[t].subreddits = stream[t].subreddits
                         /\ stream'[t].newStart <=> stream[t].newStart
                         /\ stream'[t].dateCutoff = stream[t].dateCutoff
                         /\ stream'[t].processed = stream[t].processed
                         /\ stream'[t].running => stream[t].running
  <2> SUFFICES ASSUME NEW t \in Streams
               PROVE  /\ stream'[t].subreddits = stream[t].subreddits
                      /\ stream'[t].newStart <=> stream[t].newStart
                      /\ stream'[t].dateCutoff = stream[t].dateCutoff
                      /\ stream'[t].processed = stream[t].processed
                      /\ stream'[t].running => stream[t].running
    OBVIOUS
  <2>1. stream[t] \in StreamFields
    BY <1>2
  <2>2. CASE t = modStream
    <3>1. stream'[t] = [stream[t] EXCEPT !.running = FALSE]
      BY <1>1, <1>2, <2>2
    <3> QED BY <2>1, <3>1 DEF StreamFields
  <2>3. CASE t # modStream
    BY <1>1, <1>2, <2>3
  <2> QED BY <2>2, <2>3
<1>5. chain[c].newItems = <<>>
  BY <1>1 DEF PushInv, StreamInv
<1>6. StreamInv'
  BY <1>1, <1>2, <1>3, <1>4 DEF PushInv, StreamInv, RestSame, Active
<1> QED
  BY <1>1, <1>3, <1>4, <1>5, <1>6, ChainKeeps DEF Found

LEMMA RetryKeeps ==
    ASSUME TypesInv, ChainInv, PushInv, NEW c \in Chains, PollRetried(c)
    PROVE  PushInv'
<1>1. /\ Active(c) /\ chain[c].pc = "retrying"
      /\ chain' = [chain EXCEPT ![c] = Timer(modStream)]
      /\ stream' = [stream EXCEPT ![modStream] = Started(stream[modStream], c, FALSE)]
      /\ RestSame
      /\ UNCHANGED <<modStream, fresh, existing, due, config, eventsState>>
  BY DEF PollRetried, restUnchanged, RestSame
<1>2. /\ chain \in [Chains -> Chain \cup {Nothing}] /\ stream \in [Streams -> StreamFields]
      /\ modStream # Nothing /\ modStream \in Streams
      /\ chain[c].newItems = <<>> /\ ~stream[modStream].newStart
  BY <1>1 DEF TypesInv, TypeOK, StreamTypeOK, ChainInv, PushInv, StreamInv
<1>3. /\ chain'[c].pc = "timer" /\ chain'[c].newItems = <<>>
      /\ \A d \in Chains \ {c} : chain'[d] = chain[d]
  BY <1>1, <1>2, TimerType
<1>4. \A t \in Streams : /\ stream'[t].subreddits = stream[t].subreddits
                         /\ stream'[t].newStart <=> stream[t].newStart
                         /\ stream'[t].dateCutoff = stream[t].dateCutoff
                         /\ stream'[t].processed = stream[t].processed
  <2> SUFFICES ASSUME NEW t \in Streams
               PROVE  /\ stream'[t].subreddits = stream[t].subreddits
                      /\ stream'[t].newStart <=> stream[t].newStart
                      /\ stream'[t].dateCutoff = stream[t].dateCutoff
                      /\ stream'[t].processed = stream[t].processed
    OBVIOUS
  <2>1. stream[t] \in StreamFields
    BY <1>2
  <2>2. CASE t = modStream
    <3>1. stream'[t] = Started(stream[t], c, FALSE)
      BY <1>1, <1>2, <2>2
    <3> QED BY <1>2, <2>1, <2>2, <3>1 DEF Started, StreamFields
  <2>3. CASE t # modStream
    BY <1>1, <1>2, <2>3
  <2> QED BY <2>2, <2>3
<1>5. ~fresh
  BY <1>2 DEF PushInv, StreamInv
<1>6. StreamInv'
  BY <1>1, <1>2, <1>3, <1>4, <1>5 DEF PushInv, StreamInv, RestSame, Active
<1> QED
  BY <1>1, <1>2, <1>3, <1>4, <1>6, ChainKeeps DEF Found

LEMMA GiveUpKeeps ==
    ASSUME TypesInv, PushInv, NEW c \in Chains, GiveUp(c)
    PROVE  PushInv'
<1>1. /\ Active(c) /\ chain[c].pc = "retrying"
      /\ chain' = [chain EXCEPT ![c] = Nothing]
      /\ RestSame
      /\ UNCHANGED <<stream, modStream, fresh, existing, due, config, eventsState>>
  BY DEF GiveUp, restUnchanged, RestSame
<1>2. chain \in [Chains -> Chain \cup {Nothing}] /\ chain[c].newItems = <<>>
  BY <1>1 DEF TypesInv, TypeOK, StreamTypeOK, PushInv, StreamInv
<1>3. chain'[c] = Nothing /\ \A d \in Chains \ {c} : chain'[d] = chain[d]
  BY <1>1, <1>2
<1>4. StreamInv'
  BY <1>1, <1>3 DEF PushInv, StreamInv, RestSame, Active
<1> QED
  BY <1>1, <1>2, <1>3, <1>4, ChainKeeps DEF Found, Active

\* What the managers do concerns only what is due.
LEMMA EventsKeep ==
    ASSUME TypesInv, PushInv,
           NEW m \in Subreddits,
           StartEvents(m) \/ \E state \in {"PAUSED", "STOPPED"} : EndEvents(m, state)
    PROVE  PushInv'
<1>1. /\ RestSame /\ UNCHANGED <<stream, chain, modStream, fresh, existing, config>>
      /\ due' \subseteq due
      /\ \A i \in due' : eventsState'[home[i]] = "RUNNING"
  <2>1. eventsState \in [Subreddits -> {"RUNNING", "PAUSED", "STOPPED"}]
    BY DEF TypesInv, TypeOK
  <2>2. \A i \in due : i \in Items /\ home[i] \in Subreddits /\ eventsState[home[i]] = "RUNNING"
    BY DEF TypesInv, TypeOK, StreamTypeOK, PushInv, DueInv
  <2>3. CASE StartEvents(m)
    BY <2>1, <2>2, <2>3 DEF StartEvents, RestSame, streamVars
  <2>4. ASSUME NEW state, EndEvents(m, state)
        PROVE  /\ RestSame /\ UNCHANGED <<stream, chain, modStream, fresh, existing, config>>
               /\ due' \subseteq due
               /\ \A i \in due' : eventsState'[home[i]] = "RUNNING"
    <3>1. due' = {i \in due : home[i] \in Subreddits \ {m}}
      BY <2>4 DEF EndEvents, DueTo
    <3>2. eventsState' = [eventsState EXCEPT ![m] = state]
      BY <2>4 DEF EndEvents
    <3> QED BY <2>1, <2>2, <2>4, <3>1, <3>2 DEF EndEvents, RestSame, streamVars
  <2> QED BY <2>3, <2>4
<1>2. \A c \in Chains : Found(c)' = Found(c)
  BY <1>1 DEF Found, Active
<1>3. StreamInv'
  BY <1>1 DEF PushInv, StreamInv, RestSame, Active
<1>4. \A i \in due' : config'[home[i]]
  BY <1>1 DEF PushInv, DueInv
<1> QED
  BY <1>1, <1>2, <1>3, <1>4, SameStream

(***************************************************************************)
(* What is pushed: the operations of the bot.                              *)
(***************************************************************************)

\* Chain c waits for its timer, if it is in use, and has found nothing.
Waits(c) ==
    \/ chain[c] = Nothing
    \/ chain[c].pc = "timer" /\ chain[c].newItems = <<>>

\* Between two polls all chains do.
LEMMA BetweenPolls ==
    ASSUME TypesInv, PushInv, ~InFlight, MayAct, NEW c \in Chains
    PROVE  Found(c) = <<>> /\ Waits(c)
<1>1. chain[c] # Nothing => chain[c].pc = "timer"
  BY DEF MayAct, Active
<1>2. chain[c] # Nothing /\ chain[c].pc = "timer" => chain[c].newItems = <<>>
  BY DEF PushInv, StreamInv, Active
<1> QED
  BY <1>1, <1>2 DEF Found, Active, Waits

\* runSharedStreams creates timers and changes nothing of what streams know.
LEMMA RunSharedFields ==
    ASSUME NEW current \in Streams \cup {Nothing}, NEW streams \in [Streams -> StreamFields],
           NEW chains \in [Chains -> Chain \cup {Nothing}], NEW callbacks,
           RunShared(current, streams, chains, callbacks)
    PROVE  /\ \A t \in Streams :
                  /\ stream'[t].subreddits = streams[t].subreddits
                  /\ stream'[t].newStart <=> streams[t].newStart
                  /\ stream'[t].dateCutoff = streams[t].dateCutoff
                  /\ stream'[t].processed = streams[t].processed
           /\ \A c \in Chains :
                  \/ chain'[c] = chains[c]
                  \/ chain'[c].pc = "timer" /\ chain'[c].newItems = <<>>
<1>1. CASE stream' = streams /\ chain' = chains
  BY <1>1
<1>2. CASE ~ (stream' = streams /\ chain' = chains)
  <2>1. PICK c \in Chains :
            /\ current # Nothing
            /\ chain' = [chains EXCEPT ![c] = Timer(current)]
            /\ stream' = [streams EXCEPT ![current] =
                             Started(streams[current], c, streams[current].newStart)]
    BY <1>2, RunSharedDoes
  <2>2. current \in Streams /\ streams[current] \in StreamFields
    BY <2>1
  <2>3. \A d \in Chains : chain'[d] = IF d = c THEN Timer(current) ELSE chains[d]
    BY <2>1
  <2>4. ASSUME NEW t \in Streams
        PROVE  /\ stream'[t].subreddits = streams[t].subreddits
               /\ stream'[t].newStart <=> streams[t].newStart
               /\ stream'[t].dateCutoff = streams[t].dateCutoff
               /\ stream'[t].processed = streams[t].processed
    <3>1. CASE t = current
      <4>1. stream'[t] = Started(streams[t], c, streams[t].newStart)
        BY <2>1, <2>2, <3>1
      <4> QED BY <2>2, <3>1, <4>1 DEF Started, StreamFields
    <3>2. CASE t # current
      BY <2>1, <2>2, <3>2
    <3> QED BY <3>1, <3>2
  <2> QED BY <2>2, <2>3, <2>4, TimerType
<1> QED
  BY <1>1, <1>2

\* What end() and parseSharedStreams make of the fields.
LEMMA EndedFields ==
    ASSUME NEW fields \in StreamFields
    PROVE  /\ Ended(fields).newStart /\ Ended(fields).dateCutoff = 0
           /\ Ended(fields).processed = fields.processed
  BY DEF Ended, StreamFields

LEMMA MadeFields ==
    ASSUME TypeOK, NEW s \in Streams, NEW cfg
    PROVE  /\ Made(s, cfg).dateCutoff = 0
           /\ Made(s, cfg).subreddits = Subjects(cfg)
           /\ Made(s, cfg).newStart <=> modStream = Nothing
           /\ Made(s, cfg).processed =
                  IF modStream = Nothing THEN {} ELSE stream[modStream].processed
<1> DEFINE new == NewStream(s, Subjects(cfg), source = "new")
<1>1. /\ new.dateCutoff = 0 /\ new.subreddits = Subjects(cfg) /\ new.newStart
      /\ new.processed = {}
      /\ DOMAIN new = {"subreddits", "enforceContinuity", "running", "newStart",
                       "dateCutoff", "set", "processed", "interval"}
  BY DEF NewStream
<1> HIDE DEF new
<1>2. Made(s, cfg) = IF modStream = Nothing THEN new
                     ELSE [new EXCEPT !.set = stream[modStream].set,
                                      !.processed = stream[modStream].processed,
                                      !.newStart = FALSE]
  BY DEF Made, new
<1>3. CASE modStream = Nothing
  BY <1>1, <1>2, <1>3
<1>4. CASE modStream # Nothing
  BY <1>1, <1>2, <1>4
<1> QED
  BY <1>3, <1>4

\* What the histories say is old.
LEMMA TakenOld ==
    ASSUME KnownInv, NEW ended \in BOOLEAN, Taken(ended)
    PROVE  /\ existing' \subseteq Range(listing)
           /\ ~UseDateCutoff => existing' = {}
           /\ existing' \cap Range(doling) = {}
           /\ ~fresh /\ ~ended => existing' \subseteq existing \cup
                  {i \in Range(listing) \ Range(doling) :
                      home[i] \in stream'[modStream'].subreddits \ stream[modStream].subreddits}
           /\ modStream' = Nothing \/ ~stream'[modStream'].running => existing' = existing
           /\ existing \subseteq existing' \/ fresh \/ ended
<1> DEFINE old == Range(listing) \ Range(doling)
           further == stream'[modStream'].subreddits \ stream[modStream].subreddits
           runs == modStream' # Nothing /\ stream'[modStream'].running
<1>1. existing' = IF ~UseDateCutoff \/ ~runs THEN existing
                  ELSE IF fresh \/ ended THEN old
                  ELSE existing \cup {i \in old : home[i] \in further}
  BY DEF Taken
<1>2. /\ existing \subseteq Range(listing) /\ (~UseDateCutoff => existing = {})
      /\ existing \cap Range(doling) = {}
  BY DEF KnownInv
<1> QED
  BY <1>1, <1>2

\* After an operation between polls every chain waits for its timer, and a stream
\* that has not run since it was ended, or made, is at its first poll.
LEMMA ActedStream ==
    ASSUME UNCHANGED posted, NEW ended \in BOOLEAN, Taken(ended),
           modStream' = Nothing => fresh \/ ended,
           modStream' # Nothing =>
               /\ fresh \/ ended => stream'[modStream'].newStart
               /\ stream'[modStream'].newStart => stream'[modStream'].dateCutoff = 0
               /\ stream'[modStream'].dateCutoff <= posted + 1,
           \A c \in Chains : Waits(c)'
    PROVE  StreamInv' /\ \A c \in Chains : Found(c)' = <<>>
<1>1. fresh' <=> (fresh \/ ended) /\ ~ (modStream' # Nothing /\ stream'[modStream'].running)
  BY DEF Taken
<1>2. StreamInv'
  BY <1>1 DEF StreamInv, Active, Waits
<1> QED
  BY <1>2 DEF Found, Active, Waits

\* The stream is started if it does not run, or nothing is done.
LEMMA RunKeeps ==
    ASSUME TypesInv, PushInv, ~InFlight, MayAct, RestSame, UNCHANGED modStream, NEW callbacks,
           RunShared(modStream, stream, chain, callbacks),
           NEW ended \in BOOLEAN, ~ended, Taken(ended),
           due' \subseteq due,
           \A i \in due' : eventsState'[home[i]] = "RUNNING" /\ config'[home[i]]
    PROVE  PushInv'
<1>1. /\ modStream \in Streams \cup {Nothing} /\ stream \in [Streams -> StreamFields]
      /\ chain \in [Chains -> Chain \cup {Nothing}]
      /\ UNCHANGED posted /\ ListingInv /\ StreamInv /\ KnownInv /\ DueInv
  BY DEF TypesInv, TypeOK, StreamTypeOK, RestSame, PushInv
<1>2. /\ \A t \in Streams :
             /\ stream'[t].subreddits = stream[t].subreddits
             /\ stream'[t].newStart <=> stream[t].newStart
             /\ stream'[t].dateCutoff = stream[t].dateCutoff
             /\ stream'[t].processed = stream[t].processed
      /\ \A c \in Chains : Waits(c)'
  <2>1. \A c \in Chains : \/ chain'[c] = chain[c]
                          \/ chain'[c].pc = "timer" /\ chain'[c].newItems = <<>>
    BY <1>1, RunSharedFields
  <2>2. \A c \in Chains : Waits(c)
    BY BetweenPolls
  <2> QED BY <1>1, <2>1, <2>2, RunSharedFields DEF Waits
<1>3. StreamInv' /\ \A c \in Chains : Found(c)' = <<>>
  <2>1. modStream' = Nothing => fresh \/ ended
    BY <1>1 DEF StreamInv
  <2>2. modStream' # Nothing =>
            /\ fresh \/ ended => stream'[modStream'].newStart
            /\ stream'[modStream'].newStart => stream'[modStream'].dateCutoff = 0
            /\ stream'[modStream'].dateCutoff <= posted + 1
    BY <1>1, <1>2 DEF StreamInv
  <2> QED BY <1>1, <1>2, <2>1, <2>2, ActedStream
<1>4. CASE modStream # Nothing /\ fresh
  <2>1. stream[modStream].newStart
    BY <1>1, <1>4 DEF StreamInv
  <2>2. due = {}
    BY <1>1, <2>1 DEF DueInv
  <2>3. \A t \in Streams : stream'[t].processed \subseteq 1 .. posted
    BY <1>1, <1>2 DEF ListingInv
  <2>4. /\ existing' \subseteq Range(listing)
        /\ ~UseDateCutoff => existing' = {}
        /\ existing' \cap Range(doling) = {}
    BY <1>1, TakenOld
  <2> QED BY <1>1, <1>2, <1>3, <1>4, <2>1, <2>2, <2>3, <2>4, NewlyStarted
<1>5. CASE ~ (modStream # Nothing /\ fresh)
  <2>1. existing' = existing
    <3>1. CASE modStream = Nothing
      BY <1>1, <3>1, TakenOld
    <3>2. CASE modStream # Nothing
      BY <1>1, <1>2, <1>5, <3>2, TakenOld
    <3> QED BY <3>1, <3>2
  <2>2. \A c \in Chains : Found(c)' = Found(c)
    BY <1>3, BetweenPolls
  <2> QED BY <1>1, <1>2, <1>3, <2>1, <2>2, SameStream
<1> QED
  BY <1>4, <1>5

\* The stream that was ended is at its first poll again, whether or not it is
\* started at once.
LEMMA EndKeeps ==
    ASSUME TypesInv, ChainInv, PushInv, ~InFlight, MayAct, RestSame, UNCHANGED modStream,
           modStream # Nothing,
           \A t \in Streams :
               IF t = modStream
               THEN /\ stream'[t].newStart /\ stream'[t].dateCutoff = 0
                    /\ stream'[t].processed = stream[t].processed
               ELSE stream'[t].processed = stream[t].processed,
           \A c \in Chains : Waits(c)',
           NEW ended \in BOOLEAN, ended, Taken(ended), due' = {}
    PROVE  PushInv'
<1>1. modStream \in Streams /\ UNCHANGED posted /\ posted \in Nat /\ ListingInv /\ KnownInv
  BY StreamAssumption DEF TypesInv, TypeOK, StreamTypeOK, RestSame, PushInv
<1>2. StreamInv' /\ \A c \in Chains : Found(c)' = <<>>
  <2>1. modStream' # Nothing =>
            /\ stream'[modStream'].newStart
            /\ stream'[modStream'].dateCutoff = 0 /\ stream'[modStream'].dateCutoff <= posted + 1
    BY <1>1
  <2> QED BY <1>1, <2>1, ActedStream
<1>3. \A t \in Streams : stream'[t].processed = stream[t].processed
  OBVIOUS
<1>4. \A t \in Streams : stream'[t].processed \subseteq 1 .. posted
  BY <1>1, <1>3 DEF ListingInv
<1>5. /\ existing' \subseteq Range(listing)
      /\ ~UseDateCutoff => existing' = {}
      /\ existing' \cap Range(doling) = {}
  BY <1>1, TakenOld
<1> QED
  BY <1>1, <1>2, <1>3, <1>4, <1>5, NewlyStarted

LEMMA HardLimitKeeps ==
    ASSUME TypesInv, ChainInv, PushInv, ~InFlight, HardLimit
    PROVE  PushInv'
<1>1. /\ MayAct /\ modStream # Nothing /\ UNCHANGED modStream /\ RestSame
      /\ chain' = TimerCleared(chain, modStream)
      /\ stream' = [stream EXCEPT ![modStream] = Ended(stream[modStream])]
      /\ due' = {} /\ Taken(TRUE)
  BY DEF HardLimit, RestSame
<1>2. modStream \in Streams /\ stream \in [Streams -> StreamFields]
  BY <1>1 DEF TypesInv, TypeOK, StreamTypeOK
<1>3. \A c \in Chains : chain'[c] = Nothing
  BY <1>1, NoneLeft
<1>4. stream'[modStream] = Ended(stream[modStream]) /\ stream[modStream] \in StreamFields
  BY <1>1, <1>2
<1>5. \A t \in Streams \ {modStream} : stream'[t] = stream[t]
  BY <1>1, <1>2
<1>6. \A t \in Streams :
          IF t = modStream
          THEN /\ stream'[t].newStart /\ stream'[t].dateCutoff = 0
               /\ stream'[t].processed = stream[t].processed
          ELSE stream'[t].processed = stream[t].processed
  BY <1>4, <1>5, EndedFields
<1>7. \A c \in Chains : Waits(c)'
  BY <1>3 DEF Waits
<1> QED
  BY <1>1, <1>6, <1>7, EndKeeps

LEMMA ConfigKeeps ==
    ASSUME TypesInv, ChainInv, PushInv, ~InFlight, ~ReplacesAny,
           NEW m \in Subreddits, NEW shared \in BOOLEAN, UpdateConfig(m, shared)
    PROVE  PushInv'
<1> DEFINE cfg == [config EXCEPT ![m] = shared]
           ended == [stream EXCEPT ![modStream] = Ended(stream[modStream])]
           cleared == TimerCleared(chain, modStream)
<1>1. /\ MayAct /\ RestSame /\ UNCHANGED eventsState /\ config' = cfg
      /\ MustMake(cfg) /\ modStream # Nothing =>
             /\ Watching
             /\ \A i \in Range(listing) \ stream[modStream].processed :
                   home[i] \in SharedBy(cfg) =>
                       i \notin existing /\ home[i] \in stream[modStream].subreddits
      /\ ParseSharedStreams(cfg)
      /\ Taken(MustEnd(cfg))
      /\ due' = {i \in due : home[i] \in {n \in Subreddits : n # m \/ shared}}
  BY DEF UpdateConfig, RestSame, DueTo
<1>2. /\ chain \in [Chains -> Chain \cup {Nothing}] /\ stream \in [Streams -> StreamFields]
      /\ modStream \in Streams \cup {Nothing} /\ unused \subseteq Streams /\ TypeOK
      /\ home \in [Items -> Subreddits] /\ posted \in Nat
      /\ due \subseteq Items /\ config \in [Subreddits -> BOOLEAN]
      /\ Nothing \notin Streams
  BY StreamAssumption DEF TypesInv, TypeOK, StreamTypeOK
<1>3. /\ cfg \in [Subreddits -> BOOLEAN]
      /\ \A n \in Subreddits : cfg[n] = IF n = m THEN shared ELSE config[n]
  BY <1>2
<1> HIDE DEF cfg
<1>4. due' \subseteq due /\ \A i \in due' : eventsState'[home[i]] = "RUNNING" /\ config'[home[i]]
  <2>1. \A i \in due : /\ home[i] \in Subreddits /\ config[home[i]]
                       /\ eventsState[home[i]] = "RUNNING"
    BY <1>2 DEF PushInv, DueInv
  <2> QED BY <1>1, <1>3, <2>1
<1>5. MustEnd(cfg) \in BOOLEAN
  BY DEF MustEnd
<1>6. ListingInv /\ StreamInv /\ KnownInv /\ DueInv /\ UNCHANGED posted
  BY <1>1 DEF PushInv, RestSame
<1>7. modStream # Nothing => /\ ended \in [Streams -> StreamFields]
                             /\ cleared \in [Chains -> Chain \cup {Nothing}]
                             /\ \A c \in Chains : cleared[c] = Nothing
                             /\ ended[modStream] = Ended(stream[modStream])
                             /\ \A t \in Streams : ended[t].processed = stream[t].processed
  <2> SUFFICES ASSUME modStream # Nothing
               PROVE  /\ ended \in [Streams -> StreamFields]
                      /\ cleared \in [Chains -> Chain \cup {Nothing}]
                      /\ \A c \in Chains : cleared[c] = Nothing
                      /\ ended[modStream] = Ended(stream[modStream])
                      /\ \A t \in Streams : ended[t].processed = stream[t].processed
    OBVIOUS
  <2>1. cleared \in [Chains -> Chain \cup {Nothing}] /\ \A c \in Chains : cleared[c] = Nothing
    BY <1>1, <1>2, ClearedTypes, NoneLeft
  <2>2. modStream \in Streams /\ stream[modStream] \in StreamFields
    BY <1>2
  <2>3. ended \in [Streams -> StreamFields] /\ ended[modStream] = Ended(stream[modStream])
    BY <1>2, <2>2, EndedType
  <2>4. \A t \in Streams \ {modStream} : ended[t] = stream[t]
    BY <1>2
  <2>5. ended[modStream].processed = stream[modStream].processed
    <3> HIDE DEF ended
    <3> QED BY <2>2, <2>3, EndedFields
  <2> HIDE DEF ended, cleared
  <2> QED BY <2>1, <2>3, <2>4, <2>5
<1> HIDE DEF ended, cleared
<1>8. CASE MustMake(cfg) /\ modStream = Nothing
  <2>1. PICK s \in unused : /\ modStream' = s
                            /\ RunShared(s, [stream EXCEPT ![s] = Made(s, cfg)], chain, callback')
    BY <1>1, <1>2, <1>8, ParseDoes
  <2>2. /\ s \in Streams /\ s # Nothing /\ Made(s, cfg) \in StreamFields
        /\ Made(s, cfg).newStart /\ Made(s, cfg).dateCutoff = 0 /\ Made(s, cfg).processed = {}
    BY <1>2, <1>3, <1>8, MadeType, MadeFields
  <2> DEFINE made == [stream EXCEPT ![s] = Made(s, cfg)]
  <2>3. /\ made \in [Streams -> StreamFields]
        /\ made[s] = Made(s, cfg) /\ \A t \in Streams \ {s} : made[t] = stream[t]
    BY <1>2, <2>2
  <2>4. RunShared(s, made, chain, callback')
    BY <2>1
  <2> HIDE DEF made
  <2>5. /\ \A t \in Streams :
               /\ stream'[t].newStart <=> made[t].newStart
               /\ stream'[t].dateCutoff = made[t].dateCutoff
               /\ stream'[t].processed = made[t].processed
        /\ \A c \in Chains :
               \/ chain'[c] = chain[c]
               \/ chain'[c].pc = "timer" /\ chain'[c].newItems = <<>>
    BY <1>2, <2>2, <2>3, <2>4, RunSharedFields
  <2>6. /\ stream'[modStream'].newStart /\ stream'[modStream'].dateCutoff = 0
        /\ \A t \in Streams : stream'[t].processed \subseteq 1 .. posted
    BY <1>6, <2>1, <2>2, <2>3, <2>5 DEF ListingInv
  <2>7. \A c \in Chains : Waits(c)'
    BY <1>1, <2>5, BetweenPolls DEF Waits
  <2>8. StreamInv' /\ \A c \in Chains : Found(c)' = <<>>
    <3>1. modStream' # Nothing => /\ stream'[modStream'].newStart
                                  /\ stream'[modStream'].dateCutoff = 0
                                  /\ stream'[modStream'].dateCutoff <= posted + 1
      BY <1>2, <2>6
    <3> QED BY <1>1, <1>5, <1>6, <2>1, <2>2, <2>7, <3>1, ActedStream
  <2>9. due' = {}
    BY <1>4, <1>6, <1>8 DEF DueInv
  <2>10. /\ existing' \subseteq Range(listing)
         /\ ~UseDateCutoff => existing' = {}
         /\ existing' \cap Range(doling) = {}
    BY <1>1, <1>5, <1>6, TakenOld
  <2>11. modStream' \in Streams
    BY <2>1, <2>2
  <2> QED BY <1>1, <1>8, <2>6, <2>8, <2>9, <2>10, <2>11, NewlyStarted
<1>9. CASE MustMake(cfg) /\ modStream # Nothing
  <2>1. PICK s \in unused : /\ modStream' = s
                            /\ RunShared(s, [ended EXCEPT ![s] = Made(s, cfg)], cleared, callback')
    BY <1>1, <1>2, <1>9, ParseDoes DEF ended, cleared
  <2>2. /\ s \in Streams /\ s # Nothing /\ modStream \in Streams
        /\ Made(s, cfg) \in StreamFields
        /\ ~Made(s, cfg).newStart /\ Made(s, cfg).dateCutoff = 0
        /\ Made(s, cfg).processed = stream[modStream].processed
        /\ Made(s, cfg).subreddits = Subjects(cfg)
    BY <1>2, <1>3, <1>9, MadeType, MadeFields
  <2> DEFINE made == [ended EXCEPT ![s] = Made(s, cfg)]
  <2>3. /\ made \in [Streams -> StreamFields]
        /\ made[s] = Made(s, cfg) /\ \A t \in Streams \ {s} : made[t] = ended[t]
    BY <1>7, <1>9, <2>2
  <2>4. RunShared(s, made, cleared, callback')
    BY <2>1
  <2> HIDE DEF made
  <2>5. /\ \A t \in Streams :
               /\ stream'[t].subreddits = made[t].subreddits
               /\ stream'[t].newStart <=> made[t].newStart
               /\ stream'[t].dateCutoff = made[t].dateCutoff
               /\ stream'[t].processed = made[t].processed
        /\ \A c \in Chains :
               \/ chain'[c] = cleared[c]
               \/ chain'[c].pc = "timer" /\ chain'[c].newItems = <<>>
    BY <1>7, <1>9, <2>2, <2>3, <2>4, RunSharedFields
  <2>6. /\ ~stream'[modStream'].newStart /\ stream'[modStream'].dateCutoff = 0
        /\ stream'[modStream'].processed = stream[modStream].processed
        /\ stream'[modStream'].subreddits = Subjects(cfg)
    BY <2>1, <2>2, <2>3, <2>5
  <2>7. ASSUME NEW t \in Streams PROVE stream'[t].processed \subseteq 1 .. posted
    <3>1. stream[t].processed \subseteq 1 .. posted /\ stream[modStream].processed \subseteq 1 .. posted
      BY <1>6, <2>2 DEF ListingInv
    <3>2. CASE t = s
      BY <2>1, <2>6, <3>1, <3>2
    <3>3. CASE t # s
      BY <1>7, <1>9, <2>3, <2>5, <3>1, <3>3
    <3> QED BY <3>2, <3>3
  <2>8. \A c \in Chains : Waits(c)'
    BY <1>7, <1>9, <2>5 DEF Waits
  <2>9. source = "new" /\ UseDateCutoff /\ ~MustEnd(cfg) /\ Subjects(cfg) = SharedBy(cfg)
    BY <1>9 DEF MustMake, MustEnd, UseDateCutoff, Subjects
  <2>10. ~fresh
    BY <1>1, <1>6, <1>9 DEF Watching, StreamInv
  <2>11. StreamInv' /\ \A c \in Chains : Found(c)' = <<>>
    <3>1. modStream' # Nothing => /\ ~stream'[modStream'].newStart
                                  /\ stream'[modStream'].dateCutoff <= posted + 1
      BY <1>2, <2>6
    <3> QED BY <1>1, <1>5, <1>6, <2>1, <2>2, <2>8, <2>9, <2>10, <3>1, ActedStream
  <2>12. existing' \subseteq existing \cup
             {i \in Range(listing) \ Range(doling) :
                 home[i] \in stream'[modStream'].subreddits \ stream[modStream].subreddits}
    BY <1>1, <1>5, <1>6, <2>9, <2>10, TakenOld
  <2>13. \A i \in Range(listing) \ stream[modStream].processed :
             home[i] \in stream'[modStream'].subreddits =>
                 i \notin existing /\ home[i] \in stream[modStream].subreddits
    BY <1>1, <1>9, <2>6, <2>9
  <2>14. modStream' \in Streams /\ \A c \in Chains : Found(c) = <<>>
    BY <1>1, <2>1, <2>2, BetweenPolls
  <2> QED BY <1>1, <1>4, <2>2, <2>6, <2>7, <2>9, <2>11, <2>12, <2>13, <2>14, Replaced
<1>10. CASE ~MustMake(cfg) /\ MustEnd(cfg)
  <2>1. /\ modStream # Nothing /\ UNCHANGED modStream
        /\ RunShared(modStream, ended, cleared, callback')
    BY <1>1, <1>2, <1>10, ParseDoes DEF ended, cleared
  <2>2. modStream \in Streams /\ stream[modStream] \in StreamFields
    BY <1>2, <2>1
  <2>3. /\ \A t \in Streams :
               /\ stream'[t].newStart <=> ended[t].newStart
               /\ stream'[t].dateCutoff = ended[t].dateCutoff
               /\ stream'[t].processed = ended[t].processed
        /\ \A c \in Chains :
               \/ chain'[c] = cleared[c]
               \/ chain'[c].pc = "timer" /\ chain'[c].newItems = <<>>
    BY <1>7, <2>1, <2>2, RunSharedFields
  <2>4. ended[modStream].newStart /\ ended[modStream].dateCutoff = 0
    BY <1>7, <2>1, <2>2, EndedFields
  <2>5. \A t \in Streams :
            IF t = modStream
            THEN /\ stream'[t].newStart /\ stream'[t].dateCutoff = 0
                 /\ stream'[t].processed = stream[t].processed
            ELSE stream'[t].processed = stream[t].processed
    BY <1>7, <2>1, <2>3, <2>4
  <2>6. \A c \in Chains : Waits(c)'
    BY <1>7, <2>1, <2>3 DEF Waits
  <2>7. due' = {}
    <3>1. CASE source = "modqueue"
      BY <1>4, <1>6, <3>1 DEF DueInv, UseDateCutoff
    <3>2. CASE source # "modqueue"
      <4>1. \A n \in Subreddits : ~cfg[n]
        BY <1>10, <3>2 DEF MustEnd, SharedBy
      <4>2. \A i \in due' : home[i] \in Subreddits /\ cfg[home[i]]
        BY <1>1, <1>2, <1>4
      <4> QED BY <4>1, <4>2
    <3> QED BY <3>1, <3>2
  <2> QED BY <1>1, <1>5, <1>10, <2>1, <2>5, <2>6, <2>7, EndKeeps
<1>11. CASE ~MustMake(cfg) /\ ~MustEnd(cfg)
  <2>1. UNCHANGED modStream /\ RunShared(modStream, stream, chain, callback')
    BY <1>1, <1>2, <1>11, ParseDoes
  <2> QED BY <1>1, <1>4, <1>5, <1>11, <2>1, RunKeeps
<1> QED
  BY <1>8, <1>9, <1>10, <1>11

LEMMA RunSharedKeeps ==
    ASSUME TypesInv, PushInv, ~InFlight, RunSharedStreams
    PROVE  PushInv'
<1>1. /\ MayAct /\ RestSame /\ UNCHANGED modStream /\ due' = due
      /\ RunShared(modStream, stream, chain, callback)
      /\ Taken(FALSE) /\ UNCHANGED <<config, eventsState>>
  BY DEF RunSharedStreams, RestSame
<1>2. \A i \in due' : eventsState'[home[i]] = "RUNNING" /\ config'[home[i]]
  BY <1>1 DEF PushInv, DueInv
<1> QED
  BY <1>1, <1>2, RunKeeps

(***************************************************************************)
(* What is pushed: doling out.                                             *)
(***************************************************************************)

\* Of some items that are there once, one is pushed, if any, and some are left to
\* be doled out; what is due and neither pushed nor left finds nobody listening.
Doles(items, waiting) ==
    \E sent \in SUBSET Range(items), rest \in SUBSET Range(items) :
        /\ sent \cap rest = {}
        /\ Distinct(doling') /\ Range(doling') = Range(waiting) \cup rest
        /\ \A i \in Items : pushed'[i] # pushed[i] => i \in sent
        /\ Sent' = Sent \cup sent
        /\ due' \subseteq due /\ due' \cap Range(items) \subseteq rest

LEMMA DolesOut ==
    ASSUME TypeOK, NEW items \in Seq(Items), NEW waiting \in Seq(Items),
           DoleOut(items, waiting), Distinct(items), Distinct(waiting),
           Range(items) \cap Range(waiting) = {}
    PROVE  Doles(items, waiting)
<1> DEFINE finds == {k \in DOMAIN items : Listens(home[items[k]])}
           first == CHOOSE k \in finds : \A l \in finds : k <= l
           rest == SubSeq(items, first + 1, Len(items))
<1> USE DEF Doles
<1>1. CASE finds = {}
  <2>1. doling' = waiting /\ due' = due \ Range(items) /\ UNCHANGED pushed
    BY <1>1 DEF DoleOut
  <2>2. Sent' = Sent
    BY <2>1 DEF Sent
  <2> HIDE DEF finds
  <2> WITNESS {} \in SUBSET Range(items), {} \in SUBSET Range(items)
  <2> QED BY <2>1, <2>2
<1>2. CASE finds # {}
  <2>1. first \in 1 .. Len(items)
    BY <1>2, FirstFinds
  <2>2. /\ doling' = waiting \o rest
        /\ due' = due \ {items[k] : k \in 1 .. first}
        /\ pushed' = [pushed EXCEPT ![items[first]] = IF @ < 2 THEN @ + 1 ELSE @]
    BY <1>2 DEF DoleOut
  <2> HIDE DEF finds, first
  <2>3. /\ first \in Nat /\ 1 <= first /\ first <= Len(items) /\ Len(items) \in Nat
        /\ DOMAIN items = 1 .. Len(items)
        /\ items[first] \in Items
    BY <2>1
  <2>4. /\ rest \in Seq(Items) /\ Distinct(rest)
        /\ Range(rest) = {items[k] : k \in first + 1 .. Len(items)}
        /\ items[first] \notin Range(rest)
    BY <2>3, RestOf
  <2> HIDE DEF rest
  <2>5. /\ Range(items) = {items[k] : k \in 1 .. first} \cup Range(rest)
        /\ items[first] \in Range(items)
    <3>1. 1 .. Len(items) = 1 .. first \cup first + 1 .. Len(items)
      BY <2>3
    <3>2. Range(items) = {items[k] : k \in 1 .. Len(items)}
      BY <2>3 DEF Range
    <3>3. first \in 1 .. Len(items)
      BY <2>3
    <3> QED BY <2>4, <3>1, <3>2, <3>3
  <2>6. Distinct(doling') /\ Range(doling') = Range(waiting) \cup Range(rest)
    <3>1. Range(waiting) \cap Range(rest) = {}
      BY <2>5
    <3> QED BY <2>2, <2>4, <3>1, RangeOfConcat, DistinctConcat
  <2>7. /\ \A i \in Items : pushed'[i] # pushed[i] => i = items[first]
        /\ \A i \in Items : pushed'[i] # 0 <=> pushed[i] # 0 \/ i = items[first]
    <3>1. pushed \in [Items -> 0 .. 2]
      BY DEF TypeOK
    <3>2. \A i \in Items : pushed'[i] = IF i = items[first]
                                        THEN IF pushed[i] < 2 THEN pushed[i] + 1 ELSE pushed[i]
                                        ELSE pushed[i]
      BY <2>2, <3>1
    <3> QED BY <3>1, <3>2
  <2>8. Sent' = Sent \cup {items[first]}
    BY <2>3, <2>7 DEF Sent
  <2>9. due' \subseteq due /\ due' \cap Range(items) \subseteq Range(rest)
    BY <2>2, <2>5
  <2>10. {items[first]} \in SUBSET Range(items) /\ Range(rest) \in SUBSET Range(items)
    BY <2>5
  <2> USE <2>10
  <2> WITNESS {items[first]} \in SUBSET Range(items), Range(rest) \in SUBSET Range(items)
  <2> QED BY <2>4, <2>5, <2>6, <2>7, <2>8, <2>9
<1> QED
  BY <1>1, <1>2

LEMMA DoleOutKeeps ==
    ASSUME TypesInv, PushInv, DoleOutNext
    PROVE  PushInv' /\ PushesNew
<1>1. /\ DoleOut(doling, <<>>) /\ doling \in Seq(Items) /\ <<>> \in Seq(Items) /\ TypeOK
      /\ UNCHANGED <<source, posted, home, listing, stream, chain, config, eventsState,
                     modStream, existing, fresh>>
  BY DEF DoleOutNext, streamVars, TypesInv, TypeOK
<1>2. Distinct(doling) /\ Distinct(<<>>) /\ Range(<<>>) = {}
  BY NoneIn DEF PushInv, OnceInv
<1>3. PICK sent \in SUBSET Range(doling), rest \in SUBSET Range(doling) :
          /\ sent \cap rest = {}
          /\ Distinct(doling') /\ Range(doling') = rest
          /\ \A i \in Items : pushed'[i] # pushed[i] => i \in sent
          /\ Sent' = Sent \cup sent
          /\ due' \subseteq due /\ due' \cap Range(doling) \subseteq rest
  <2>1. Doles(doling, <<>>)
    <3> DEFINE none == <<>>
    <3> HIDE DEF none
    <3>1. /\ DoleOut(doling, none) /\ none \in Seq(Items)
          /\ Distinct(none) /\ Range(doling) \cap Range(none) = {}
      BY <1>1, <1>2 DEF none
    <3>2. Doles(doling, none)
      BY <1>1, <1>2, <3>1, DolesOut
    <3> QED BY <3>2 DEF none
  <2> QED BY <1>2, <2>1 DEF Doles
<1>4. Range(doling') = rest
  BY <1>3
<1>5. /\ UNCHANGED UseDateCutoff
      /\ \A c \in Chains : Found(c)' = Found(c) /\ (Active(c)' <=> Active(c))
  BY <1>1 DEF UseDateCutoff, Found, Active
<1>6. PushesNew
  BY <1>3 DEF PushesNew, PushInv, KnownInv, OnceInv, Sent
<1>7. ListingInv' /\ StreamInv'
  BY <1>1, <1>5 DEF PushInv, ListingInv, StreamInv
<1>8. KnownInv'
  BY <1>1, <1>4, <1>5 DEF PushInv, KnownInv
<1>9. DueInv'
  <2>1. ASSUME NEW i \in due' PROVE OnItsWay(i)'
    <3>1. i \in due /\ OnItsWay(i)
      BY <1>3 DEF PushInv, DueInv
    <3> QED BY <1>1, <1>3, <1>4, <1>5, <3>1 DEF OnItsWay
  <2> QED BY <1>1, <1>3, <1>5, <2>1 DEF PushInv, DueInv
<1>10. OnceInv'
  <2>1. modStream = Nothing => doling' = <<>> /\ Sent' = {}
    BY <1>1 DEF DoleOutNext, PushInv, OnceInv
  <2> QED BY <1>1, <1>3, <1>4, <1>5, <2>1 DEF PushInv, OnceInv
<1> QED
  BY <1>6, <1>7, <1>8, <1>9, <1>10 DEF PushInv

(***************************************************************************)
(* What is pushed: an answer.                                              *)
(***************************************************************************)

\* A poll answered with batch, in terms of the shared stream.
LEMMA Answered ==
    ASSUME TypesInv, ChainInv, PushInv, NEW c \in Chains, PollAnswered(c),
           NEW batch, batch = Batch(c)
    PROVE  LET new == NewItems(c, batch)
               reads == ReadsOn(c, batch)
               old == stream[modStream]
           IN /\ modStream # Nothing /\ modStream \in Streams
              /\ Range(batch) \subseteq 1 .. posted
              /\ \A i \in Range(batch) \ old.processed : home[i] \in old.subreddits
              /\ new \in Seq(Items) /\ Distinct(new)
              /\ Range(new) = Range(Found(c)) \cup (Range(batch) \ old.processed)
              /\ \A d \in Chains \ {c} : Found(d) = <<>> /\ Found(d)' = <<>>
              /\ Found(c)' = IF reads THEN new ELSE <<>>
              /\ stream'[modStream].subreddits = old.subreddits
              /\ stream'[modStream].processed = old.processed \cup Range(batch)
              /\ stream'[modStream].newStart <=> old.newStart /\ reads
              /\ reads => ~old.newStart
              /\ stream'[modStream].dateCutoff = IF old.newStart /\ ~reads
                                                 THEN FirstCutoff(modStream, new)
                                                 ELSE old.dateCutoff
              /\ Emissions(c, batch) \in Seq(Items) /\ Distinct(Emissions(c, batch))
              /\ Range(Emissions(c, batch)) =
                     IF reads \/ old.newStart THEN {}
                     ELSE {i \in Range(new) :
                              UseDateCutoff /\ old.dateCutoff # 0 => i >= old.dateCutoff}
              /\ \A t \in Streams : stream'[t].processed \subseteq 1 .. posted
              /\ StreamInv'
<1> DEFINE new == NewItems(c, batch)
           reads == ReadsOn(c, batch)
           old == stream[modStream]
           items == Emissions(c, batch)
<1>1. /\ StreamTypeOK /\ Awaits(c) /\ Active(c) /\ Receive(c, batch)
      /\ UNCHANGED <<modStream, fresh, posted>>
      /\ posted \in Nat
      /\ chain \in [Chains -> Chain \cup {Nothing}] /\ stream \in [Streams -> StreamFields]
  <2>1. /\ Awaits(c) /\ Receive(c, batch) /\ UNCHANGED <<modStream, fresh>>
    BY DEF PollAnswered, restUnchanged
  <2>2. UNCHANGED posted
    BY <2>1 DEF Receive
  <2> QED BY <2>1, <2>2, StreamAssumption DEF TypesInv, TypeOK, StreamTypeOK, Awaits
<1>2. /\ modStream # Nothing /\ modStream \in Streams /\ chain[c].stream = modStream
      /\ stream[modStream].interval = c /\ old \in StreamFields /\ old.running
  BY <1>1 DEF TypesInv, TypeOK, ChainInv, Awaits
<1>3. batch \in Seq(Items)
  BY <1>1, BatchType
<1>4. /\ Found(c) = chain[c].newItems /\ chain[c].newItems \in Seq(Items)
      /\ Distinct(Found(c)) /\ Range(Found(c)) \subseteq old.processed
      /\ chain[c].pc # "get" => chain[c].pc = "more" /\ Range(chain[c].batch) \subseteq old.processed
      /\ chain[c].pc = "more" => ~old.newStart
  BY <1>1, <1>2 DEF Found, Active, Chain, PushInv, OnceInv, StreamInv, Awaits
<1>5. Range(listing) \subseteq 1 .. posted /\ Distinct(listing) /\ listing \in Seq(Items)
  BY <1>1 DEF PushInv, ListingInv, StreamTypeOK
<1> DEFINE had == IF chain[c].pc = "get" THEN {} ELSE Range(chain[c].batch)
<1>6. /\ Range(batch) \subseteq had \cup Range(Listed(modStream))
      /\ DistinctIn(batch, Items \ old.processed)
  <2>1. had \cap (Items \ old.processed) = {}
    BY <1>4
  <2> HIDE DEF had
  <2>2. /\ Range(Batch(c)) \subseteq had \cup Range(Listed(chain[c].stream))
        /\ \A kept : Distinct(listing) /\ had \cap kept = {} => DistinctIn(Batch(c), kept)
    BY <1>1, BatchIs DEF had
  <2> QED BY <1>2, <1>5, <2>1, <2>2
<1>7. had \subseteq old.processed /\ old.processed \subseteq 1 .. posted
  BY <1>2, <1>4 DEF PushInv, ListingInv
<1>8. Range(Listed(modStream)) = {i \in Range(listing) : home[i] \in old.subreddits}
  BY <1>5, ListedItems
<1> HIDE DEF had
<1>9. /\ Range(batch) \subseteq 1 .. posted
      /\ \A i \in Range(batch) \ old.processed : home[i] \in old.subreddits
  BY <1>5, <1>6, <1>7, <1>8
<1>10. /\ new \in Seq(Items) /\ Distinct(new)
       /\ Range(new) = Range(Found(c)) \cup (Range(batch) \ old.processed)
  <2>1. /\ DistinctIn(batch, Items \ stream[chain[c].stream].processed)
        /\ Distinct(chain[c].newItems)
        /\ Range(chain[c].newItems) \subseteq stream[chain[c].stream].processed
    BY <1>2, <1>4, <1>6
  <2>2. /\ NewItems(c, batch) \in Seq(Items) /\ Distinct(NewItems(c, batch))
        /\ Range(NewItems(c, batch)) =
               Range(chain[c].newItems) \cup
               (Range(batch) \ stream[chain[c].stream].processed)
    BY <1>1, <1>3, <2>1, NewItemsAre
  <2> QED BY <1>2, <1>4, <2>2
<1>11. /\ items \in Seq(Items) /\ Distinct(items)
       /\ Range(items) = IF reads \/ old.newStart THEN {}
                         ELSE {i \in Range(new) :
                                  UseDateCutoff /\ old.dateCutoff # 0 => i >= old.dateCutoff}
  BY <1>1, <1>2, <1>3, <1>10, EmissionsAre
<1>12. /\ stream'[modStream].subreddits = old.subreddits
       /\ stream'[modStream].processed = old.processed \cup Range(batch)
       /\ stream'[modStream].running = old.running
       /\ stream'[modStream].newStart <=> old.newStart /\ reads
       /\ stream'[modStream].dateCutoff = IF old.newStart /\ ~reads
                                          THEN FirstCutoff(modStream, new) ELSE old.dateCutoff
  <2>1. StreamTypeOK /\ Awaits(c) /\ Receive(c, batch) /\ modStream = chain[c].stream
    BY <1>1, <1>2
  <2>2. /\ stream'[modStream].subreddits = stream[modStream].subreddits
        /\ stream'[modStream].enforceContinuity = stream[modStream].enforceContinuity
        /\ stream'[modStream].processed = stream[modStream].processed \cup Range(batch)
        /\ stream'[modStream].running = stream[modStream].running
        /\ stream'[modStream].newStart <=> (stream[modStream].newStart /\ ReadsOn(c, batch))
        /\ stream'[modStream].dateCutoff =
               IF ~ReadsOn(c, batch) /\ stream[modStream].newStart
               THEN FirstCutoff(modStream, NewItems(c, batch)) ELSE stream[modStream].dateCutoff
        /\ stream'[modStream].interval =
               IF ReadsOn(c, batch) THEN stream[modStream].interval ELSE c
    BY <1>3, <2>1, ReceiveUpdates
  <2> HIDE DEF reads, new
  <2> QED BY <2>2 DEF reads, new
<1>13. reads => ~old.newStart
  BY <1>2 DEF ReadsOn
<1>14. /\ \A d \in Chains \ {c} : ~Active(d) /\ chain'[d] = chain[d]
       /\ Active(c)' /\ chain'[c].stream = modStream
       /\ chain'[c].pc = IF reads THEN "more" ELSE "timer"
       /\ chain'[c].newItems = IF reads THEN new ELSE <<>>
       /\ reads => chain'[c].batch = batch
  <2>1. \A d \in Chains \ {c} : ~Active(d)
    BY <1>2 DEF ChainInv
  <2>2. /\ \A d \in Chains \ {c} : chain'[d] = chain[d]
        /\ Active(c)' /\ chain'[c].stream = chain[c].stream
        /\ chain'[c].pc = IF reads THEN "more" ELSE "timer"
    BY <1>1, <1>3, ReceiveChains
  <2>3. CASE reads
    <3>1. chain' = [chain EXCEPT ![c].pc = "more", ![c].batch = batch, ![c].newItems = new]
      BY <1>1, <2>3 DEF Receive
    <3>2. chain[c] \in Chain
      BY <1>1 DEF Active
    <3> HIDE DEF new
    <3>3. chain'[c].newItems = new /\ chain'[c].batch = batch
      BY <1>1, <3>1, <3>2 DEF Chain
    <3> QED BY <1>2, <2>1, <2>2, <2>3, <3>3
  <2>4. CASE ~reads
    <3>1. chain' = [chain EXCEPT ![c] = Timer(chain[c].stream)]
      BY <1>1, <2>4 DEF Receive
    <3>2. chain'[c].newItems = <<>>
      BY <1>1, <1>2, <3>1, TimerType
    <3> QED BY <1>2, <2>1, <2>2, <2>4, <3>2
  <2> QED BY <2>3, <2>4
<1>15. /\ \A d \in Chains \ {c} : Found(d) = <<>> /\ Found(d)' = <<>>
       /\ Found(c)' = IF reads THEN new ELSE <<>>
  BY <1>14 DEF Found, Active
<1>16. ASSUME NEW t \in Streams PROVE stream'[t].processed \subseteq 1 .. posted
  <2>1. \/ stream'[t].processed = stream[t].processed
        \/ stream'[t].processed = old.processed \cup Range(batch)
    <3>1. stream'[t].processed = IF stream[t].set = stream[chain[c].stream].set
                                 THEN stream[chain[c].stream].processed \cup Range(batch)
                                 ELSE stream[t].processed
      BY <1>1, <1>3, ReceiveRemembers
    <3> QED BY <1>2, <3>1
  <2> QED BY <1>7, <1>9, <2>1 DEF PushInv, ListingInv
<1>17. stream'[modStream].dateCutoff <= posted + 1
  <2>1. old.dateCutoff <= posted + 1 /\ (old.newStart => old.dateCutoff = 0)
    BY <1>2 DEF PushInv, StreamInv
  <2>2. CASE old.newStart /\ ~reads
    <3>1. \A i \in Range(new) : i \in 1 .. posted
      BY <1>4, <1>7, <1>9, <1>10
    <3>2. new # <<>> => Newest(new) \in Range(new)
      BY <1>10, NewestOf
    <3>3. CASE UseDateCutoff
      <4>1. FirstCutoff(modStream, new) = IF new = <<>> THEN posted + 1 ELSE Newest(new)
        BY <1>1, <1>2, <1>10, <2>1, <2>2, <3>3, FirstCutoffIs
      <4> HIDE DEF new, reads
      <4> QED BY <1>1, <1>12, <2>2, <3>1, <3>2, <4>1
    <3>4. CASE ~UseDateCutoff
      <4>1. FirstCutoff(modStream, new) = old.dateCutoff
        BY <3>4 DEF FirstCutoff
      <4> HIDE DEF new, reads
      <4> QED BY <1>12, <2>1, <2>2, <4>1
    <3> QED BY <3>3, <3>4
  <2>3. CASE ~ (old.newStart /\ ~reads)
    BY <1>12, <2>1, <2>3
  <2> QED BY <2>2, <2>3
<1>18. StreamInv'
  <2>1. ~fresh /\ ~stream'[modStream].newStart
    BY <1>2, <1>12, <1>13 DEF PushInv, StreamInv
  <2>2. \A d \in Chains : Active(d)' => d = c
    BY <1>14 DEF Active
  <2>3. reads => Range(chain'[c].batch) \subseteq stream'[modStream].processed
    BY <1>12, <1>14
  <2> HIDE DEF new, reads, old
  <2> QED BY <1>1, <1>2, <1>14, <1>17, <2>1, <2>2, <2>3 DEF StreamInv
<1> QED
  BY <1>2, <1>9, <1>10, <1>11, <1>12, <1>13, <1>15, <1>16, <1>18

\* An answer pushes nothing that is old or was pushed, and loses nothing.
LEMMA AnswerKeeps ==
    ASSUME TypesInv, ChainInv, PushInv, NEW c \in Chains, PollAnswered(c)
    PROVE  PushInv' /\ PushesNew
<1> DEFINE batch == Batch(c)
           items == Emissions(c, batch)
           new == NewItems(c, batch)
           reads == ReadsOn(c, batch)
           old == stream[modStream]
           now == stream'[modStream]
<1>1. /\ Receive(c, batch)
      /\ IF reads THEN UNCHANGED <<listedOnce, doling, pushed, due>>
         ELSE /\ listedOnce' = TRUE
              /\ IF listedOnce THEN DoleOut(items, doling)
                 ELSE due' = due \ Range(items) /\ UNCHANGED <<doling, pushed>>
      /\ UNCHANGED <<config, eventsState, modStream, fresh, existing>>
  BY DEF PollAnswered, restUnchanged
<1>2. /\ UNCHANGED <<source, posted, home, listing>> /\ UNCHANGED UseDateCutoff
      /\ TypeOK /\ StreamTypeOK /\ posted \in Nat /\ Active(c)
      /\ doling \in Seq(Items) /\ pushed \in [Items -> 0 .. 2]
  <2>1. UNCHANGED <<source, posted, home, listing>>
    BY <1>1 DEF Receive
  <2>2. TypeOK /\ Active(c)
    BY DEF TypesInv, PollAnswered, Awaits
  <2> QED BY <2>1, <2>2, StreamAssumption DEF UseDateCutoff, TypeOK, StreamTypeOK
<1>3. /\ modStream # Nothing /\ modStream \in Streams
      /\ Range(batch) \subseteq 1 .. posted
      /\ \A i \in Range(batch) \ old.processed : home[i] \in old.subreddits
      /\ new \in Seq(Items) /\ Distinct(new)
      /\ Range(new) = Range(Found(c)) \cup (Range(batch) \ old.processed)
      /\ \A d \in Chains \ {c} : Found(d) = <<>> /\ Found(d)' = <<>>
      /\ Found(c)' = IF reads THEN new ELSE <<>>
      /\ now.subreddits = old.subreddits
      /\ now.processed = old.processed \cup Range(batch)
      /\ now.newStart <=> old.newStart /\ reads
      /\ reads => ~old.newStart
      /\ now.dateCutoff = IF old.newStart /\ ~reads
                          THEN FirstCutoff(modStream, new) ELSE old.dateCutoff
      /\ items \in Seq(Items) /\ Distinct(items)
      /\ Range(items) = IF reads \/ old.newStart THEN {}
                        ELSE {i \in Range(new) :
                                 UseDateCutoff /\ old.dateCutoff # 0 => i >= old.dateCutoff}
      /\ \A t \in Streams : stream'[t].processed \subseteq 1 .. posted
      /\ StreamInv'
  BY Answered
<1>4. /\ old.dateCutoff \in Nat /\ ~now.newStart
      /\ old.newStart => chain[c].pc = "get" /\ Found(c) = <<>> /\ old.dateCutoff = 0
  <2>1. old \in StreamFields
    BY <1>2, <1>3 DEF StreamTypeOK
  <2>2. /\ old.newStart => old.dateCutoff = 0
        /\ chain[c].pc \in {"more", "retrying"} => ~old.newStart
        /\ chain[c].pc # "more" => chain[c].newItems = <<>>
    BY <1>2, <1>3 DEF PushInv, StreamInv
  <2>3. chain[c].pc \in {"get", "more"}
    BY DEF PollAnswered, Awaits
  <2> QED BY <1>2, <1>3, <2>1, <2>2, <2>3 DEF StreamFields, Found
<1>5. old.newStart => batch = FirstPage(modStream)
  <2>1. chain[c].stream = modStream
    BY <1>2 DEF ChainInv
  <2> QED BY <1>4, <2>1 DEF Batch
<1>6. /\ Range(Found(c)) \cap (Sent \cup Range(doling)) = {}
      /\ Sent \cap Range(doling) = {} /\ Distinct(doling)
      /\ Sent \cup Range(doling) \subseteq old.processed
      /\ existing \cap Range(doling) = {}
      /\ \A i \in existing \cap Range(Found(c)) : i < old.dateCutoff
  BY <1>3 DEF PushInv, OnceInv, KnownInv
<1> HIDE DEF batch, items, new, reads, old, now
<1>7. Range(new) \cap (Sent \cup Range(doling)) = {}
  BY <1>3, <1>6
<1>8. ASSUME NEW i \in existing, i \in Range(new), ~old.newStart
      PROVE  UseDateCutoff /\ i < old.dateCutoff
  <2>1. UseDateCutoff
    BY <1>8 DEF PushInv, KnownInv
  <2>2. CASE i \in Range(Found(c))
    BY <1>6, <1>8, <2>1, <2>2
  <2>3. CASE i \in Range(batch) \ old.processed
    BY <1>3, <1>8, <2>1, <2>3 DEF PushInv, KnownInv, old
  <2> QED BY <1>3, <1>8, <2>2, <2>3
<1>9. Range(items) \cap existing = {}
  <2> SUFFICES ASSUME NEW i \in existing, i \in Range(items) PROVE FALSE
    OBVIOUS
  <2>1. /\ ~reads /\ ~old.newStart /\ i \in Range(new)
        /\ UseDateCutoff /\ old.dateCutoff # 0 => i >= old.dateCutoff
    BY <1>3
  <2>2. UseDateCutoff /\ i < old.dateCutoff
    BY <1>8, <2>1
  <2>3. i \in Nat
    BY <1>2, StreamAssumption DEF TypeOK, Items
  <2> QED BY <1>4, <2>1, <2>2, <2>3
<1>10. Range(items) \cap (Sent \cup Range(doling)) = {}
  BY <1>3, <1>7
<1>11. Doles(items, doling)
  <2>1. CASE listedOnce /\ ~reads
    <3>1. Range(items) \cap Range(doling) = {}
      BY <1>10
    <3>2. DoleOut(items, doling)
      BY <1>1, <2>1
    <3> QED BY <1>2, <1>3, <1>6, <3>1, <3>2, DolesOut
  <2>2. CASE ~listedOnce \/ reads
    <3>1. UNCHANGED <<doling, pushed>> /\ due' \subseteq due /\ due' \cap Range(items) = {}
      BY <1>1, <1>3, <2>2
    <3>2. Sent' = Sent
      BY <3>1 DEF Sent
    <3> USE DEF Doles
    <3> WITNESS {} \in SUBSET Range(items), {} \in SUBSET Range(items)
    <3> QED BY <1>6, <3>1, <3>2
  <2> QED BY <2>1, <2>2
<1>12. PICK sent \in SUBSET Range(items), rest \in SUBSET Range(items) :
           /\ sent \cap rest = {}
           /\ Distinct(doling') /\ Range(doling') = Range(doling) \cup rest
           /\ \A i \in Items : pushed'[i] # pushed[i] => i \in sent
           /\ Sent' = Sent \cup sent
           /\ due' \subseteq due /\ due' \cap Range(items) \subseteq rest
  BY <1>11 DEF Doles
<1>13. PushesNew
  <2>1. ASSUME NEW i \in Items, pushed'[i] # pushed[i]
        PROVE  i \notin existing /\ pushed[i] = 0
    <3>1. i \in Range(items)
      BY <1>12, <2>1
    <3> QED BY <1>9, <1>10, <3>1 DEF Sent
  <2> QED BY <2>1 DEF PushesNew
<1>14. ListingInv'
  BY <1>2, <1>3 DEF PushInv, ListingInv
<1>15. KnownInv'
  <2>1. /\ existing' \subseteq Range(listing)' /\ (~UseDateCutoff' => existing' = {})
        /\ existing' \cap Range(doling)' = {}
    BY <1>1, <1>2, <1>6, <1>9, <1>12 DEF PushInv, KnownInv
  <2>2. ASSUME NEW i \in existing, home[i] \in old.subreddits
        PROVE  i \in now.processed \/ i < now.dateCutoff
    <3>1. UseDateCutoff /\ i \in Range(listing) /\ Range(listing) \subseteq 1 .. posted
          /\ Descending(listing)
      BY <2>2 DEF PushInv, KnownInv, ListingInv
    <3>2. CASE ~old.newStart
      <4>1. i \in old.processed \/ i < old.dateCutoff
        BY <1>3, <2>2, <3>2 DEF PushInv, KnownInv, old
      <4> QED BY <1>3, <3>2, <4>1
    <3>3. CASE old.newStart
      <4>1. batch = FirstPage(modStream) /\ stream[modStream].dateCutoff = 0 /\ ~reads
        BY <1>3, <1>4, <1>5, <3>3 DEF old
      <4>2. Range(new) = Range(FirstPage(modStream)) \ stream[modStream].processed
        BY <1>3, <1>4, <3>3, <4>1, NoneIn DEF old
      <4>3. i \in Range(Listed(modStream))
        <5>1. listing \in Seq(Items)
          BY <1>2 DEF StreamTypeOK
        <5> QED BY <2>2, <3>1, <5>1, ListedItems DEF old
      <4>4. \/ i \in stream[modStream].processed \cup Range(FirstPage(modStream))
            \/ i < FirstCutoff(modStream, new)
        BY <1>2, <1>3, <3>1, <4>1, <4>2, <4>3, FirstPollCovers
      <4> QED BY <1>3, <3>3, <4>1, <4>4 DEF old
    <3> QED BY <3>2, <3>3
  <2>3. ASSUME NEW d \in Chains, NEW i \in existing \cap Range(Found(d)')
        PROVE  i < now.dateCutoff
    <3>1. d = c /\ reads /\ i \in Range(new)
      BY <1>3, <2>3, NoneIn
    <3> QED BY <1>3, <1>8, <3>1
  <2> QED BY <1>1, <1>2, <1>3, <2>1, <2>2, <2>3 DEF KnownInv, now
<1>16. DueInv'
  <2>1. ~UseDateCutoff' => due' = {}
    BY <1>2, <1>12 DEF PushInv, DueInv
  <2>2. ASSUME NEW i \in due'
        PROVE  /\ i \in 1 .. posted
               /\ eventsState[home[i]] = "RUNNING" /\ config[home[i]]
               /\ ~old.newStart /\ i >= old.dateCutoff
               /\ OnItsWay(i)
    BY <1>12, <2>2 DEF PushInv, DueInv, old
  <2>3. ASSUME NEW i \in due' PROVE OnItsWay(i)'
    <3>1. CASE i \in Range(doling)
      BY <1>12, <3>1 DEF OnItsWay
    <3>2. CASE i \in Range(new)
      <4>1. CASE reads
        <5>1. i \in Range(Found(c)')
          BY <1>3, <3>2, <4>1
        <5> QED BY <5>1 DEF OnItsWay
      <4>2. CASE ~reads
        <5>1. i \in Range(items)
          BY <1>3, <2>2, <2>3, <3>2, <4>2
        <5> QED BY <1>12, <2>3, <5>1 DEF OnItsWay
      <4> QED BY <4>1, <4>2
    <3>3. CASE i \notin Range(doling) \cup Range(new)
      <4>1. i \notin old.processed
        <5>1. \A d \in Chains : i \notin Range(Found(d))
          BY <1>3, <3>3, NoneIn
        <5> QED BY <2>2, <2>3, <3>3, <5>1 DEF OnItsWay, old
      <4>2. i \notin now.processed
        BY <1>3, <3>3, <4>1
      <4> QED BY <1>1, <4>2 DEF OnItsWay, now
    <3> QED BY <3>1, <3>2, <3>3
  <2>4. now.dateCutoff = old.dateCutoff \/ old.newStart
    BY <1>3
  <2> QED BY <1>1, <1>2, <1>3, <1>4, <2>1, <2>2, <2>3, <2>4 DEF DueInv, now
<1>17. OnceInv'
  <2>1. Sent' \cap Range(doling') = {}
    BY <1>6, <1>10, <1>12
  <2>2. Range(new) \subseteq now.processed /\ Range(items) \subseteq Range(new)
    <3>1. Range(Found(c)) \subseteq old.processed
      BY <1>3 DEF PushInv, OnceInv, old
    <3> QED BY <1>3, <3>1
  <2>3. Sent' \cup Range(doling') \subseteq now.processed
    BY <1>3, <1>6, <1>12, <2>2
  <2>4. ASSUME NEW d \in Chains
        PROVE  /\ Distinct(Found(d)') /\ Range(Found(d)') \subseteq now.processed
               /\ Range(Found(d)') \cap (Sent' \cup Range(doling')) = {}
    <3>1. CASE d # c \/ ~reads
      BY <1>3, <3>1, NoneIn
    <3>2. CASE d = c /\ reads
      <4>1. Found(d)' = new /\ Range(items) = {}
        BY <1>3, <3>2
      <4>2. Sent' = Sent /\ Range(doling') = Range(doling)
        BY <1>12, <4>1
      <4> QED BY <1>3, <1>7, <2>2, <4>1, <4>2
    <3> QED BY <3>1, <3>2
  <2> QED BY <1>1, <1>3, <1>12, <2>1, <2>3, <2>4 DEF OnceInv, now
<1> QED
  BY <1>3, <1>13, <1>14, <1>15, <1>16, <1>17 DEF PushInv

\* No step pushes what is old or was pushed, and each keeps the invariant, if the
\* streams are not replaced where that could lose items and no first poll fails.
LEMMA PushStep ==
    /\ ~InFlight /\ ~Unfollowed /\ ~ReplacesAny /\ FailsAt \subseteq {"get"}
    /\ TypesInv /\ ChainInv /\ FollowInv /\ PushInv
    /\ [Next]_vars
    => PushInv' /\ PushesNew
<1> SUFFICES ASSUME ~InFlight, ~Unfollowed, ~ReplacesAny, FailsAt \subseteq {"get"},
                    TypesInv, ChainInv, FollowInv, PushInv, [Next]_vars
             PROVE  PushInv' /\ PushesNew
  OBVIOUS
<1> DEFINE Goal == PushInv' /\ PushesNew
<1>1. UNCHANGED pushed => PushesNew
  BY DEF PushesNew
<1>2. ASSUME NEW m \in Subreddits, ItemPosted(m) PROVE Goal
  BY <1>1, <1>2, PostKeeps DEF ItemPosted
<1>3. ASSUME NEW i \in Items, ItemDelisted(i) PROVE Goal
  BY <1>1, <1>3, DelistKeeps DEF ItemDelisted
<1>4. ASSUME NEW i \in Items, ItemReported(i) PROVE Goal
  BY <1>1, <1>4, ReportKeeps DEF ItemReported
<1>5. ASSUME NEW c \in Chains, Poll(c) PROVE Goal
  <2>1. CASE PollBegins(c)
    BY <1>1, <2>1, BeginKeeps DEF PollBegins
  <2>2. CASE PollAnswered(c)
    BY <2>2, AnswerKeeps
  <2>3. CASE PollFails(c)
    BY <1>1, <2>3, FailKeeps DEF PollFails
  <2>4. CASE PollRetried(c)
    BY <1>1, <2>4, RetryKeeps DEF PollRetried
  <2>5. CASE GiveUp(c)
    BY <1>1, <2>5, GiveUpKeeps DEF GiveUp
  <2> QED BY <1>5, <2>1, <2>2, <2>3, <2>4, <2>5 DEF Poll
<1>6. ASSUME NEW m \in Subreddits, NEW shared \in BOOLEAN, UpdateConfig(m, shared)
      PROVE  Goal
  BY <1>1, <1>6, ConfigKeeps DEF UpdateConfig
<1>7. ASSUME NEW m \in Subreddits, StartEvents(m) PROVE Goal
  BY <1>1, <1>7, EventsKeep DEF StartEvents
<1>8. ASSUME NEW m \in Subreddits, NEW state \in {"PAUSED", "STOPPED"}, EndEvents(m, state)
      PROVE  Goal
  BY <1>1, <1>8, EventsKeep DEF EndEvents
<1>9. CASE DoleOutNext
  BY <1>9, DoleOutKeeps
<1>10. CASE RunSharedStreams
  BY <1>1, <1>10, RunSharedKeeps DEF RunSharedStreams
<1>11. CASE HardLimit
  BY <1>1, <1>11, HardLimitKeeps DEF HardLimit
<1>12. CASE UNCHANGED vars
  <2>1. /\ RestSame /\ UNCHANGED <<stream, chain, config, eventsState, modStream,
                                  existing, fresh, due>>
    BY <1>12 DEF vars, streamVars, RestSame
  <2>2. \A c \in Chains : Found(c)' = Found(c)
    BY <2>1 DEF Found, Active
  <2>3. StreamInv'
    BY <2>1 DEF StreamInv, PushInv, Active, RestSame
  <2>4. \A i \in due : eventsState[home[i]] = "RUNNING" /\ config[home[i]]
    BY DEF PushInv, DueInv
  <2>5. PushInv'
    BY <2>1, <2>2, <2>3, <2>4, SameStream
  <2> QED BY <1>1, <2>1, <2>5 DEF RestSame
<1> QED
  BY <1>2, <1>3, <1>4, <1>5, <1>6, <1>7, <1>8, <1>9, <1>10, <1>11, <1>12 DEF Next, Manager

\* What the stream lists is pushed to the manager that it belongs to once, if it
\* is new: nothing that was listed when the stream took up its subreddit, nothing
\* twice, and what is listed while its manager listens is not passed over; for
\* any number of managers, items, streams, chains and pages, across replacements
\* of the stream, retries and the hard limit, if the operations come between two
\* polls, a paused manager's config stays, and no first poll fails.
THEOREM SharedPushesOnceIfNew ==
    ~InFlight /\ ~Unfollowed /\ ~ReplacesAny /\ FailsAt \subseteq {"get"} /\ Spec
        => PushedOnceIfNew
<1> SUFFICES ASSUME ~InFlight, ~Unfollowed, ~ReplacesAny, FailsAt \subseteq {"get"}
             PROVE  Spec => PushedOnceIfNew
  OBVIOUS
<1> DEFINE IInv == TypesInv /\ ChainInv /\ FollowInv /\ PushInv
<1>1. Init => IInv
  BY TypesInit, ChainInit, FollowInit, PushInit
<1>2. IInv /\ [Next]_vars => IInv'
  BY TypesStep, ChainStep, FollowStep, PushStep
<1>3. IInv /\ [Next]_vars => [\A i \in existing : pushed'[i] = pushed[i]]_vars
  <2>1. IInv => existing \subseteq Items
    BY DEF TypesInv, TypeOK
  <2> QED BY <2>1, PushStep DEF PushesNew
<1>4. IInv /\ [Next]_vars => [\A i \in Items : pushed'[i] # pushed[i] => pushed[i] = 0]_vars
  BY PushStep DEF PushesNew
<1>5. IInv => NothingSkipped
  <2> SUFFICES ASSUME IInv, NEW i \in due
               PROVE  \/ i \in Range(doling)
                      \/ \E c \in Chains : Active(c) /\ i \in Range(chain[c].newItems)
                      \/ modStream # Nothing /\ i \notin stream[modStream].processed
    BY DEF NothingSkipped
  <2>1. modStream # Nothing /\ OnItsWay(i)
    BY DEF PushInv, DueInv
  <2> QED BY <2>1, NoneIn DEF OnItsWay, Found
<1> QED
  BY <1>1, <1>2, <1>3, <1>4, <1>5, PTL
  DEF Spec, PushedOnceIfNew, NothingOld, NeverPushedTwice
=============================================================================
