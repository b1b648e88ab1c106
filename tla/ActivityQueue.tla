---------------------------- MODULE ActivityQueue ----------------------------
(***************************************************************************)
(* How one Manager queues the activities of its subreddit.                 *)
(*                                                                         *)
(* Every source (polling streams, shared streams, dispatched actions,      *)
(* users of the web interface) pushes to the FIREHOSE, an async queue with *)
(* one worker that removes duplicates with the help of queuedItemsMeta and *)
(* feeds the QUEUE, an async queue whose workers run handleActivity.  The  *)
(* manager starts, pauses, stops and (on a config update) replaces the     *)
(* queue while activities keep arriving.                                   *)
(*                                                                         *)
(* JavaScript runs one callback at a time, so a step below is the code     *)
(* between two awaits.  Reddit's copy of an activity is a version number.  *)
(* The async library's queue object is external: a queue is the sequence   *)
(* of its waiting tasks, its concurrency, its paused flag and its workers. *)
(***************************************************************************)
EXTENDS Naturals, Sequences, FiniteSets, SequencesExt

CONSTANTS
    Activities,     \* names (fullnames) of the activities Reddit shows
    Workers,        \* handles of concurrently running queue workers
    Idle,           \* "no task": a model value
    GlobalMaxWorkers, \* the operator's limit on the workers of any queue
    ConfigWorkers,  \* the maxWorkers values a subreddit's config may ask for
    SlowWork,       \* whether handleActivity may outlive the 5s stopQueue waits
    Editable,       \* activities that change on Reddit
    MaxVersion,     \* bound: versions of an activity on Reddit
    MaxFirehose,    \* bound: tasks waiting in the firehose
    MaxOperations   \* bound: pause/stop/update operations in progress at once

ASSUME ConstAssumption ==
    /\ IsFiniteSet(Workers)
    /\ GlobalMaxWorkers \in Nat
    /\ ConfigWorkers \subseteq Nat
    /\ SlowWork \in BOOLEAN
    /\ Editable \subseteq Activities
    /\ MaxVersion \in Nat \ {0}
    /\ MaxFirehose \in Nat
    /\ MaxOperations \in Nat

VARIABLES
    reddit,      \* reddit[a]: version of a that Reddit would return now
    firehose,    \* tasks waiting in the firehose
    metas,       \* queuedItemsMeta
    tasks,       \* tasks waiting in the queue
    concurrency, \* concurrency of the queue
    paused,      \* queue.paused
    queueState,  \* queueState.state
    waiting,     \* pause/stop/update operations that sleep or await
    delayBy,     \* whether the api nanny's soft limit slows the workers
    worker,      \* what each worker is doing
    owed         \* history: newest version of a ingested and not yet used, or 0

vars == <<reddit, firehose, metas, tasks, concurrency, paused, queueState,
          waiting, delayBy, worker, owed>>

Versions == 1 .. MaxVersion

\* CheckTask: the activity with the data it was found with, and options.refresh
Task == [id : Activities, data : Versions, refresh : BOOLEAN]

\* QueuedIdentifier
Meta == [id : Activities, shouldRefresh : BOOLEAN, state : {"queued", "processing"}]

\* A busy worker: index is queuedItemIndex (0 for JavaScript's -1); detached
\* says that the worker belongs to a queue that generateQueue has replaced.
Job == [pc : {"delaying", "refreshing", "handling"}, task : Task, index : Nat,
        detached : BOOLEAN]

ASSUME IdleAssumption == Idle \notin Job

TypeOK ==
    /\ reddit \in [Activities -> Versions]
    /\ firehose \in Seq(Task)
    /\ metas \in Seq(Meta)
    /\ tasks \in Seq(Task)
    /\ concurrency \in Nat \ {0}
    /\ paused \in BOOLEAN
    /\ queueState \in {"RUNNING", "PAUSED", "STOPPED"}
    /\ waiting \subseteq {"pause", "stop", "update", "regenerate"}
    /\ delayBy \in BOOLEAN
    /\ worker \in [Workers -> Job \cup {Idle}]
    /\ owed \in [Activities -> 0 .. MaxVersion]

\* Mutant: a limit below one is not corrected.
RealMaxNoFloor(n) == IF n > GlobalMaxWorkers THEN GlobalMaxWorkers ELSE n

\* getMaxWorkers: at most the operator's limit, at least one.
RealMax(n) ==
    LET max == IF n > GlobalMaxWorkers THEN GlobalMaxWorkers ELSE n
    IN IF max < 1 THEN 1 ELSE max

Init ==
    /\ reddit = [a \in Activities |-> 1]
    /\ firehose = <<>>
    /\ metas = <<>>
    /\ tasks = <<>>
    /\ concurrency = RealMax(GlobalMaxWorkers)
    /\ paused = TRUE
    /\ queueState = "STOPPED"
    /\ waiting = {}
    /\ delayBy = FALSE
    /\ worker = [w \in Workers |-> Idle]
    /\ owed = [a \in Activities |-> 0]

-----------------------------------------------------------------------------
(* Helpers *)

Busy(w) == worker[w] # Idle

\* queue.running(): the workers of the current queue object
Running == {w \in Workers : Busy(w) /\ ~worker[w].detached}

FirstMeta(a) == SelectInSeq(metas, LAMBDA m : m.id = a)
LastMeta(a)  == SelectLastInSeq(metas, LAMBDA m : m.id = a)

\* Mutant: the worker does not remove the meta.
SplicedNothing(s, i) == s

\* Array.prototype.splice(i - 1, 1): an index past the end removes nothing,
\* and -1 (i = 0) counts from the end, so that it removes the last element.
Spliced(s, i) ==
    IF i \in 1 .. Len(s) THEN RemoveAt(s, i)
    ELSE IF i = 0 /\ s # <<>> THEN Front(s) ELSE s

\* Mutant: an item being processed counts as queued.
AlreadyKnown(i) == i # 0

\* The firehose's newest meta of an activity, at i, still waits for a worker.
AlreadyQueued(i) == i # 0 /\ metas[i].state = "queued"

\* The meta of an item that is queued, or queued again while it is processed.
NewMeta(a, again) == [id |-> a, shouldRefresh |-> again, state |-> "queued"]

\* Mutant: the item is not flagged.
NotFlagged(i) == metas

Flagged(i) == [metas EXCEPT ![i].shouldRefresh = TRUE]

\* Mutant: the call is missing.
PauseForgotten == UNCHANGED paused

\* queue.pause(): no further task is handed to a worker.
PauseTasks == paused' = TRUE

\* owed once the activity has been handled with the given version of its data
Repaid(a, data) == [owed EXCEPT ![a] = IF data >= @ THEN 0 ELSE @]

-----------------------------------------------------------------------------
(* The activities and the firehose *)

\* The activity changes on Reddit: edited, reported, voted on.
Edit(a) ==
    /\ a \in Editable
    /\ reddit[a] < MaxVersion
    /\ reddit' = [reddit EXCEPT ![a] = @ + 1]
    /\ UNCHANGED <<firehose, metas, tasks, concurrency, paused, queueState,
                   waiting, delayBy, worker, owed>>

\* A stream or a user pushes a fresh copy of an activity to the firehose; a
\* dispatched activity is pushed with the copy it was stored with, to be
\* refreshed.
Ingest(a, data, refresh) ==
    /\ Len(firehose) < MaxFirehose
    /\ IF refresh THEN data <= reddit[a] ELSE data = reddit[a]
    /\ firehose' = Append(firehose, [id |-> a, data |-> data, refresh |-> refresh])
    /\ UNCHANGED <<reddit, metas, tasks, concurrency, paused, queueState,
                   waiting, delayBy, worker, owed>>

\* The firehose worker, up to its first await (which only cancels delayed
\* activities: module Dispatch).
Firehose ==
    /\ firehose # <<>>
    /\ LET task == Head(firehose)
           last == LastMeta(task.id)
       IN /\ IF AlreadyQueued(last)
             THEN /\ metas' = Flagged(last)
                  /\ UNCHANGED tasks
             ELSE /\ metas' = Append(metas, NewMeta(task.id, last # 0))
                  /\ tasks' = Append(tasks, task)
          /\ owed' = [owed EXCEPT ![task.id] = IF task.data > @ THEN task.data ELSE @]
    /\ firehose' = Tail(firehose)
    /\ UNCHANGED <<reddit, concurrency, paused, queueState, waiting, delayBy, worker>>

-----------------------------------------------------------------------------
(* The queue's workers *)

\* The part of the worker up to handleActivity's first await.  Without a meta
\* for the activity (index 0) the worker fails on itemMeta.shouldRefresh, and
\* its finally block splices at -1: the task is gone.
Begin(w, task, detached) ==
    LET i == FirstMeta(task.id)
        refresh == task.refresh \/ metas[i].shouldRefresh
    IN IF i = 0
       THEN /\ metas' = Spliced(metas, 0)
            /\ worker' = [worker EXCEPT ![w] = Idle]
            /\ UNCHANGED owed
       ELSE /\ metas' = [metas EXCEPT ![i].state = "processing"]
            /\ worker' = [worker EXCEPT ![w] =
                   [pc |-> IF refresh THEN "refreshing" ELSE "handling",
                    task |-> task, index |-> i, detached |-> detached]]
            /\ owed' = IF refresh THEN owed ELSE Repaid(task.id, task.data)

\* The queue gives its oldest task to a worker.
TakeTask(w) ==
    /\ ~paused
    /\ tasks # <<>>
    /\ Cardinality(Running) < concurrency
    /\ ~Busy(w)
    /\ tasks' = Tail(tasks)
    /\ IF delayBy
       THEN /\ worker' = [worker EXCEPT ![w] =
                  [pc |-> "delaying", task |-> Head(tasks), index |-> 0,
                   detached |-> FALSE]]
            /\ UNCHANGED <<metas, owed>>
       ELSE Begin(w, Head(tasks), FALSE)
    /\ UNCHANGED <<reddit, firehose, concurrency, paused, queueState, waiting, delayBy>>

\* The soft limit's sleep ends.
EndDelay(w) ==
    /\ Busy(w) /\ worker[w].pc = "delaying"
    /\ Begin(w, worker[w].task, worker[w].detached)
    /\ UNCHANGED <<reddit, firehose, tasks, concurrency, paused, queueState,
                   waiting, delayBy>>

\* activity.refresh() returns what Reddit has now.
Refresh(w) ==
    /\ Busy(w) /\ worker[w].pc = "refreshing"
    /\ worker' = [worker EXCEPT ![w].pc = "handling"]
    /\ owed' = Repaid(worker[w].task.id, reddit[worker[w].task.id])
    /\ UNCHANGED <<reddit, firehose, metas, tasks, concurrency, paused,
                   queueState, waiting, delayBy>>

\* The finally block, with the index that was found before the await.
Release(w) ==
    /\ metas' = Spliced(metas, worker[w].index)
    /\ worker' = [worker EXCEPT ![w] = Idle]
    /\ UNCHANGED <<reddit, firehose, tasks, concurrency, paused, queueState,
                   waiting, delayBy>>

\* activity.refresh() fails: the error is logged and the activity dropped.
RefreshFails(w) ==
    /\ Busy(w) /\ worker[w].pc = "refreshing"
    /\ owed' = Repaid(worker[w].task.id, reddit[worker[w].task.id])
    /\ Release(w)

\* handleActivity ends, with or without an error.
Finish(w) ==
    /\ Busy(w) /\ worker[w].pc = "handling"
    /\ Release(w)
    /\ UNCHANGED owed

-----------------------------------------------------------------------------
(* The manager's operations on the queue *)

\* An operation begins while fewer than MaxOperations others are in progress.
MayOperate == Cardinality(waiting) < MaxOperations

\* The api nanny enters or leaves its soft limit.
SetDelay ==
    /\ delayBy' = ~delayBy
    /\ UNCHANGED <<reddit, firehose, metas, tasks, concurrency, paused,
                   queueState, waiting, worker, owed>>

\* Mutant: startQueue does not resume the queue.
StartQueueNoResume ==
    /\ MayOperate
    /\ queueState # "RUNNING"
    /\ queueState' = "RUNNING"
    /\ UNCHANGED <<reddit, firehose, metas, tasks, concurrency, paused, waiting,
                   delayBy, worker, owed>>

StartQueue ==
    /\ MayOperate
    /\ queueState # "RUNNING"
    /\ paused' = FALSE
    /\ queueState' = "RUNNING"
    /\ UNCHANGED <<reddit, firehose, metas, tasks, concurrency, waiting,
                   delayBy, worker, owed>>

\* pauseQueue sleeps while activities are being processed.
PauseQueue ==
    /\ MayOperate
    /\ queueState = "RUNNING"
    /\ PauseTasks
    /\ IF Running = {}
       THEN queueState' = "PAUSED" /\ UNCHANGED waiting
       ELSE /\ "pause" \notin waiting
            /\ waiting' = waiting \cup {"pause"}
            /\ UNCHANGED queueState
    /\ UNCHANGED <<reddit, firehose, metas, tasks, concurrency, delayBy, worker, owed>>

PauseQueueDone ==
    /\ "pause" \in waiting
    /\ Running = {}
    /\ queueState' = "PAUSED"
    /\ waiting' = waiting \ {"pause"}
    /\ UNCHANGED <<reddit, firehose, metas, tasks, concurrency, paused,
                   delayBy, worker, owed>>

\* An idle queue is stopped at once and keeps its tasks.
StopQueue ==
    /\ MayOperate
    /\ queueState # "STOPPED"
    /\ PauseTasks
    /\ IF Running = {}
       THEN queueState' = "STOPPED" /\ UNCHANGED waiting
       ELSE /\ "stop" \notin waiting
            /\ waiting' = waiting \cup {"stop"}
            /\ UNCHANGED queueState
    /\ UNCHANGED <<reddit, firehose, metas, tasks, concurrency, delayBy, worker, owed>>

\* A busy one is cleared when its workers end or, when they do not, after 5s.
StopQueueDone ==
    /\ "stop" \in waiting
    /\ Running = {} \/ SlowWork
    /\ firehose' = <<>>
    /\ tasks' = <<>>
    /\ metas' = <<>>
    /\ queueState' = "STOPPED"
    /\ waiting' = waiting \ {"stop"}
    /\ owed' = [a \in Activities |-> 0]
    /\ UNCHANGED <<reddit, concurrency, paused, delayBy, worker>>

\* parseConfiguration finds a new config: it pauses a running queue first.
UpdateConfig ==
    /\ waiting \cap {"update", "regenerate"} = {}
    /\ MayOperate
    /\ IF queueState = "RUNNING"
       THEN /\ PauseTasks
            /\ IF Running = {}
               THEN /\ queueState' = "PAUSED"
                    /\ waiting' = waiting \cup {"regenerate"}
               ELSE /\ waiting' = waiting \cup {"update"}
                    /\ UNCHANGED queueState
       ELSE /\ waiting' = waiting \cup {"regenerate"}
            /\ UNCHANGED <<paused, queueState>>
    /\ UNCHANGED <<reddit, firehose, metas, tasks, concurrency, delayBy, worker, owed>>

UpdatePauseDone ==
    /\ "update" \in waiting
    /\ Running = {}
    /\ queueState' = "PAUSED"
    /\ waiting' = (waiting \ {"update"}) \cup {"regenerate"}
    /\ UNCHANGED <<reddit, firehose, metas, tasks, concurrency, paused,
                   delayBy, worker, owed>>

\* parseConfigurationFromObject: a different maxWorkers gets a new, paused
\* queue object, while the tasks and the workers of the old one stay with it.
Regenerate(n) ==
    /\ "regenerate" \in waiting
    /\ waiting' = waiting \ {"regenerate"}
    /\ IF RealMax(n) # concurrency
       THEN /\ concurrency' = RealMax(n)
            /\ tasks' = <<>>
            /\ PauseTasks
            /\ worker' = [w \in Workers |->
                   IF Busy(w) THEN [worker[w] EXCEPT !.detached = TRUE] ELSE Idle]
       ELSE UNCHANGED <<concurrency, tasks, paused, worker>>
    /\ UNCHANGED <<reddit, firehose, metas, queueState, delayBy, owed>>

-----------------------------------------------------------------------------
(* The specification *)

Environment ==
    \/ \E a \in Activities : Edit(a)
    \/ \E a \in Activities, data \in Versions, refresh \in BOOLEAN :
           Ingest(a, data, refresh)

WorkerStep(w) ==
    \/ TakeTask(w)
    \/ EndDelay(w)
    \/ Refresh(w)
    \/ RefreshFails(w)
    \/ Finish(w)

Operation ==
    \/ SetDelay
    \/ StartQueue
    \/ PauseQueue
    \/ PauseQueueDone
    \/ StopQueue
    \/ StopQueueDone
    \/ UpdateConfig
    \/ UpdatePauseDone
    \/ \E n \in ConfigWorkers : Regenerate(n)

Next ==
    \/ Environment
    \/ Firehose
    \/ \E w \in Workers : WorkerStep(w)
    \/ Operation

Spec == Init /\ [][Next]_vars

\* The event loop runs the firehose's worker and, when their awaits settle,
\* the queue's.  resume() and the end of a task hand out tasks in the same
\* call, so that a queue resumed again and again takes a task at last: strong
\* fairness.  Nothing is assumed of the users, of Reddit and of the config.
Fairness ==
    /\ WF_vars(Firehose)
    /\ \A w \in Workers : WF_vars(EndDelay(w))
    /\ \A w \in Workers : WF_vars(Refresh(w) \/ RefreshFails(w))
    /\ \A w \in Workers : WF_vars(Finish(w))
    /\ SF_vars(\E w \in Workers : TakeTask(w))

FairSpec == Spec /\ Fairness

-----------------------------------------------------------------------------
(* Properties *)

\* The worker has begun its task.
Working(w) == Busy(w) /\ worker[w].pc # "delaying"

\* queuedItemsMeta is, element by element, the task being processed and then
\* the queue's waiting tasks: the firehose decides on a faithful picture of the
\* queue, and no task is left without a meta or a meta without a task.
MetasMirrorQueue ==
    LET n == IF \E w \in Workers : Busy(w) THEN 1 ELSE 0
    IN /\ Len(metas) = n + Len(tasks)
       /\ \A i \in 1 .. Len(tasks) :
              metas[n + i].id = tasks[i].id /\ metas[n + i].state = "queued"
       /\ \A w \in Workers : Busy(w) =>
              /\ metas[1].id = worker[w].task.id
              /\ metas[1].state = IF Working(w) THEN "processing" ELSE "queued"
              /\ Working(w) => worker[w].index = 1
       /\ \A v, w \in Workers : Busy(v) /\ Busy(w) => v = w

\* The default manager: the operator allows one worker, and activities are
\* handled within the five seconds that stopping the queue waits for them.
Default == GlobalMaxWorkers \in {0, 1} /\ ~SlowWork

\* Its queue object is never replaced.
OneQueue == concurrency = 1 /\ \A w \in Workers : Busy(w) => ~worker[w].detached

\* The inductive invariant of the default manager.
DefaultInv == TypeOK /\ OneQueue /\ MetasMirrorQueue

\* The tasks no worker has begun, and whether one of them will be handled with
\* data as new as anything the firehose has seen of its activity.
Unstarted == Range(tasks) \cup {worker[w].task : w \in {v \in Workers : Busy(v) /\ ~Working(v)}}

WillBeFresh(task) ==
    \/ task.refresh
    \/ task.data >= owed[task.id]
    \/ \E i \in 1 .. Len(metas) :
           metas[i] = [id |-> task.id, shouldRefresh |-> TRUE, state |-> "queued"]

\* A version that the firehose accepted and nobody has used yet is not lost: a
\* task that will see it waits, or a worker is fetching the newest version now
\* (comment on the firehose: an item is not processed with stale data).
NoneLost ==
    \A a \in Activities : owed[a] > 0 =>
        \/ \E task \in Unstarted : task.id = a /\ WillBeFresh(task)
        \/ \E w \in Workers : /\ Busy(w)
                              /\ worker[w].pc = "refreshing"
                              /\ worker[w].task.id = a

\* With no operation in progress the running state the manager shows is that of
\* the queue: it runs exactly when it is not paused.
StateTellsQueue == waiting = {} => (queueState = "RUNNING" <=> ~paused)

\* Its inductive form: an operation that waits has paused the queue, and one
\* about to replace the queue has left the RUNNING state.
StateInv ==
    \/ waiting = {} /\ (queueState = "RUNNING" <=> ~paused)
    \/ /\ \E op \in {"pause", "stop", "update", "regenerate"} : waiting = {op}
       /\ paused
       /\ "regenerate" \in waiting => queueState # "RUNNING"

\* The queue starts no activity in a manager whose queue is PAUSED or STOPPED.
NoStartUnlessRunning ==
    [][\A w \in Workers : ~Busy(w) /\ Busy(w)' => queueState = "RUNNING"]_vars

\* As long as the queue keeps being started, whatever the firehose accepted is
\* used (or cleared by a stop).
EventuallyUsed ==
    []<>(~paused) => \A a \in Activities : (owed[a] > 0) ~> (owed[a] = 0)
=============================================================================
