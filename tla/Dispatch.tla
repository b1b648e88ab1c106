------------------------------- MODULE Dispatch -------------------------------
(***************************************************************************)
(* The delayed activities of one Manager.                                  *)
(*                                                                         *)
(* A dispatch action, or an activity younger than delayUntil, schedules an *)
(* activity to be handled again later.  It is kept in the database and in  *)
(* memory (resources.delayedItems); every five seconds a timer pushes what *)
(* is due to the firehose and removes it, without waiting for the database *)
(* to answer.  Delayed activities are cancelled by cancel actions, by the  *)
(* firehose when their activity arrives from elsewhere (cancelIfQueued),   *)
(* by a dispatch action that replaces them, and by users.  A restarted     *)
(* application reads them from the database and drops what is too late.    *)
(*                                                                         *)
(* An operation is split at its awaits of the database.  Identifiers of    *)
(* dispatches, which narrow what a cancel or an existing dispatch matches, *)
(* are left out: every item has the same one.                              *)
(***************************************************************************)
EXTENDS Naturals

CONSTANTS
    Ids,          \* ids of delayed activities: each is used once
    Activities,   \* names of activities
    Workers,      \* the queue's workers
    Nothing,      \* a model value
    Dispatches,   \* what the dispatch actions of the config may schedule
    MaxRestarts   \* bound: crashes and restarts of the application

\* The data of an ActivityDispatch; existing is onExistingFound.
Entity == [activity : Activities, existing : {"skip", "replace", "ignore"},
           cancelIfQueued : BOOLEAN, tardyTolerant : {"always", "never", "within"}]

ASSUME ConstAssumption ==
    /\ MaxRestarts \in Nat
    /\ Ids \subseteq Nat
    /\ Workers \cap {"firehose", "user"} = {}
    /\ Dispatches \subseteq Entity
    /\ Nothing \notin Entity

VARIABLES
    entity,    \* entity[i]: the data of delayed activity i while it is stored
    age,       \* how late it is
    db,        \* ids in the database
    memory,    \* ids in delayedItems
    deleting,  \* ids of removals by the timer that the database has not answered
    paused,    \* queue.paused
    job,       \* what the workers, the firehose's worker and a user await
    restarts,  \* restarts so far
    fate,      \* history: how each delayed activity ended
    astray     \* history: ids whose row and copy in memory went separate ways

stores == <<db, memory>>
vars == <<entity, age, stores, deleting, paused, job, restarts, fate, astray>>

Process == Workers \cup {"firehose", "user"}

Job == [pc : {"idle", "removing", "saving", "adding", "clearing", "cleared"},
        ids : SUBSET Ids, add : Entity \cup {Nothing}]

Idle == [pc |-> "idle", ids |-> {}, add |-> Nothing]

TypeOK ==
    /\ entity \in [Ids -> Entity \cup {Nothing}]
    /\ age \in [Ids -> {"waiting", "due", "overdue"}]
    /\ db \subseteq Ids /\ memory \subseteq Ids
    /\ deleting \subseteq Ids
    /\ paused \in BOOLEAN
    /\ job \in [Process -> Job]
    /\ restarts \in 0 .. MaxRestarts
    /\ fate \in [Ids -> {"unused", "scheduled", "dispatched", "cancelled", "dropped"}]
    /\ astray \subseteq Ids

Init ==
    /\ entity = [i \in Ids |-> Nothing]
    /\ age = [i \in Ids |-> "waiting"]
    /\ db = {}
    /\ memory = {}
    /\ deleting = {}
    /\ paused = TRUE
    /\ job = [p \in Process |-> Idle]
    /\ restarts = 0
    /\ fate = [i \in Ids |-> "unused"]
    /\ astray = {}

\* The history once the ids of D end in the given way.
Ended(D, how) ==
    [i \in Ids |-> IF i \in D /\ fate[i] = "scheduled" THEN how ELSE fate[i]]

\* The ids of D are stored nowhere any more.
Forgets(D) ==
    /\ entity' = [i \in Ids |-> IF i \in D THEN Nothing ELSE entity[i]]
    /\ age' = [i \in Ids |-> IF i \in D THEN "waiting" ELSE age[i]]

\* The delayed items of an activity.
Existing(a) == {i \in memory : entity[i].activity = a}

-----------------------------------------------------------------------------
(* Time, and removing *)

Elapse(i) ==
    /\ i \in db /\ age[i] # "overdue"
    /\ age' = [age EXCEPT ![i] = IF @ = "waiting" THEN "due" ELSE "overdue"]
    /\ UNCHANGED <<entity, stores, deleting, paused, job, restarts, fate, astray>>

DueItems == {i \in memory : age[i] # "waiting"}

\* The five-second timer: everything due is pushed, and its removal begins.
Tick ==
    /\ ~paused
    /\ DueItems # {}
    /\ deleting' = deleting \cup DueItems
    /\ fate' = [i \in Ids |-> IF i \in DueItems THEN "dispatched" ELSE fate[i]]
    /\ UNCHANGED <<entity, age, stores, paused, job, restarts, astray>>

\* Mutant: the row is not deleted.
ErasedFromMemory(i) == memory' = memory \ {i} /\ UNCHANGED <<db, entity, age>>

\* Mutant: what is removed is chosen by the activity.
ErasedActivity(i) ==
    /\ db' = {j \in db : entity[j] # entity[i]}
    /\ memory' = {j \in memory : entity[j] # entity[i]}
    /\ Forgets({i})

\* removeDelayedActivity: the row, then the copy in memory.
Erased(i) == db' = db \ {i} /\ memory' = memory \ {i} /\ Forgets({i})

TimerRemoves(i) ==
    /\ i \in deleting
    /\ deleting' = deleting \ {i}
    /\ Erased(i)
    /\ UNCHANGED <<paused, job, restarts, fate, astray>>

\* The database fails: the item stays, and is dispatched again.
TimerFailsToRemove(i) ==
    /\ i \in deleting
    /\ deleting' = deleting \ {i}
    /\ UNCHANGED <<entity, age, stores, paused, job, restarts, fate, astray>>

\* The removals that a worker, the firehose or a user waits for, one by one.
Removes(p) ==
    /\ job[p].pc = "removing"
    /\ \E i \in job[p].ids :
           /\ Erased(i)
           /\ fate' = Ended({i}, "cancelled")
           /\ LET rest == job[p].ids \ {i}
              IN job' = [job EXCEPT ![p] =
                     IF rest # {} THEN [@ EXCEPT !.ids = rest]
                     ELSE IF @.add # Nothing THEN [@ EXCEPT !.pc = "saving", !.ids = {}]
                     ELSE Idle]
    /\ UNCHANGED <<deleting, paused, restarts, astray>>

\* The database fails, and with it the operation.
DatabaseFails(p) ==
    /\ job[p].pc \in {"removing", "saving", "clearing"}
    /\ job' = [job EXCEPT ![p] = Idle]
    /\ UNCHANGED <<entity, age, stores, deleting, paused, restarts, fate, astray>>

-----------------------------------------------------------------------------
(* The firehose *)

\* The firehose's worker, after it has queued an activity from a stream, from a
\* user or from delayUntil (ActivityQueue): it cancels what asks for that.
FirehoseTakes(a) ==
    LET cancel == {i \in Existing(a) : entity[i].cancelIfQueued}
    IN /\ job["firehose"] = Idle
       /\ cancel # {}
       /\ job' = [job EXCEPT !["firehose"] = [Idle EXCEPT !.pc = "removing", !.ids = cancel]]
       /\ UNCHANGED <<entity, age, stores, deleting, paused, restarts, fate, astray>>

-----------------------------------------------------------------------------
(* The queue's workers, running the actions of a check *)

\* A dispatch action, up to its first await.
DispatchAction(w, new) ==
    /\ job[w] = Idle
    /\ ~paused
    /\ LET found == Existing(new.activity)
       IN /\ found # {} => new.existing # "skip"
          /\ job' = [job EXCEPT ![w] =
                 IF new.existing = "replace" /\ found # {}
                 THEN [pc |-> "removing", ids |-> found, add |-> new]
                 ELSE [pc |-> "saving", ids |-> {}, add |-> new]]
    /\ UNCHANGED <<entity, age, stores, deleting, paused, restarts, fate, astray>>

\* Mutant: no tolerance is stored.
YoungNoDefault(a) ==
    [activity |-> a, existing |-> "ignore", cancelIfQueued |-> TRUE,
     tardyTolerant |-> Nothing]

\* The dispatch of an activity younger than delayUntil; the tolerance is the
\* default, five minutes.
Young(a) ==
    [activity |-> a, existing |-> "ignore", cancelIfQueued |-> TRUE,
     tardyTolerant |-> "within"]

\* handleActivity finds that the activity is younger than delayUntil.
DelayUntil(w, a) ==
    /\ job[w] = Idle
    /\ ~paused
    /\ job' = [job EXCEPT ![w] = [pc |-> "saving", ids |-> {}, add |-> Young(a)]]
    /\ UNCHANGED <<entity, age, stores, deleting, paused, restarts, fate, astray>>

\* A cancel action, with this activity or with any as its target.
CancelDispatch(w, ids) ==
    /\ job[w] = Idle
    /\ ~paused
    /\ ids # {}
    /\ job' = [job EXCEPT ![w] = [Idle EXCEPT !.pc = "removing", !.ids = ids]]
    /\ UNCHANGED <<entity, age, stores, deleting, paused, restarts, fate, astray>>

\* Ids are given in order.
IsNext(i) == fate[i] = "unused" /\ \A j \in Ids : fate[j] = "unused" => i <= j

\* addDelayedActivity: the row is saved, and then the item added in memory.
Saves(w) ==
    /\ job[w].pc = "saving"
    /\ \E i \in Ids :
           /\ IsNext(i)
           /\ entity' = [entity EXCEPT ![i] = job[w].add]
           /\ db' = db \cup {i}
           /\ fate' = [fate EXCEPT ![i] = "scheduled"]
           /\ job' = [job EXCEPT ![w] = [Idle EXCEPT !.pc = "adding", !.ids = {i}]]
    /\ UNCHANGED <<age, memory, deleting, paused, restarts, astray>>

Adds(w) ==
    /\ job[w].pc = "adding"
    /\ memory' = memory \cup job[w].ids
    /\ job' = [job EXCEPT ![w] = Idle]
    /\ UNCHANGED <<entity, age, db, deleting, paused, restarts, fate, astray>>

-----------------------------------------------------------------------------
(* Users *)

UserCancels(i) ==
    /\ job["user"] = Idle
    /\ i \in memory
    /\ job' = [job EXCEPT !["user"] = [Idle EXCEPT !.pc = "removing", !.ids = {i}]]
    /\ UNCHANGED <<entity, age, stores, deleting, paused, restarts, fate, astray>>

UserCancelsAll ==
    /\ job["user"] = Idle
    /\ memory # {}
    /\ job' = [job EXCEPT !["user"] = [Idle EXCEPT !.pc = "clearing"]]
    /\ UNCHANGED <<entity, age, stores, deleting, paused, restarts, fate, astray>>

\* The rows go first; what is added before delayedItems is emptied is then in
\* the database only, and what is being added is then in memory only.
ClearsDatabase ==
    /\ job["user"].pc = "clearing"
    /\ job' = [job EXCEPT !["user"].pc = "cleared"]
    /\ db' = {}
    /\ astray' = astray \cup db
    /\ UNCHANGED <<entity, age, memory, deleting, paused, restarts, fate>>

ClearsMemory ==
    /\ job["user"].pc = "cleared"
    /\ job' = [job EXCEPT !["user"] = Idle]
    /\ memory' = {}
    /\ Forgets(memory \ db)
    /\ fate' = Ended(memory \ db, "cancelled")
    /\ astray' = astray \cup memory
    /\ UNCHANGED <<db, deleting, paused, restarts>>

PauseOrResume ==
    /\ paused' = ~paused
    /\ UNCHANGED <<entity, age, stores, deleting, job, restarts, fate, astray>>

-----------------------------------------------------------------------------
(* Reading the database *)

\* Mutant: the tolerance is not looked at.
LateIfDue(i) == age[i] # "waiting"

\* An item that is too late to be dispatched after a restart.
TooLate(i) ==
    CASE entity[i].tardyTolerant = "always" -> FALSE
      [] entity[i].tardyTolerant = "never"  -> age[i] # "waiting"
      [] entity[i].tardyTolerant = "within" -> age[i] = "overdue"

\* initDatabaseDelayedActivities, unless memory holds an item; the activities
\* of failing cannot be rebuilt, and stay in the database only.
Load ==
    LET late == {i \in db : TooLate(i)}
    IN \E failing \in SUBSET (db \ late) :
           /\ db' = db \ late
           /\ memory' = db' \ failing
           /\ Forgets(Ids \ db')
           /\ fate' = Ended(late, "dropped")
           /\ astray' = astray \cup failing

\* The application ends between two steps and starts again.
Restart ==
    /\ restarts < MaxRestarts
    /\ restarts' = restarts + 1
    /\ Load
    /\ deleting' = {}
    /\ paused' = TRUE
    /\ job' = [p \in Process |-> Idle]

\* A config update, which has paused the queue, reads the database again.
Reconfigure ==
    /\ paused
    /\ memory = {} /\ db # {}
    /\ \A w \in Workers : job[w] = Idle
    /\ Load
    /\ UNCHANGED <<deleting, paused, job, restarts>>

-----------------------------------------------------------------------------
(* The specification *)

Action(w) ==
    \/ \E new \in Dispatches : DispatchAction(w, new)
    \/ \E a \in Activities : DelayUntil(w, a) \/ CancelDispatch(w, Existing(a))
    \/ CancelDispatch(w, memory)
    \/ Saves(w)
    \/ Adds(w)

User ==
    \/ \E i \in Ids : UserCancels(i)
    \/ UserCancelsAll
    \/ ClearsDatabase
    \/ ClearsMemory
    \/ PauseOrResume

Next ==
    \/ Tick
    \/ \E i \in Ids : Elapse(i) \/ TimerRemoves(i) \/ TimerFailsToRemove(i)
    \/ \E a \in Activities : FirehoseTakes(a)
    \/ \E w \in Workers : Action(w)
    \/ \E p \in Process : Removes(p) \/ DatabaseFails(p)
    \/ User
    \/ Restart
    \/ Reconfigure

Spec == Init /\ [][Next]_vars

\* Time passes, the timer fires again and again, and a database that is asked
\* again and again answers at last.
Fairness ==
    /\ WF_vars(Tick)
    /\ \A i \in Ids : WF_vars(Elapse(i)) /\ SF_vars(TimerRemoves(i))
    /\ \A w \in Workers : WF_vars(Adds(w))

FairSpec == Spec /\ Fairness

-----------------------------------------------------------------------------
(* Properties *)

\* The detailed specification keeps the promise of a delayed activity, across
\* cancels in flight, a slow or failing database and restarts.
Promise == INSTANCE DelayedActivity
    WITH status <- fate,
         ripe <- {i \in Ids : age[i] # "waiting"},
         late <- {i \in Ids : \/ age[i] = "overdue" /\ entity[i].tardyTolerant # "always"
                              \/ age[i] = "due" /\ entity[i].tardyTolerant = "never"}

KeepsPromise == Promise!Spec

\* Whatever may still be dispatched from memory would survive a crash, unless
\* its row went with those a user cancelled all at once.
MemoryBacked == memory \ db \subseteq astray

\* A scheduled activity is never forgotten: it has a row, which only a dispatch,
\* a cancel or a drop removes.
ScheduledIsSaved == \A i \in Ids \ astray : fate[i] = "scheduled" => i \in db

\* With one worker an activity has at most one delayed item if every dispatch
\* of it skips or replaces those that exist (onExistingFound).
OneScheduled ==
    \A i, j \in memory \ astray :
        entity[i].activity = entity[j].activity /\ i # j
            => "ignore" \in {entity[i].existing, entity[j].existing}

\* The table and the list in memory tell the same: nothing scheduled would be
\* lost in a crash, and nothing is scheduled against what a dispatch asked for.
MemoryAndTable == MemoryBacked /\ ScheduledIsSaved /\ OneScheduled

\* What is in the database leaves it at last, dispatched, cancelled or dropped,
\* once the queue is left to run; only what went astray may stay for ever.
EventuallySettled ==
    <>[](~paused) => \A i \in Ids : (i \in db) ~> (i \notin db \/ i \in astray)
=============================================================================
