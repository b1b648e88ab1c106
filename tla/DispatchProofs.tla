---------------------------- MODULE DispatchProofs ----------------------------
(***************************************************************************)
(* What Dispatch promises for any number of delayed activities, dispatch   *)
(* actions and restarts: the table and the list in memory tell the same,   *)
(* and the promise of a delayed activity (DelayedActivity) is kept.        *)
(***************************************************************************)
EXTENDS Dispatch, TLAPS

-----------------------------------------------------------------------------
(* The inductive invariant *)

\* What is stored has its data, and is neither cancelled nor dropped.
StoredIsAlive ==
    \A i \in db \cup memory : entity[i] # Nothing /\ fate[i] \in {"scheduled", "dispatched"}

\* Nothing waits for the removal of an item that the timer did not push.
DeletingIsPushed == \A i \in deleting : fate[i] = "dispatched"

\* No one holds an id that was not given yet.
HeldIsGiven == \A p \in Process : \A i \in job[p].ids : fate[i] # "unused"

\* What a job saves is the data of a dispatch.
SavesEntity == \A p \in Process : job[p].pc = "saving" => job[p].add # Nothing

\* An item between its row and its copy in memory is known to its worker only.
AddingIsOwn ==
    \A p \in Process : job[p].pc = "adding" =>
        \A i \in job[p].ids :
            /\ fate[i] = "scheduled" /\ entity[i] # Nothing
            /\ i \notin memory /\ i \in db \cup astray
            /\ \A q \in Process \ {p} : i \notin job[q].ids

\* Only workers save and add.
WorkersSave == \A p \in Process \ Workers : job[p].add = Nothing /\ job[p].pc \notin {"saving", "adding"}

StoresInv ==
    /\ TypeOK /\ WorkersSave /\ StoredIsAlive /\ DeletingIsPushed /\ HeldIsGiven /\ SavesEntity
    /\ AddingIsOwn /\ MemoryBacked /\ ScheduledIsSaved

-----------------------------------------------------------------------------
(* Type correctness *)

LEMMA InitTypes == Init => TypeOK
  BY ConstAssumption DEF Init, TypeOK, Idle, Job

LEMMA EndedTypes ==
    ASSUME TypeOK, NEW D, NEW how \in {"cancelled", "dropped"}
    PROVE  Ended(D, how) \in [Ids -> {"unused", "scheduled", "dispatched", "cancelled", "dropped"}]
  BY DEF TypeOK, Ended

LEMMA ForgetsTypes ==
    ASSUME TypeOK, NEW D, Forgets(D)
    PROVE  /\ entity' \in [Ids -> Entity \cup {Nothing}]
           /\ age' \in [Ids -> {"waiting", "due", "overdue"}]
  BY DEF TypeOK, Forgets

LEMMA LoadTypes ==
    ASSUME TypeOK, Load
    PROVE  /\ entity' \in [Ids -> Entity \cup {Nothing}]
           /\ age' \in [Ids -> {"waiting", "due", "overdue"}]
           /\ fate' \in [Ids -> {"unused", "scheduled", "dispatched", "cancelled", "dropped"}]
           /\ db' \subseteq Ids /\ memory' \subseteq Ids /\ astray' \subseteq Ids
<1> DEFINE lates == {i \in db : TooLate(i)}
<1>1. PICK failing \in SUBSET (db \ lates) :
          /\ db' = db \ lates
          /\ memory' = db' \ failing
          /\ Forgets(Ids \ db')
          /\ fate' = Ended(lates, "dropped")
          /\ astray' = astray \cup failing
  BY DEF Load
<1>2. db' \subseteq Ids /\ memory' \subseteq Ids /\ astray' \subseteq Ids
  BY <1>1 DEF TypeOK
<1> HIDE DEF lates
<1>3. fate' \in [Ids -> {"unused", "scheduled", "dispatched", "cancelled", "dropped"}]
  BY <1>1, EndedTypes
<1> QED
  BY <1>1, <1>2, <1>3, ForgetsTypes

LEMMA StepTypes == TypeOK /\ [Next]_vars => TypeOK'
<1> SUFFICES ASSUME TypeOK, [Next]_vars PROVE TypeOK'
  OBVIOUS
<1> USE DEF TypeOK
<1>1. CASE Tick
  BY <1>1 DEF Tick, DueItems, stores
<1>2. ASSUME NEW i \in Ids, Elapse(i) PROVE TypeOK'
  BY <1>2 DEF Elapse, stores
<1>3. ASSUME NEW i \in Ids, TimerRemoves(i) PROVE TypeOK'
  BY <1>3, ForgetsTypes DEF TimerRemoves, Erased
<1>4. ASSUME NEW i \in Ids, TimerFailsToRemove(i) PROVE TypeOK'
  BY <1>4 DEF TimerFailsToRemove, stores
<1>5. ASSUME NEW a \in Activities, FirehoseTakes(a) PROVE TypeOK'
  BY <1>5 DEF FirehoseTakes, stores, Existing, Idle, Job
<1>6. ASSUME NEW w \in Workers, Action(w) PROVE TypeOK'
  <2>1. ASSUME NEW new \in Dispatches, DispatchAction(w, new) PROVE TypeOK'
    <3>1. new \in Entity
      BY ConstAssumption
    <3>2. Existing(new.activity) \subseteq Ids /\ w \in Process
      BY DEF Existing, Process
    <3>3. job' \in [Process -> Job]
      BY <2>1, <3>1, <3>2 DEF DispatchAction, Job
    <3> QED
      BY <2>1, <3>3 DEF DispatchAction, stores
  <2>2. ASSUME NEW a \in Activities, DelayUntil(w, a) PROVE TypeOK'
    <3>1. Young(a) \in Entity /\ w \in Process
      BY DEF Young, Entity, Process
    <3>2. job' \in [Process -> Job]
      BY <2>2, <3>1 DEF DelayUntil, Job
    <3> QED
      BY <2>2, <3>2 DEF DelayUntil, stores
  <2>3. ASSUME NEW ids \in SUBSET memory, CancelDispatch(w, ids) PROVE TypeOK'
    BY <2>3 DEF CancelDispatch, stores, Idle, Job, Process
  <2>4. CASE Saves(w)
    <3>1. PICK i \in Ids :
              /\ entity' = [entity EXCEPT ![i] = job[w].add]
              /\ db' = db \cup {i}
              /\ fate' = [fate EXCEPT ![i] = "scheduled"]
              /\ job' = [job EXCEPT ![w] = [Idle EXCEPT !.pc = "adding", !.ids = {i}]]
      BY <2>4 DEF Saves
    <3>2. w \in Process /\ job[w] \in Job
      BY DEF Process
    <3>3. job' \in [Process -> Job]
      BY <3>1, <3>2 DEF Idle, Job
    <3>4. entity' \in [Ids -> Entity \cup {Nothing}]
      BY <3>1, <3>2 DEF Job
    <3> QED
      BY <2>4, <3>1, <3>3, <3>4 DEF Saves
  <2>5. CASE Adds(w)
    BY <2>5 DEF Adds, Idle, Job, Process
  <2> QED
    BY <1>6, <2>1, <2>2, <2>3, <2>4, <2>5 DEF Action, Existing
<1>7. ASSUME NEW p \in Process, Removes(p) PROVE TypeOK'
  <2>1. PICK i \in job[p].ids :
            /\ Erased(i)
            /\ fate' = Ended({i}, "cancelled")
            /\ job' = [job EXCEPT ![p] =
                   IF job[p].ids \ {i} # {} THEN [@ EXCEPT !.ids = job[p].ids \ {i}]
                   ELSE IF @.add # Nothing THEN [@ EXCEPT !.pc = "saving", !.ids = {}]
                   ELSE Idle]
    BY <1>7 DEF Removes
  <2>2. job' \in [Process -> Job]
    <3>1. [job[p] EXCEPT !.ids = job[p].ids \ {i}] \in Job
      BY DEF Job
    <3>2. [job[p] EXCEPT !.pc = "saving", !.ids = {}] \in Job
      BY DEF Job
    <3>3. Idle \in Job
      BY DEF Idle, Job
    <3> QED
      BY <2>1, <3>1, <3>2, <3>3
  <2> QED
    BY <1>7, <2>1, <2>2, ForgetsTypes, EndedTypes DEF Removes, Erased
<1>8. ASSUME NEW p \in Process, DatabaseFails(p) PROVE TypeOK'
  BY <1>8 DEF DatabaseFails, stores, Idle, Job
<1>9. CASE User
  <2>1. ASSUME NEW i \in Ids, UserCancels(i) PROVE TypeOK'
    BY <2>1 DEF UserCancels, stores, Idle, Job
  <2>2. CASE UserCancelsAll
    BY <2>2 DEF UserCancelsAll, stores, Idle, Job
  <2>3. CASE ClearsDatabase
    BY <2>3 DEF ClearsDatabase, Job
  <2>4. CASE ClearsMemory
    BY <2>4, ForgetsTypes, EndedTypes DEF ClearsMemory, Idle, Job
  <2>5. CASE PauseOrResume
    BY <2>5 DEF PauseOrResume, stores
  <2> QED
    BY <1>9, <2>1, <2>2, <2>3, <2>4, <2>5 DEF User
<1>10. CASE Restart
  BY <1>10, LoadTypes, ConstAssumption DEF Restart, Idle, Job
<1>11. CASE Reconfigure
  BY <1>11, LoadTypes DEF Reconfigure
<1>12. CASE UNCHANGED vars
  BY <1>12 DEF vars, stores
<1> QED
  BY <1>1, <1>2, <1>3, <1>4, <1>5, <1>6, <1>7, <1>8, <1>9, <1>10, <1>11, <1>12 DEF Next

\* Delayed activities, their rows and jobs are what they are said to be.
THEOREM TypesCorrect == Spec => []TypeOK
  BY InitTypes, StepTypes, PTL DEF Spec

-----------------------------------------------------------------------------
(* The stores *)

LEMMA InitStores == Init => StoresInv
  BY InitTypes DEF Init, StoresInv, StoredIsAlive, DeletingIsPushed, HeldIsGiven, SavesEntity, AddingIsOwn,
                   WorkersSave, MemoryBacked, ScheduledIsSaved, Idle

\* Who begins or ends a job holds ids from memory, and adds nothing yet.
BeginsOrEnds(p) ==
    /\ job'[p].ids \subseteq memory \cup job[p].ids
    /\ job'[p].pc # "adding"
    /\ job'[p].pc = "saving" => job'[p].add # Nothing
    /\ p \notin Workers => job'[p].add = Nothing

JobsMove == \A p \in Process : job'[p] = job[p] \/ BeginsOrEnds(p)

\* Steps that change jobs only.
LEMMA JobsStep ==
    ASSUME StoresInv, TypeOK', UNCHANGED <<entity, stores, fate, astray>>, deleting' \subseteq deleting, JobsMove
    PROVE  StoresInv'
<1> USE DEF StoresInv, TypeOK, stores
<1>1. StoredIsAlive' /\ DeletingIsPushed' /\ MemoryBacked' /\ ScheduledIsSaved'
  BY DEF StoredIsAlive, DeletingIsPushed, MemoryBacked, ScheduledIsSaved
<1>2. HeldIsGiven'
  BY DEF HeldIsGiven, StoredIsAlive, JobsMove, BeginsOrEnds
<1>3. SavesEntity' /\ WorkersSave'
  BY DEF SavesEntity, WorkersSave, JobsMove, BeginsOrEnds
<1>4. AddingIsOwn'
  BY DEF AddingIsOwn, JobsMove, BeginsOrEnds
<1> QED
  BY <1>1, <1>2, <1>3, <1>4

\* An item is erased whose fate is known.
LEMMA EraseStep ==
    ASSUME StoresInv, TypeOK', NEW i \in Ids, Erased(i), UNCHANGED astray, deleting' \subseteq deleting, JobsMove,
           \A p \in Process : job[p].pc = "adding" => i \notin job[p].ids,
           \A j \in Ids \ {i} : fate'[j] = fate[j],
           fate[i] # "unused",
           fate'[i] = IF fate[i] = "scheduled" THEN "cancelled" ELSE fate[i]
    PROVE  StoresInv'
<1> USE DEF StoresInv, TypeOK
<1>1. \A j \in Ids \ {i} : entity'[j] = entity[j]
  BY DEF Erased, Forgets
<1>2. StoredIsAlive'
  BY <1>1 DEF StoredIsAlive, Erased
<1>3. DeletingIsPushed' /\ MemoryBacked' /\ ScheduledIsSaved'
  BY DEF DeletingIsPushed, MemoryBacked, ScheduledIsSaved, Erased
<1>4. HeldIsGiven'
  <2> SUFFICES ASSUME NEW p \in Process, NEW j \in job'[p].ids PROVE fate'[j] # "unused"
    BY DEF HeldIsGiven
  <2>1. j \in memory \cup job[p].ids
    BY DEF JobsMove, BeginsOrEnds
  <2>2. j \in Ids /\ fate[j] # "unused"
    BY <2>1 DEF HeldIsGiven, StoredIsAlive, Job
  <2> QED
    BY <2>2
<1>5. SavesEntity' /\ WorkersSave'
  BY DEF SavesEntity, WorkersSave, JobsMove, BeginsOrEnds
<1>6. AddingIsOwn'
  <2> SUFFICES ASSUME NEW p \in Process, job'[p].pc = "adding", NEW j \in job'[p].ids
               PROVE  /\ fate'[j] = "scheduled" /\ entity'[j] # Nothing
                      /\ j \notin memory' /\ j \in db' \cup astray'
                      /\ \A q \in Process \ {p} : j \notin job'[q].ids
    BY DEF AddingIsOwn
  <2>1. job'[p] = job[p] /\ j # i /\ j \in Ids
    BY DEF JobsMove, BeginsOrEnds, Job
  <2> QED
    BY <1>1, <2>1 DEF AddingIsOwn, JobsMove, BeginsOrEnds, Erased
<1> QED
  BY <1>2, <1>3, <1>4, <1>5, <1>6

\* The database is read when no worker is at work.
LEMMA LoadStep ==
    ASSUME StoresInv, TypeOK', Load, deleting' \subseteq deleting, JobsMove,
           \A p \in Process : job'[p].pc # "adding" /\ job'[p].ids \subseteq job[p].ids
    PROVE  StoresInv'
<1> USE DEF StoresInv, TypeOK
<1> DEFINE lates == {i \in db : TooLate(i)}
<1>1. PICK failing \in SUBSET (db \ lates) :
          /\ db' = db \ lates
          /\ memory' = db' \ failing
          /\ Forgets(Ids \ db')
          /\ fate' = Ended(lates, "dropped")
          /\ astray' = astray \cup failing
  BY DEF Load
<1> HIDE DEF lates
<1>2. \A i \in db' : entity'[i] = entity[i] /\ fate'[i] = fate[i] /\ i \in db
  BY <1>1 DEF Forgets, Ended
<1>3. \A i \in Ids : /\ fate[i] = "dispatched" => fate'[i] = "dispatched"
                     /\ fate[i] # "unused" => fate'[i] # "unused"
                     /\ fate'[i] = "scheduled" => fate[i] = "scheduled" /\ i \notin lates
  BY <1>1 DEF Ended
<1>4. StoredIsAlive'
  BY <1>1, <1>2 DEF StoredIsAlive
<1>5. DeletingIsPushed'
  BY <1>3 DEF DeletingIsPushed
<1>6. HeldIsGiven'
  BY <1>3 DEF HeldIsGiven, Job
<1>7. MemoryBacked' /\ ScheduledIsSaved'
  BY <1>1, <1>3 DEF MemoryBacked, ScheduledIsSaved
<1>8. SavesEntity' /\ WorkersSave' /\ AddingIsOwn'
  BY DEF SavesEntity, WorkersSave, AddingIsOwn, JobsMove, BeginsOrEnds
<1> QED
  BY <1>4, <1>5, <1>6, <1>7, <1>8

LEMMA StepStores == StoresInv /\ [Next]_vars => StoresInv'
<1> SUFFICES ASSUME StoresInv, [Next]_vars PROVE StoresInv'
  OBVIOUS
<1>0. TypeOK /\ TypeOK'
  BY StepTypes DEF StoresInv
<1> USE <1>0 DEF TypeOK
<1>1. CASE Tick
  <2>1. UNCHANGED <<entity, db, memory, job, astray>> /\ deleting' = deleting \cup DueItems /\ DueItems \subseteq memory
    BY <1>1 DEF Tick, stores, DueItems
  <2>2. \A i \in Ids : fate'[i] = IF i \in DueItems THEN "dispatched" ELSE fate[i]
    BY <1>1 DEF Tick
  <2> USE DEF StoresInv
  <2>3. StoredIsAlive' /\ DeletingIsPushed' /\ MemoryBacked' /\ ScheduledIsSaved' /\ SavesEntity' /\ WorkersSave'
    BY <2>1, <2>2 DEF StoredIsAlive, DeletingIsPushed, MemoryBacked, ScheduledIsSaved, SavesEntity, WorkersSave
  <2>4. HeldIsGiven'
    BY <2>1, <2>2 DEF HeldIsGiven, Job
  <2>5. AddingIsOwn'
    BY <2>1, <2>2 DEF AddingIsOwn, Job
  <2> QED
    BY <2>3, <2>4, <2>5
<1>2. ASSUME NEW i \in Ids, Elapse(i) PROVE StoresInv'
  BY <1>2, JobsStep DEF Elapse, JobsMove
<1>3. ASSUME NEW i \in Ids, TimerRemoves(i) PROVE StoresInv'
  <2>1. fate[i] = "dispatched"
    BY <1>3 DEF TimerRemoves, StoresInv, DeletingIsPushed
  <2>2. \A p \in Process : job[p].pc = "adding" => i \notin job[p].ids
    BY <2>1 DEF StoresInv, AddingIsOwn
  <2> QED
    BY <1>3, <2>1, <2>2, EraseStep DEF TimerRemoves, JobsMove
<1>4. ASSUME NEW i \in Ids, TimerFailsToRemove(i) PROVE StoresInv'
  BY <1>4, JobsStep DEF TimerFailsToRemove, JobsMove
<1>5. ASSUME NEW a \in Activities, FirehoseTakes(a) PROVE StoresInv'
  <2>1. JobsMove
    BY <1>5 DEF FirehoseTakes, Existing, Idle, JobsMove, BeginsOrEnds
  <2> QED
    BY <1>5, <2>1, JobsStep DEF FirehoseTakes
<1>6. ASSUME NEW w \in Workers, Action(w) PROVE StoresInv'
  <2>0. w \in Process
    BY DEF Process
  <2>1. ASSUME NEW new \in Dispatches, DispatchAction(w, new) PROVE StoresInv'
    <3>1. new # Nothing
      BY ConstAssumption
    <3>2. JobsMove
      BY <2>0, <2>1, <3>1 DEF DispatchAction, Existing, Idle, JobsMove, BeginsOrEnds
    <3> QED
      BY <2>1, <3>2, JobsStep DEF DispatchAction
  <2>2. ASSUME NEW a \in Activities, DelayUntil(w, a) PROVE StoresInv'
    <3>1. Young(a) # Nothing
      <4>1. Young(a) \in Entity
        BY DEF Young, Entity
      <4> QED
        BY <4>1, ConstAssumption
    <3>2. JobsMove
      BY <2>0, <2>2, <3>1 DEF DelayUntil, Idle, JobsMove, BeginsOrEnds
    <3> QED
      BY <2>2, <3>2, JobsStep DEF DelayUntil
  <2>3. ASSUME NEW ids \in SUBSET memory, CancelDispatch(w, ids) PROVE StoresInv'
    <3>1. JobsMove
      BY <2>0, <2>3 DEF CancelDispatch, Idle, JobsMove, BeginsOrEnds
    <3> QED
      BY <2>3, <3>1, JobsStep DEF CancelDispatch
  <2>4. CASE Saves(w)
    <3>1. PICK i \in Ids :
              /\ IsNext(i)
              /\ entity' = [entity EXCEPT ![i] = job[w].add]
              /\ db' = db \cup {i}
              /\ fate' = [fate EXCEPT ![i] = "scheduled"]
              /\ job' = [job EXCEPT ![w] = [Idle EXCEPT !.pc = "adding", !.ids = {i}]]
      BY <2>4 DEF Saves
    <3>2. fate[i] = "unused" /\ job[w].pc = "saving" /\ UNCHANGED <<memory, deleting, astray>>
      BY <2>4, <3>1 DEF Saves, IsNext
    <3>3. job'[w].pc = "adding" /\ job'[w].ids = {i} /\ \A p \in Process \ {w} : job'[p] = job[p]
      BY <2>0, <3>1 DEF Idle
    <3>4. /\ fate'[i] = "scheduled" /\ \A j \in Ids \ {i} : fate'[j] = fate[j]
          /\ entity'[i] = job[w].add /\ \A j \in Ids \ {i} : entity'[j] = entity[j]
      BY <3>1
    <3>5. /\ i \notin db \cup memory /\ i \notin deleting /\ job[w].add # Nothing
          /\ \A p \in Process : i \notin job[p].ids
      BY <2>0, <3>2 DEF StoresInv, StoredIsAlive, DeletingIsPushed, SavesEntity, HeldIsGiven
    <3> USE DEF StoresInv
    <3>6. StoredIsAlive' /\ DeletingIsPushed' /\ MemoryBacked' /\ ScheduledIsSaved'
      BY <3>1, <3>2, <3>4, <3>5 DEF StoredIsAlive, DeletingIsPushed, MemoryBacked, ScheduledIsSaved
    <3>7. HeldIsGiven'
      BY <3>3, <3>4 DEF HeldIsGiven, Job
    <3>10. SavesEntity' /\ WorkersSave'
      BY <2>0, <3>3 DEF SavesEntity, WorkersSave
    <3>8. AddingIsOwn'
      BY <3>1, <3>2, <3>3, <3>4, <3>5 DEF AddingIsOwn, Job
    <3> QED
      BY <3>6, <3>7, <3>8, <3>10
  <2>5. CASE Adds(w)
    <3>1. /\ job[w].pc = "adding" /\ memory' = memory \cup job[w].ids
          /\ UNCHANGED <<entity, db, deleting, fate, astray>>
      BY <2>5 DEF Adds
    <3>2. job'[w] = Idle /\ \A p \in Process \ {w} : job'[p] = job[p]
      BY <2>0, <2>5 DEF Adds
    <3>3. \A i \in job[w].ids : /\ fate[i] = "scheduled" /\ entity[i] # Nothing /\ i \in db \cup astray
                                /\ \A q \in Process \ {w} : i \notin job[q].ids
      BY <2>0, <3>1 DEF StoresInv, AddingIsOwn
    <3> USE DEF StoresInv
    <3>4. StoredIsAlive' /\ DeletingIsPushed' /\ MemoryBacked' /\ ScheduledIsSaved'
      BY <3>1, <3>3 DEF StoredIsAlive, DeletingIsPushed, MemoryBacked, ScheduledIsSaved
    <3>5. HeldIsGiven' /\ SavesEntity' /\ WorkersSave'
      BY <3>1, <3>2 DEF HeldIsGiven, SavesEntity, WorkersSave, Idle
    <3>6. AddingIsOwn'
      BY <3>1, <3>2, <3>3 DEF AddingIsOwn, Idle
    <3> QED
      BY <3>4, <3>5, <3>6
  <2> QED
    BY <1>6, <2>1, <2>2, <2>3, <2>4, <2>5 DEF Action, Existing
<1>7. ASSUME NEW p \in Process, Removes(p) PROVE StoresInv'
  <2>1. PICK i \in job[p].ids :
            /\ Erased(i)
            /\ fate' = Ended({i}, "cancelled")
            /\ job' = [job EXCEPT ![p] =
                   IF job[p].ids \ {i} # {} THEN [@ EXCEPT !.ids = job[p].ids \ {i}]
                   ELSE IF @.add # Nothing THEN [@ EXCEPT !.pc = "saving", !.ids = {}]
                   ELSE Idle]
    BY <1>7 DEF Removes
  <2>2. i \in Ids /\ job[p].pc = "removing" /\ UNCHANGED <<deleting, astray>>
    BY <1>7 DEF Removes, Job
  <2>3. fate[i] # "unused" /\ \A q \in Process : job[q].pc = "adding" => i \notin job[q].ids
    BY <2>2 DEF StoresInv, HeldIsGiven, AddingIsOwn
  <2>4. /\ \A j \in Ids \ {i} : fate'[j] = fate[j]
        /\ fate'[i] = IF fate[i] = "scheduled" THEN "cancelled" ELSE fate[i]
    BY <2>1, <2>2 DEF Ended
  <2>5. JobsMove
    <3>1. \A q \in Process \ {p} : job'[q] = job[q]
      BY <2>1
    <3>2. job[p] \in Job /\ (p \notin Workers => job[p].add = Nothing)
      BY DEF StoresInv, WorkersSave
    <3>3. CASE job[p].ids \ {i} # {}
      <4>1. job'[p] = [job[p] EXCEPT !.ids = job[p].ids \ {i}]
        BY <2>1, <3>3
      <4>2. job'[p].pc = "removing" /\ job'[p].ids = job[p].ids \ {i} /\ job'[p].add = job[p].add
        BY <2>2, <3>2, <4>1 DEF Job
      <4> QED
        BY <3>1, <3>2, <4>2 DEF JobsMove, BeginsOrEnds
    <3>4. CASE job[p].ids \ {i} = {} /\ job[p].add # Nothing
      <4>1. job'[p] = [job[p] EXCEPT !.pc = "saving", !.ids = {}]
        BY <2>1, <3>4
      <4>2. job'[p].pc = "saving" /\ job'[p].ids = {} /\ job'[p].add = job[p].add
        BY <3>2, <4>1 DEF Job
      <4> QED
        BY <3>1, <3>2, <3>4, <4>2 DEF JobsMove, BeginsOrEnds
    <3>5. CASE job[p].ids \ {i} = {} /\ job[p].add = Nothing
      BY <2>1, <3>1, <3>5 DEF JobsMove, BeginsOrEnds, Idle
    <3> QED
      BY <3>3, <3>4, <3>5
  <2> QED
    BY <2>1, <2>2, <2>3, <2>4, <2>5, EraseStep
<1>8. ASSUME NEW p \in Process, DatabaseFails(p) PROVE StoresInv'
  <2>1. JobsMove
    BY <1>8 DEF DatabaseFails, Idle, JobsMove, BeginsOrEnds
  <2> QED
    BY <1>8, <2>1, JobsStep DEF DatabaseFails
<1>9. CASE User
  <2>1. ASSUME NEW i \in Ids, UserCancels(i) PROVE StoresInv'
    <3>1. JobsMove
      BY <2>1 DEF UserCancels, Idle, JobsMove, BeginsOrEnds
    <3> QED
      BY <2>1, <3>1, JobsStep DEF UserCancels
  <2>2. CASE UserCancelsAll
    <3>1. JobsMove
      BY <2>2 DEF UserCancelsAll, Idle, JobsMove, BeginsOrEnds
    <3> QED
      BY <2>2, <3>1, JobsStep DEF UserCancelsAll
  <2>3. CASE ClearsDatabase
    <3>1. /\ db' = {} /\ astray' = astray \cup db /\ UNCHANGED <<entity, memory, deleting, fate>>
          /\ job["user"].pc = "clearing" /\ job' = [job EXCEPT !["user"].pc = "cleared"] /\ "user" \in Process
      BY <2>3 DEF ClearsDatabase, Process
    <3>2. /\ job'["user"].pc = "cleared" /\ job'["user"].ids = job["user"].ids
          /\ \A p \in Process \ {"user"} : job'[p] = job[p]
      BY <3>1 DEF Job
    <3> USE DEF StoresInv
    <3>3. StoredIsAlive' /\ DeletingIsPushed' /\ MemoryBacked' /\ ScheduledIsSaved'
      BY <3>1 DEF StoredIsAlive, DeletingIsPushed, MemoryBacked, ScheduledIsSaved
    <3>4. HeldIsGiven' /\ SavesEntity' /\ WorkersSave'
      BY <3>1, <3>2 DEF HeldIsGiven, SavesEntity, WorkersSave
    <3>5. AddingIsOwn'
      BY <3>1, <3>2 DEF AddingIsOwn
    <3> QED
      BY <3>3, <3>4, <3>5
  <2>4. CASE ClearsMemory
    <3> DEFINE gone == memory \ db
    <3>1. /\ memory' = {} /\ astray' = astray \cup memory /\ UNCHANGED <<db, deleting>>
          /\ job["user"].pc = "cleared" /\ job' = [job EXCEPT !["user"] = Idle] /\ "user" \in Process
      BY <2>4 DEF ClearsMemory, Process
    <3>2. /\ job'["user"] = Idle /\ \A p \in Process \ {"user"} : job'[p] = job[p]
      BY <3>1
    <3>3. \A i \in Ids : i \notin gone => entity'[i] = entity[i] /\ fate'[i] = fate[i]
      BY <2>4 DEF ClearsMemory, Forgets, Ended
    <3>4. \A i \in Ids : /\ fate[i] = "dispatched" => fate'[i] = "dispatched"
                         /\ fate[i] # "unused" => fate'[i] # "unused"
                         /\ fate'[i] = "scheduled" => fate[i] = "scheduled"
      BY <2>4 DEF ClearsMemory, Ended
    <3> USE DEF StoresInv
    <3>5. StoredIsAlive' /\ DeletingIsPushed' /\ MemoryBacked' /\ ScheduledIsSaved'
      BY <3>1, <3>3, <3>4 DEF StoredIsAlive, DeletingIsPushed, MemoryBacked, ScheduledIsSaved
    <3>6. HeldIsGiven' /\ SavesEntity' /\ WorkersSave'
      BY <3>2, <3>4 DEF HeldIsGiven, SavesEntity, WorkersSave, Idle, Job
    <3>7. AddingIsOwn'
      BY <3>1, <3>2, <3>3 DEF AddingIsOwn, Idle, Job
    <3> QED
      BY <3>5, <3>6, <3>7
  <2>5. CASE PauseOrResume
    BY <2>5, JobsStep DEF PauseOrResume, JobsMove
  <2> QED
    BY <1>9, <2>1, <2>2, <2>3, <2>4, <2>5 DEF User
<1>10. CASE Restart
  <2>1. Load /\ deleting' = {} /\ \A p \in Process : job'[p] = Idle
    BY <1>10 DEF Restart
  <2> QED
    BY <2>1, LoadStep DEF JobsMove, BeginsOrEnds, Idle
<1>11. CASE Reconfigure
  <2>1. UNCHANGED <<deleting, job>> /\ Load /\ \A w \in Workers : job[w] = Idle
    BY <1>11 DEF Reconfigure
  <2>2. \A p \in Process : job[p].pc # "adding"
    BY <2>1 DEF StoresInv, WorkersSave, Idle
  <2> QED
    BY <2>1, <2>2, LoadStep DEF JobsMove
<1>12. CASE UNCHANGED vars
  BY <1>12, JobsStep DEF vars, JobsMove
<1> QED
  BY <1>1, <1>2, <1>3, <1>4, <1>5, <1>6, <1>7, <1>8, <1>9, <1>10, <1>11, <1>12 DEF Next

\* Whatever is still to come is saved, for any number of workers: what may be
\* dispatched from memory has a row, as has all that is scheduled, unless a user
\* cancelled all at once meanwhile.
THEOREM StoresAgree == Spec => [](MemoryBacked /\ ScheduledIsSaved)
<1>1. StoresInv => MemoryBacked /\ ScheduledIsSaved
  BY DEF StoresInv
<1> QED
  BY InitStores, StepStores, <1>1, PTL DEF Spec

-----------------------------------------------------------------------------
(* The promise of a delayed activity *)

Ripe == {i \in Ids : age[i] # "waiting"}

Late == {i \in Ids : \/ age[i] = "overdue" /\ entity[i].tardyTolerant # "always"
                     \/ age[i] = "due" /\ entity[i].tardyTolerant = "never"}

\* Those of D that are scheduled end together.
LEMMA EndedEnds ==
    ASSUME StoresInv, NEW D \in SUBSET Ids, NEW how, fate' = Ended(D, how)
    PROVE  Promise!End({i \in D : fate[i] = "scheduled"}, how)
  BY DEF StoresInv, TypeOK, Ended, Promise!End

LEMMA CancelledEnds ==
    ASSUME StoresInv, NEW D \in SUBSET Ids, fate' = Ended(D, "cancelled")
    PROVE  Promise!Next
<1> DEFINE E == {i \in D : fate[i] = "scheduled"}
<1>1. E \in SUBSET Ids /\ Promise!Cancel(E)
  BY EndedEnds DEF Promise!Cancel
<1> HIDE DEF E
<1> QED
  BY <1>1 DEF Promise!Next

\* What is dropped when the database is read is later than it tolerates.
LEMMA LoadDrops == ASSUME StoresInv, Load PROVE Promise!Next
<1> DEFINE lates == {i \in db : TooLate(i)}
           E == {i \in lates : fate[i] = "scheduled"}
<1>1. fate' = Ended(lates, "dropped")
  BY DEF Load
<1>2. lates \in SUBSET Ids
  BY DEF StoresInv, TypeOK
<1>3. ASSUME NEW i \in lates PROVE i \in Late
  <2>1. i \in Ids /\ TooLate(i) /\ entity[i] \in Entity /\ age[i] \in {"waiting", "due", "overdue"}
    BY <1>3, <1>2 DEF StoresInv, TypeOK, StoredIsAlive
  <2>2. entity[i].tardyTolerant \in {"always", "never", "within"}
    BY <2>1 DEF Entity
  <2> QED
    BY <2>1, <2>2 DEF TooLate, Late
<1> HIDE DEF lates
<1>4. E \in SUBSET Ids /\ E \subseteq Late
  BY <1>2, <1>3
<1>5. Promise!End(E, "dropped")
  BY <1>1, <1>2, EndedEnds
<1> HIDE DEF E
<1>6. Promise!Drop(E)
  BY <1>4, <1>5 DEF Promise!Drop, Late
<1> QED
  BY <1>4, <1>6 DEF Promise!Next

LEMMA StepPromise == StoresInv /\ [Next]_vars => [Promise!Next]_(Promise!vars)
<1> SUFFICES ASSUME StoresInv, [Next]_vars PROVE Promise!Next
  BY DEF Promise!Next
<1>1. ASSUME UNCHANGED fate PROVE Promise!Next
  BY <1>1 DEF Promise!Next, Promise!Wait
<1>2. CASE Tick
  <2> DEFINE D == {i \in DueItems : fate[i] = "scheduled"}
  <2>1. DueItems \subseteq Ripe /\ DueItems \subseteq Ids
        /\ \A i \in DueItems : fate[i] \in {"scheduled", "dispatched"}
    BY DEF StoresInv, TypeOK, StoredIsAlive, DueItems, Ripe
  <2>2. fate' = [i \in Ids |-> IF i \in D THEN "dispatched" ELSE fate[i]]
    <3>1. fate' = [i \in Ids |-> IF i \in DueItems THEN "dispatched" ELSE fate[i]]
      BY <1>2 DEF Tick
    <3> QED
      BY <2>1, <3>1
  <2>3. D \in SUBSET Ids /\ D \subseteq Ripe /\ \A i \in D : fate[i] = "scheduled"
    BY <2>1
  <2> HIDE DEF D
  <2>4. Promise!Dispatch(D)
    BY <2>2, <2>3 DEF Promise!Dispatch, Promise!End, Ripe
  <2> QED
    BY <2>3, <2>4 DEF Promise!Next
<1>3. ASSUME NEW w \in Workers, Saves(w) PROVE Promise!Next
  <2>1. PICK i \in Ids : IsNext(i) /\ fate' = [fate EXCEPT ![i] = "scheduled"]
    BY <1>3 DEF Saves
  <2>2. Promise!Schedule(i)
    BY <2>1 DEF IsNext, Promise!Schedule
  <2> QED
    BY <2>2 DEF Promise!Next
<1>4. ASSUME NEW p \in Process, Removes(p) PROVE Promise!Next
  <2>1. PICK i \in job[p].ids : fate' = Ended({i}, "cancelled")
    BY <1>4 DEF Removes
  <2>2. {i} \in SUBSET Ids
    BY DEF StoresInv, TypeOK, Job
  <2> QED
    BY <2>1, <2>2, CancelledEnds
<1>5. CASE ClearsMemory
  <2>1. fate' = Ended(memory \ db, "cancelled") /\ memory \ db \in SUBSET Ids
    BY <1>5 DEF ClearsMemory, StoresInv, TypeOK
  <2> QED
    BY <2>1, CancelledEnds
<1>6. CASE Restart \/ Reconfigure
  BY <1>6, LoadDrops DEF Restart, Reconfigure
<1>7. ASSUME NEW i \in Ids, Elapse(i) \/ TimerRemoves(i) \/ TimerFailsToRemove(i) PROVE Promise!Next
  BY <1>1, <1>7 DEF Elapse, TimerRemoves, TimerFailsToRemove
<1>8. ASSUME NEW w \in Workers, Action(w) PROVE Promise!Next
  BY <1>1, <1>3, <1>8 DEF Action, DispatchAction, DelayUntil, CancelDispatch, Adds
<1>9. ASSUME NEW p \in Process, DatabaseFails(p) PROVE Promise!Next
  BY <1>1, <1>9 DEF DatabaseFails
<1>10. CASE User
  BY <1>1, <1>5, <1>10 DEF User, UserCancels, UserCancelsAll, ClearsDatabase, PauseOrResume
<1>11. ASSUME NEW a \in Activities, FirehoseTakes(a) PROVE Promise!Next
  BY <1>1, <1>11 DEF FirehoseTakes
<1>12. CASE UNCHANGED vars
  BY <1>1, <1>12 DEF vars
<1> QED
  BY <1>2, <1>4, <1>6, <1>7, <1>8, <1>9, <1>10, <1>11, <1>12 DEF Next

LEMMA InitPromise == Init => Promise!Init
  BY DEF Init, Promise!Init

\* Delayed activities keep what they promise: each is scheduled once, and then it
\* is dispatched when it is due, cancelled, or dropped when it is too late,
\* whatever the database does, whoever cancels, and however often the
\* application ends and starts again.
THEOREM PromiseKept == Spec => KeepsPromise
<1>1. Promise!Spec <=> Promise!Init /\ [][Promise!Next]_(Promise!vars)
  BY DEF Promise!Spec
<1> QED
  BY InitStores, StepStores, InitPromise, StepPromise, <1>1, PTL DEF Spec, KeepsPromise

-----------------------------------------------------------------------------
(* With one worker *)

OneWorker == \A w, x \in Workers : w = x

\* Rows without a copy in memory are being added, or went astray.
RowsInMemory ==
    \A i \in db : \/ i \in memory \cup astray
                  \/ \E w \in Workers : job[w].pc = "adding" /\ i \in job[w].ids

\* A dispatch that does not ignore others has found none, or removes all of them.
NoneBesides(w) ==
    job[w].add # Nothing /\ job[w].add.existing # "ignore" =>
        /\ job[w].pc = "saving" => Existing(job[w].add.activity) = {}
        /\ job[w].pc = "removing" => Existing(job[w].add.activity) \subseteq job[w].ids

\* Of two items of one activity that are stored, one ignores others.
OneStored ==
    \A i, j \in (db \cup memory) \ astray :
        entity[i].activity = entity[j].activity /\ i # j
            => "ignore" \in {entity[i].existing, entity[j].existing}

OneInv == RowsInMemory /\ OneStored /\ \A w \in Workers : NoneBesides(w)

LEMMA InitOne == Init => OneInv
  BY DEF Init, OneInv, RowsInMemory, OneStored, NoneBesides, Existing, Idle, Process

\* The items of an activity become fewer, and a worker removes all of them still.
LEMMA FewerBesides ==
    ASSUME StoresInv, OneInv, NEW w \in Workers, UNCHANGED job[w],
           \A i \in memory' : i \in memory /\ entity'[i] = entity[i]
    PROVE  NoneBesides(w)'
  BY DEF OneInv, NoneBesides, Existing

\* Fewer items are stored, or more of them went astray, and nothing that is being
\* added is forgotten.
LEMMA FewerStored ==
    ASSUME StoresInv, OneInv, astray \subseteq astray',
           \A i \in (db' \cup memory') \ astray' : i \in db \cup memory /\ entity'[i] = entity[i],
           \A i \in db' : i \in db /\ (i \in memory => i \in memory' \cup astray'),
           \A w \in Workers : job[w].pc = "adding" => job'[w] = job[w],
           \A w \in Workers : NoneBesides(w)'
    PROVE  OneInv'
<1>1. RowsInMemory'
  <2> SUFFICES ASSUME NEW i \in db', i \notin memory' \cup astray'
               PROVE  \E w \in Workers : job'[w].pc = "adding" /\ i \in job'[w].ids
    BY DEF RowsInMemory
  <2>1. i \in db /\ i \notin memory \cup astray
    OBVIOUS
  <2> QED
    BY <2>1 DEF OneInv, RowsInMemory
<1>2. OneStored'
  BY DEF OneInv, OneStored
<1> QED
  BY <1>1, <1>2 DEF OneInv

\* An erased item is not one of those that are being added.
LEMMA EraseOne ==
    ASSUME StoresInv, OneInv, NEW i \in Ids, Erased(i), UNCHANGED astray,
           \A w \in Workers : job[w].pc = "adding" => job'[w] = job[w],
           \A w \in Workers : NoneBesides(w)'
    PROVE  OneInv'
<1>1. \A j \in Ids \ {i} : entity'[j] = entity[j]
  BY DEF Erased, Forgets
<1>2. \A j \in db' \cup memory' : j \in Ids \ {i}
  BY DEF Erased, StoresInv, TypeOK
<1> QED
  BY <1>1, <1>2, FewerStored DEF Erased

\* After the database was read the workers are idle.
LEMMA LoadOne ==
    ASSUME StoresInv, OneInv, Load, \A w \in Workers : job'[w] = Idle
    PROVE  OneInv'
<1> DEFINE lates == {i \in db : TooLate(i)}
<1>1. PICK failing \in SUBSET (db \ lates) :
          /\ db' = db \ lates
          /\ memory' = db' \ failing
          /\ Forgets(Ids \ db')
          /\ astray' = astray \cup failing
  BY DEF Load
<1> HIDE DEF lates
<1>2. \A i \in db' : i \in db /\ entity'[i] = entity[i]
  BY <1>1 DEF Forgets, StoresInv, TypeOK
<1>3. RowsInMemory'
  BY <1>1 DEF RowsInMemory
<1>4. OneStored'
  BY <1>1, <1>2 DEF OneInv, OneStored
<1>5. \A w \in Workers : NoneBesides(w)'
  BY DEF NoneBesides, Idle
<1> QED
  BY <1>3, <1>4, <1>5 DEF OneInv

\* Each step keeps what one worker sees to.
LEMMA StepOne ==
    ASSUME OneWorker, StoresInv, OneInv, [Next]_vars
    PROVE  OneInv'
<1>0. TypeOK /\ StoresInv'
  BY StepStores DEF StoresInv
<1> USE <1>0
<1>1. ASSUME UNCHANGED <<entity, stores, astray>>, NEW w \in Workers, NoneBesides(w)', job[w].pc # "adding"
      PROVE  OneInv'
  <2>1. \A x \in Workers : x = w
    BY DEF OneWorker
  <2> QED
    BY <1>1, <2>1, FewerStored DEF stores
<1>2. ASSUME UNCHANGED <<entity, stores, astray>>, \A w \in Workers : UNCHANGED job[w]
      PROVE  OneInv'
  <2>1. \A w \in Workers : NoneBesides(w)'
    BY <1>2, FewerBesides DEF stores
  <2> QED
    BY <1>2, <2>1, FewerStored DEF stores
<1>3. CASE Tick
  BY <1>2, <1>3 DEF Tick
<1>4. ASSUME NEW i \in Ids, Elapse(i) \/ TimerFailsToRemove(i) PROVE OneInv'
  BY <1>2, <1>4 DEF Elapse, TimerFailsToRemove
<1>5. ASSUME NEW i \in Ids, TimerRemoves(i) PROVE OneInv'
  <2>1. Erased(i) /\ UNCHANGED <<job, astray>>
    BY <1>5 DEF TimerRemoves
  <2>2. \A j \in memory' : j \in memory /\ entity'[j] = entity[j]
    BY <2>1 DEF Erased, Forgets, StoresInv, TypeOK
  <2> QED
    BY <2>1, <2>2, FewerBesides, EraseOne
<1>6. ASSUME NEW a \in Activities, FirehoseTakes(a) PROVE OneInv'
  <2>1. \A w \in Workers : UNCHANGED job[w]
    BY <1>6, ConstAssumption DEF FirehoseTakes, TypeOK, Process
  <2> QED
    BY <1>2, <1>6, <2>1 DEF FirehoseTakes
<1>7. ASSUME NEW w \in Workers, Action(w) PROVE OneInv'
  <2>0. w \in Process /\ job \in [Process -> Job]
    BY DEF Process, TypeOK
  <2>1. ASSUME NEW new \in Dispatches, DispatchAction(w, new) PROVE OneInv'
    <3>1. /\ job[w] = Idle /\ UNCHANGED <<entity, stores, astray>>
          /\ Existing(new.activity) # {} => new.existing # "skip"
          /\ job'[w] = IF new.existing = "replace" /\ Existing(new.activity) # {}
                       THEN [pc |-> "removing", ids |-> Existing(new.activity), add |-> new]
                       ELSE [pc |-> "saving", ids |-> {}, add |-> new]
      BY <2>0, <2>1 DEF DispatchAction
    <3>2. new.existing \in {"skip", "replace", "ignore"}
      BY ConstAssumption DEF Entity
    <3>3. NoneBesides(w)'
      BY <3>1, <3>2 DEF NoneBesides, Existing, stores
    <3> QED
      BY <1>1, <3>1, <3>3 DEF Idle
  <2>2. ASSUME NEW a \in Activities, DelayUntil(w, a) PROVE OneInv'
    <3>1. job[w] = Idle /\ job'[w].add = Young(a) /\ UNCHANGED <<entity, stores, astray>>
      BY <2>0, <2>2 DEF DelayUntil
    <3>2. NoneBesides(w)'
      BY <3>1 DEF NoneBesides, Young
    <3> QED
      BY <1>1, <3>1, <3>2 DEF Idle
  <2>3. ASSUME NEW ids \in SUBSET memory, CancelDispatch(w, ids) PROVE OneInv'
    <3>1. job[w] = Idle /\ job'[w].add = Nothing /\ UNCHANGED <<entity, stores, astray>>
      BY <2>0, <2>3 DEF CancelDispatch, Idle
    <3>2. NoneBesides(w)'
      BY <3>1 DEF NoneBesides
    <3> QED
      BY <1>1, <3>1, <3>2 DEF Idle
  <2>4. CASE Saves(w)
    <3>1. PICK i \in Ids :
              /\ IsNext(i)
              /\ entity' = [entity EXCEPT ![i] = job[w].add]
              /\ db' = db \cup {i}
              /\ job' = [job EXCEPT ![w] = [Idle EXCEPT !.pc = "adding", !.ids = {i}]]
      BY <2>4 DEF Saves
    <3>2. job[w].pc = "saving" /\ UNCHANGED <<memory, astray>> /\ fate[i] = "unused"
      BY <2>4, <3>1 DEF Saves, IsNext
    <3>3. i \notin db \cup memory /\ job[w].add # Nothing
      BY <2>0, <3>2 DEF StoresInv, StoredIsAlive, SavesEntity
    <3>4. job'[w].pc = "adding" /\ job'[w].ids = {i} /\ job'[w].add = Nothing
      BY <2>0, <3>1 DEF Idle
    <3>5. entity'[i] = job[w].add /\ \A j \in Ids \ {i} : entity'[j] = entity[j]
      BY <3>1 DEF TypeOK
    <3>6. \A j \in db : j \in memory \cup astray
      BY <3>2 DEF OneWorker, OneInv, RowsInMemory
    <3>7. RowsInMemory'
      BY <3>1, <3>2, <3>4, <3>6 DEF RowsInMemory
    <3>8. ASSUME NEW j \in memory, entity[j].activity = job[w].add.activity PROVE job[w].add.existing = "ignore"
      BY <3>2, <3>3, <3>8 DEF OneInv, NoneBesides, Existing
    <3>9. OneStored'
      <4> SUFFICES ASSUME NEW j \in (db' \cup memory') \ astray', NEW k \in (db' \cup memory') \ astray',
                          entity'[j].activity = entity'[k].activity, j # k
                   PROVE  "ignore" \in {entity'[j].existing, entity'[k].existing}
        BY DEF OneStored
      <4>1. CASE j = i
        <5>1. k \in memory /\ k \in Ids \ {i}
          BY <3>1, <3>2, <3>3, <3>6, <4>1 DEF TypeOK
        <5> QED
          BY <3>5, <3>8, <4>1, <5>1
      <4>2. CASE k = i
        <5>1. j \in memory /\ j \in Ids \ {i}
          BY <3>1, <3>2, <3>3, <3>6, <4>2 DEF TypeOK
        <5> QED
          BY <3>5, <3>8, <4>2, <5>1
      <4>3. CASE j # i /\ k # i
        <5>1. /\ j \in (db \cup memory) \ astray /\ k \in (db \cup memory) \ astray
              /\ entity'[j] = entity[j] /\ entity'[k] = entity[k]
          BY <3>1, <3>2, <3>5, <4>3 DEF TypeOK
        <5> QED
          BY <5>1 DEF OneInv, OneStored
      <4> QED
        BY <4>1, <4>2, <4>3
    <3>10. \A x \in Workers : NoneBesides(x)'
      BY <3>4 DEF OneWorker, NoneBesides
    <3> QED
      BY <3>7, <3>9, <3>10 DEF OneInv
  <2>5. CASE Adds(w)
    <3>1. /\ job[w].pc = "adding" /\ job'[w] = Idle /\ memory' = memory \cup job[w].ids
          /\ UNCHANGED <<entity, db, astray>>
      BY <2>0, <2>5 DEF Adds
    <3>2. job[w].ids \subseteq db \cup astray
      BY <2>0, <3>1 DEF StoresInv, AddingIsOwn
    <3>3. RowsInMemory'
      BY <3>1 DEF OneWorker, OneInv, RowsInMemory
    <3>4. OneStored'
      BY <3>1, <3>2 DEF OneInv, OneStored
    <3>5. \A x \in Workers : NoneBesides(x)'
      BY <3>1 DEF OneWorker, NoneBesides, Idle
    <3> QED
      BY <3>3, <3>4, <3>5 DEF OneInv
  <2> QED
    BY <1>7, <2>1, <2>2, <2>3, <2>4, <2>5 DEF Action, Existing
<1>8. ASSUME NEW p \in Process, Removes(p) PROVE OneInv'
  <2>1. PICK i \in job[p].ids :
            /\ Erased(i)
            /\ job' = [job EXCEPT ![p] =
                   IF job[p].ids \ {i} # {} THEN [@ EXCEPT !.ids = job[p].ids \ {i}]
                   ELSE IF @.add # Nothing THEN [@ EXCEPT !.pc = "saving", !.ids = {}]
                   ELSE Idle]
    BY <1>8 DEF Removes
  <2>2. i \in Ids /\ job[p].pc = "removing" /\ UNCHANGED astray /\ job[p] \in Job
    BY <1>8 DEF Removes, TypeOK, Job
  <2>3. \A j \in memory' : j \in memory /\ j # i /\ entity'[j] = entity[j]
    BY <2>1 DEF Erased, Forgets, TypeOK
  <2>4. \A w \in Workers : w # p => UNCHANGED job[w]
    BY <2>1 DEF TypeOK, Process
  <2>5. \/ job'[p].pc = "removing" /\ job'[p].ids = job[p].ids \ {i} /\ job'[p].add = job[p].add
        \/ job'[p].pc = "saving" /\ job[p].ids \subseteq {i} /\ job'[p].add = job[p].add
        \/ job'[p].add = Nothing
    <3>1. CASE job[p].ids \ {i} # {}
      <4>1. job'[p] = [job[p] EXCEPT !.ids = job[p].ids \ {i}]
        BY <2>1, <3>1 DEF TypeOK
      <4> QED
        BY <2>2, <4>1 DEF Job
    <3>2. CASE job[p].ids \ {i} = {} /\ job[p].add # Nothing
      <4>1. job'[p] = [job[p] EXCEPT !.pc = "saving", !.ids = {}]
        BY <2>1, <3>2 DEF TypeOK
      <4> QED
        BY <2>2, <3>2, <4>1 DEF Job
    <3>3. CASE job[p].ids \ {i} = {} /\ job[p].add = Nothing
      BY <2>1, <3>3 DEF TypeOK, Idle
    <3> QED
      BY <3>1, <3>2, <3>3
  <2>6. ASSUME NEW w \in Workers PROVE NoneBesides(w)'
    <3>1. CASE w = p
      <4>1. NoneBesides(p)
        BY <3>1 DEF OneInv
      <4> QED
        BY <2>2, <2>3, <2>5, <3>1, <4>1 DEF NoneBesides, Existing
    <3>2. CASE w # p
      BY <2>3, <2>4, <3>2, FewerBesides
    <3> QED
      BY <3>1, <3>2
  <2>7. \A w \in Workers : job[w].pc = "adding" => job'[w] = job[w]
    BY <2>2, <2>4
  <2> QED
    BY <2>1, <2>2, <2>6, <2>7, EraseOne
<1>9. ASSUME NEW p \in Process, DatabaseFails(p) PROVE OneInv'
  <2>1. /\ job[p].pc # "adding" /\ job'[p] = Idle /\ \A w \in Workers : w # p => UNCHANGED job[w]
        /\ UNCHANGED <<entity, stores, astray>>
    BY <1>9 DEF DatabaseFails, TypeOK, Process
  <2>2. CASE p \in Workers
    BY <1>1, <2>1, <2>2 DEF NoneBesides, Idle
  <2>3. CASE p \notin Workers
    BY <1>2, <2>1, <2>3
  <2> QED
    BY <2>2, <2>3
<1>10. CASE User
  <2>1. job' \in [Process -> Job] /\ \A w \in Workers : UNCHANGED job[w]
    BY <1>10, ConstAssumption DEF User, UserCancels, UserCancelsAll, ClearsDatabase, ClearsMemory, PauseOrResume,
                                  TypeOK, StoresInv, Process
  <2>2. CASE (\E i \in Ids : UserCancels(i)) \/ UserCancelsAll \/ PauseOrResume
    BY <1>2, <2>1, <2>2 DEF UserCancels, UserCancelsAll, PauseOrResume
  <2>3. CASE ClearsDatabase
    <3>1. db' = {} /\ astray' = astray \cup db /\ UNCHANGED <<entity, memory>>
      BY <2>3 DEF ClearsDatabase
    <3>2. \A w \in Workers : NoneBesides(w)'
      BY <2>1, <3>1, FewerBesides
    <3> QED
      BY <2>1, <3>1, <3>2, FewerStored
  <2>4. CASE ClearsMemory
    <3>1. memory' = {} /\ astray' = astray \cup memory /\ UNCHANGED db /\ Forgets(memory \ db)
      BY <2>4 DEF ClearsMemory
    <3>2. \A i \in db : entity'[i] = entity[i]
      BY <3>1 DEF Forgets, TypeOK
    <3>3. \A w \in Workers : NoneBesides(w)'
      BY <2>1, <3>1, FewerBesides
    <3> QED
      BY <2>1, <3>1, <3>2, <3>3, FewerStored
  <2> QED
    BY <1>10, <2>2, <2>3, <2>4 DEF User
<1>11. CASE Restart
  <2>1. Load /\ \A w \in Workers : job'[w] = Idle
    BY <1>11 DEF Restart, Process
  <2> QED
    BY <2>1, LoadOne
<1>12. CASE Reconfigure
  <2>1. Load /\ \A w \in Workers : job'[w] = Idle
    BY <1>12 DEF Reconfigure
  <2> QED
    BY <2>1, LoadOne
<1>13. CASE UNCHANGED vars
  BY <1>2, <1>13 DEF vars
<1> QED
  BY <1>3, <1>4, <1>5, <1>6, <1>7, <1>8, <1>9, <1>10, <1>11, <1>12, <1>13 DEF Next

\* With one worker, as is the default, nothing is scheduled, besides, against what
\* a dispatch asked for: one that skips or replaces (onExistingFound) is never
\* stored beside another of its activity that does not ignore it.
THEOREM MemoryAndTableCorrect == OneWorker /\ Spec => []MemoryAndTable
<1> SUFFICES ASSUME OneWorker PROVE Spec => []MemoryAndTable
  OBVIOUS
<1>1. StoresInv /\ OneInv => MemoryAndTable
  BY DEF StoresInv, OneInv, OneStored, OneScheduled, MemoryAndTable
<1>2. StoresInv /\ OneInv /\ [Next]_vars => OneInv'
  BY StepOne
<1> QED
  BY InitStores, InitOne, StepStores, <1>1, <1>2, PTL DEF Spec
=============================================================================
