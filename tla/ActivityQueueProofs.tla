-------------------------- MODULE ActivityQueueProofs --------------------------
(***************************************************************************)
(* Theorems about ActivityQueue: its type invariant for every choice of    *)
(* the constants, and, for a manager with one worker whose stops are       *)
(* graceful (the default), that queuedItemsMeta mirrors the queue and that *)
(* nothing accepted is lost; and what its operations keep to.              *)
(***************************************************************************)
EXTENDS ActivityQueue, SequenceTheorems, FiniteSetTheorems, WellFoundedInduction, TLAPS

(***************************************************************************)
(* Lemmas about the helpers.                                               *)
(***************************************************************************)

\* A nonempty set of naturals has the least element that Min chooses.
LEMMA MinOfNats ==
    ASSUME NEW I \in SUBSET Nat, I # {}
    PROVE  Min(I) \in I /\ \A j \in I : Min(I) <= j
<1> DEFINE R == {p \in Nat \X Nat : p[1] < p[2]}
<1>1. OpToRel(<, Nat) = R
  BY DEF OpToRel
<1>2. IsWellFoundedOn(R, Nat)
  BY <1>1, NatLessThanWellFounded
<1>3. PICK i \in I : \A j \in I : ~ (<<j, i>> \in R)
  <2> HIDE DEF R
  <2> QED
    BY <1>2, WFMin
<1>4. \A j \in Nat : j < i => <<j, i>> \in R
  OBVIOUS
<1>5. ASSUME NEW j \in I PROVE i <= j
  <2> HIDE DEF R
  <2>1. i \in Nat /\ j \in Nat /\ ~ (j < i)
    BY <1>3, <1>4
  <2> QED
    BY <2>1
<1> QED
  BY <1>5 DEF Min

\* A search for an activity's meta returns 0 or a position where it stands, and
\* the first position when the activity's meta is the first of all.
LEMMA FirstMetaFinds ==
    ASSUME metas \in Seq(Meta), NEW a
    PROVE  /\ FirstMeta(a) \in 0 .. Len(metas)
           /\ FirstMeta(a) # 0 => metas[FirstMeta(a)].id = a
           /\ metas # <<>> /\ metas[1].id = a => FirstMeta(a) = 1
<1> DEFINE I == {i \in 1 .. Len(metas) : metas[i].id = a}
<1>1. FirstMeta(a) = IF I # {} THEN Min(I) ELSE 0
  BY DEF FirstMeta, SelectInSeq
<1>2. Len(metas) \in Nat /\ I \subseteq Nat
  BY LenProperties
<1>3. I # {} => Min(I) \in I /\ \A j \in I : Min(I) <= j
  BY <1>2, MinOfNats
<1>4. metas # <<>> => 1 \in 1 .. Len(metas)
  BY EmptySeq
<1> QED
  BY <1>1, <1>2, <1>3, <1>4

\* The backward search returns 0 or a position where the activity's meta stands.
LEMMA LastMetaFinds ==
    ASSUME metas \in Seq(Meta), NEW a
    PROVE  /\ LastMeta(a) \in 0 .. Len(metas)
           /\ LastMeta(a) # 0 => metas[LastMeta(a)].id = a
           /\ LastMeta(a) = 0 => \A i \in 1 .. Len(metas) : metas[i].id # a
<1> DEFINE n == Len(metas)
           I == {i \in 1 .. n : metas[i].id = a}
           J == {n - i : i \in I}
<1>1. LastMeta(a) = IF I # {} THEN Max(I) ELSE 0
  BY DEF LastMeta, SelectLastInSeq
<1>2. n \in Nat /\ I \subseteq 1 .. n
  BY LenProperties
<1>3. ASSUME I # {} PROVE Max(I) \in I
  <2>1. J \in SUBSET Nat /\ J # {}
    BY <1>2, <1>3
  <2>2. Min(J) \in J /\ \A j \in J : Min(J) <= j
    BY <2>1, MinOfNats
  <2>3. PICK i \in I : Min(J) = n - i
    BY <2>2
  <2>4. \A k \in I : n - i <= n - k
    BY <2>2, <2>3
  <2>5. \A k \in I : i >= k
    BY <1>2, <2>4
  <2> HIDE DEF I, J
  <2> QED
    BY <2>5 DEF Max
<1> QED
  BY <1>1, <1>2, <1>3

\* splice leaves a sequence of the same elements, and at the first position it
\* is Tail.
LEMMA SplicedSeq ==
    ASSUME NEW S, NEW s \in Seq(S), NEW i \in Nat
    PROVE  Spliced(s, i) \in Seq(S)
<1>1. Len(s) \in Nat /\ \A j \in 1 .. Len(s) : s[j] \in S
  BY LenProperties, ElementOfSeq
<1>2. CASE i \in 1 .. Len(s)
  <2>1. SubSeq(s, 1, i - 1) \in Seq(S) /\ SubSeq(s, i + 1, Len(s)) \in Seq(S)
    BY <1>1, <1>2, SubSeqProperties
  <2> QED
    BY <2>1, <1>2, ConcatProperties DEF Spliced, RemoveAt
<1>3. CASE i \notin 1 .. Len(s) /\ i = 0 /\ s # <<>>
  <2>1. SubSeq(s, 1, Len(s) - 1) \in Seq(S)
    BY <1>1, SubSeqProperties
  <2> QED
    BY <2>1, <1>3 DEF Spliced, Front
<1>4. CASE i \notin 1 .. Len(s) /\ ~(i = 0 /\ s # <<>>)
  BY <1>4 DEF Spliced
<1> QED
  BY <1>2, <1>3, <1>4

LEMMA SplicedFirst ==
    ASSUME NEW S, NEW s \in Seq(S), s # <<>>
    PROVE  Spliced(s, 1) = Tail(s)
<1>1. Len(s) \in Nat /\ Len(s) >= 1 /\ \A j \in 1 .. Len(s) : s[j] \in S
  BY LenProperties, ElementOfSeq, EmptySeq
<1>2. Spliced(s, 1) = SubSeq(s, 1, 0) \o SubSeq(s, 2, Len(s))
  BY <1>1 DEF Spliced, RemoveAt
<1>3. SubSeq(s, 1, 0) = <<>>
  BY SubSeqEmpty
<1>4. SubSeq(s, 2, Len(s)) = Tail(s) /\ Tail(s) \in Seq(S)
  BY TailIsSubSeq, HeadTailProperties
<1> QED
  BY <1>2, <1>3, <1>4, ConcatEmptySeq

\* Setting a field of one meta keeps queuedItemsMeta typed.
LEMMA MarkedMetas ==
    ASSUME metas \in Seq(Meta), NEW i \in 1 .. Len(metas)
    PROVE  /\ [metas EXCEPT ![i].state = "processing"] \in Seq(Meta)
           /\ [metas EXCEPT ![i].shouldRefresh = TRUE] \in Seq(Meta)
<1>1. metas[i] \in Meta
  BY ElementOfSeq
<1>2. /\ [metas[i] EXCEPT !.state = "processing"] \in Meta
      /\ [metas[i] EXCEPT !.shouldRefresh = TRUE] \in Meta
  BY <1>1 DEF Meta
<1> QED
  BY <1>2, ExceptSeq

LEMMA RepaidType ==
    ASSUME TypeOK, NEW a, NEW data
    PROVE  Repaid(a, data) \in [Activities -> 0 .. MaxVersion]
<1>1. 0 \in 0 .. MaxVersion /\ owed \in [Activities -> 0 .. MaxVersion]
  BY ConstAssumption DEF TypeOK
<1>2. \A b \in Activities : owed[b] \in 0 .. MaxVersion
  BY <1>1
<1> DEFINE v == IF data >= owed[a] THEN 0 ELSE owed[a]
<1>3. a \in Activities => v \in 0 .. MaxVersion
  BY <1>1, <1>2
<1> HIDE DEF v
<1>4. [owed EXCEPT ![a] = v] \in [Activities -> 0 .. MaxVersion]
  BY <1>1, <1>3
<1> QED
  BY <1>4 DEF Repaid, v

(***************************************************************************)
(* The type invariant, for every choice of the constants.                  *)
(***************************************************************************)

LEMMA BeginType ==
    ASSUME TypeOK, NEW w \in Workers, NEW task \in Task, NEW detached \in BOOLEAN,
           Begin(w, task, detached)
    PROVE  /\ metas' \in Seq(Meta)
           /\ worker' \in [Workers -> Job \cup {Idle}]
           /\ owed' \in [Activities -> 0 .. MaxVersion]
<1> DEFINE i == FirstMeta(task.id)
<1>1. i \in 0 .. Len(metas) /\ Len(metas) \in Nat
  BY FirstMetaFinds, LenProperties DEF TypeOK
<1>2. Repaid(task.id, task.data) \in [Activities -> 0 .. MaxVersion]
  BY RepaidType
<1>3. CASE i = 0
  <2>1. Spliced(metas, 0) \in Seq(Meta)
    BY SplicedSeq DEF TypeOK
  <2> QED
    BY <1>3, <2>1 DEF Begin, TypeOK
<1>4. CASE i # 0
  <2>1. [metas EXCEPT ![i].state = "processing"] \in Seq(Meta)
    <3>1. i \in 1 .. Len(metas) /\ metas \in Seq(Meta)
      BY <1>1, <1>4 DEF TypeOK
    <3> HIDE DEF i
    <3> QED
      BY <3>1, MarkedMetas
  <2>2. \A pc \in {"refreshing", "handling"} :
            [pc |-> pc, task |-> task, index |-> i, detached |-> detached] \in Job
    BY <1>1 DEF Job
  <2> HIDE DEF i
  <2> QED
    BY <1>2, <1>4, <2>1, <2>2 DEF Begin, TypeOK, i
<1> QED
  BY <1>3, <1>4

LEMMA TypeInductive == TypeOK /\ [Next]_vars => TypeOK'
<1> SUFFICES ASSUME TypeOK, [Next]_vars
             PROVE  TypeOK'
  OBVIOUS
<1>1. ASSUME NEW a \in Activities, Edit(a) PROVE TypeOK'
  BY <1>1, ConstAssumption DEF Edit, TypeOK, Versions
<1>2. ASSUME NEW a \in Activities, NEW data \in Versions, NEW refresh \in BOOLEAN,
             Ingest(a, data, refresh)
      PROVE  TypeOK'
  <2>1. [id |-> a, data |-> data, refresh |-> refresh] \in Task
    BY DEF Task
  <2>2. firehose' \in Seq(Task)
    BY <1>2, <2>1, AppendProperties DEF Ingest, TypeOK
  <2> QED
    BY <1>2, <2>2 DEF Ingest, TypeOK
<1>3. ASSUME Firehose PROVE TypeOK'
  <2> DEFINE task == Head(firehose)
             last == LastMeta(task.id)
  <2>1. task \in Task /\ firehose' \in Seq(Task)
    BY <1>3, HeadTailProperties DEF Firehose, TypeOK
  <2>2. owed' \in [Activities -> 0 .. MaxVersion]
    BY <1>3, <2>1, ConstAssumption DEF Firehose, TypeOK, Task, Versions
  <2>3. CASE AlreadyQueued(last)
    <3>1. last \in 1 .. Len(metas)
      BY <2>3, LastMetaFinds DEF AlreadyQueued, TypeOK
    <3>2. metas' \in Seq(Meta) /\ tasks' = tasks
      BY <1>3, <2>3, <3>1, MarkedMetas DEF Firehose, Flagged, TypeOK
    <3> QED
      BY <1>3, <2>1, <2>2, <3>2 DEF Firehose, TypeOK
  <2>4. CASE ~AlreadyQueued(last)
    <3> DEFINE meta == NewMeta(task.id, last # 0)
    <3>1. meta \in Meta
      BY <2>1 DEF Meta, Task, NewMeta
    <3>2. metas' = Append(metas, meta) /\ tasks' = Append(tasks, task)
      BY <1>3, <2>4 DEF Firehose
    <3> HIDE DEF meta, task
    <3>3. metas' \in Seq(Meta) /\ tasks' \in Seq(Task)
      BY <2>1, <3>1, <3>2, AppendProperties DEF TypeOK
    <3> QED
      BY <1>3, <2>1, <2>2, <3>3 DEF Firehose, TypeOK
  <2> QED
    BY <2>3, <2>4
<1>4. ASSUME NEW w \in Workers, TakeTask(w) PROVE TypeOK'
  <2>1. Head(tasks) \in Task /\ tasks' \in Seq(Task)
    BY <1>4, HeadTailProperties DEF TakeTask, TypeOK
  <2>2. CASE delayBy
    <3>1. [pc |-> "delaying", task |-> Head(tasks), index |-> 0, detached |-> FALSE] \in Job
      BY <2>1 DEF Job
    <3> QED
      BY <1>4, <2>1, <2>2, <3>1 DEF TakeTask, TypeOK
  <2>3. CASE ~delayBy
    <3>1. Begin(w, Head(tasks), FALSE)
      BY <1>4, <2>3 DEF TakeTask
    <3> QED
      BY <1>4, <2>1, <3>1, BeginType DEF TakeTask, TypeOK
  <2> QED
    BY <2>2, <2>3
<1>5. ASSUME NEW w \in Workers, EndDelay(w) PROVE TypeOK'
  <2>1. worker[w] \in Job /\ Begin(w, worker[w].task, worker[w].detached)
    BY <1>5 DEF EndDelay, Busy, TypeOK
  <2>2. worker[w].task \in Task /\ worker[w].detached \in BOOLEAN
    BY <2>1 DEF Job
  <2> QED
    BY <1>5, <2>1, <2>2, BeginType DEF EndDelay, TypeOK
<1>6. ASSUME NEW w \in Workers, Refresh(w) PROVE TypeOK'
  <2>1. worker[w] \in Job
    BY <1>6 DEF Refresh, Busy, TypeOK
  <2>2. [worker[w] EXCEPT !.pc = "handling"] \in Job
    BY <2>1 DEF Job
  <2>3. owed' \in [Activities -> 0 .. MaxVersion]
    BY <1>6, RepaidType DEF Refresh
  <2> QED
    BY <1>6, <2>2, <2>3 DEF Refresh, TypeOK
<1>7. ASSUME NEW w \in Workers, Busy(w), Release(w)
      PROVE  metas' \in Seq(Meta) /\ worker' \in [Workers -> Job \cup {Idle}]
  <2>1. worker[w].index \in Nat
    BY <1>7 DEF Busy, TypeOK, Job
  <2> QED
    BY <1>7, <2>1, SplicedSeq DEF Release, TypeOK
<1>8. ASSUME NEW w \in Workers, RefreshFails(w) \/ Finish(w) PROVE TypeOK'
  <2>1. owed' \in [Activities -> 0 .. MaxVersion]
    BY <1>8, RepaidType DEF RefreshFails, Finish, TypeOK
  <2> QED
    BY <1>7, <1>8, <2>1 DEF RefreshFails, Finish, Release, TypeOK
<1>9. ASSUME Operation PROVE TypeOK'
  <2>1. CASE SetDelay
    BY <2>1 DEF SetDelay, TypeOK
  <2>2. CASE StartQueue
    BY <2>2 DEF StartQueue, TypeOK
  <2>3. CASE PauseQueue \/ StopQueue \/ UpdateConfig
    BY <2>3 DEF PauseQueue, StopQueue, UpdateConfig, PauseTasks, TypeOK
  <2>4. CASE PauseQueueDone \/ UpdatePauseDone
    BY <2>4 DEF PauseQueueDone, UpdatePauseDone, TypeOK
  <2>5. CASE StopQueueDone
    <3>1. firehose' \in Seq(Task) /\ tasks' \in Seq(Task) /\ metas' \in Seq(Meta)
      BY <2>5, EmptySeq DEF StopQueueDone
    <3> QED
      BY <2>5, <3>1, ConstAssumption DEF StopQueueDone, TypeOK
  <2>6. ASSUME NEW n \in ConfigWorkers, Regenerate(n) PROVE TypeOK'
    <3>1. RealMax(n) \in Nat \ {0}
      BY ConstAssumption DEF RealMax
    <3>2. \A w \in Workers : Busy(w) => [worker[w] EXCEPT !.detached = TRUE] \in Job
      BY DEF Busy, TypeOK, Job
    <3>3. worker' \in [Workers -> Job \cup {Idle}]
      BY <2>6, <3>2 DEF Regenerate, TypeOK
    <3>4. tasks' \in Seq(Task)
      BY <2>6, EmptySeq DEF Regenerate, TypeOK
    <3> QED
      BY <2>6, <3>1, <3>3, <3>4 DEF Regenerate, PauseTasks, TypeOK
  <2> QED
    BY <1>9, <2>1, <2>2, <2>3, <2>4, <2>5, <2>6 DEF Operation
<1>10. CASE UNCHANGED vars
  BY <1>10 DEF vars, TypeOK
<1> QED
  BY <1>1, <1>2, <1>3, <1>4, <1>5, <1>6, <1>8, <1>9, <1>10
     DEF Next, Environment, WorkerStep

LEMMA TypeInitial == Init => TypeOK
<1> SUFFICES ASSUME Init PROVE TypeOK
  OBVIOUS
<1>1. firehose \in Seq(Task) /\ tasks \in Seq(Task) /\ metas \in Seq(Meta)
  BY EmptySeq DEF Init
<1>2. concurrency \in Nat \ {0}
  BY ConstAssumption DEF Init, RealMax
<1>3. reddit \in [Activities -> Versions] /\ owed \in [Activities -> 0 .. MaxVersion]
  BY ConstAssumption DEF Init, Versions
<1>4. worker \in [Workers -> Job \cup {Idle}]
  BY DEF Init
<1> QED
  BY <1>1, <1>2, <1>3, <1>4 DEF Init, TypeOK

\* Every reachable state is well typed, with any number of workers and any
\* interleaving of operations: the indices, flags and metas of queuedItemsMeta
\* (Manager.ts, generateFirehose and generateQueue) stay what they claim to be.
THEOREM TypeCorrect == Spec => []TypeOK
<1> QED
  BY TypeInitial, TypeInductive, PTL DEF Spec

(***************************************************************************)
(* The default manager: one worker and graceful stops.                     *)
(***************************************************************************)

\* What MetasMirrorQueue says of an idle and of a busy queue.
LEMMA MirrorIdle ==
    ASSUME \A w \in Workers : ~Busy(w)
    PROVE  MetasMirrorQueue <=>
              /\ Len(metas) = 0 + Len(tasks)
              /\ \A i \in 1 .. Len(tasks) :
                    metas[0 + i].id = tasks[i].id /\ metas[0 + i].state = "queued"
BY DEF MetasMirrorQueue

LEMMA MirrorBusy ==
    ASSUME NEW w \in Workers, Busy(w), \A v \in Workers \ {w} : ~Busy(v)
    PROVE  MetasMirrorQueue <=>
              /\ Len(metas) = 1 + Len(tasks)
              /\ \A i \in 1 .. Len(tasks) :
                    metas[1 + i].id = tasks[i].id /\ metas[1 + i].state = "queued"
              /\ metas[1].id = worker[w].task.id
              /\ metas[1].state = IF Working(w) THEN "processing" ELSE "queued"
              /\ Working(w) => worker[w].index = 1
BY DEF MetasMirrorQueue

LEMMA DefaultInitial == ASSUME Default PROVE Init => DefaultInv
<1> SUFFICES ASSUME Init PROVE DefaultInv
  OBVIOUS
<1>1. TypeOK
  BY TypeInitial
<1>2. \A w \in Workers : ~Busy(w)
  BY DEF Init, Busy
<1>3. OneQueue
  BY <1>2 DEF Init, OneQueue, RealMax, Default
<1>4. Len(metas) = 0 /\ Len(tasks) = 0
  BY EmptySeq DEF Init
<1>5. MetasMirrorQueue
  BY <1>2, <1>4, MirrorIdle
<1> QED
  BY <1>1, <1>3, <1>5 DEF DefaultInv

\* With one queue and one worker slot, a worker takes a task from an idle queue.
LEMMA TakenFromIdle ==
    ASSUME DefaultInv, NEW w \in Workers, TakeTask(w)
    PROVE  \A v \in Workers : ~Busy(v)
<1>1. IsFiniteSet(Running)
  BY FS_Subset, ConstAssumption DEF Running
<1>2. Cardinality(Running) \in Nat /\ Cardinality(Running) < 1
  BY <1>1, FS_CardinalityType DEF TakeTask, DefaultInv, OneQueue
<1>3. Running = {}
  BY <1>1, <1>2, FS_EmptySet
<1> QED
  BY <1>3 DEF Running, DefaultInv, OneQueue

\* The common part of TakeTask and EndDelay: the task that begins has the first
\* meta of all, which becomes "processing".
LEMMA BeginFirst ==
    ASSUME DefaultInv, NEW w \in Workers, NEW task \in Task,
           Begin(w, task, FALSE), metas # <<>>, metas[1].id = task.id
    PROVE  /\ Len(metas') = Len(metas)
           /\ \A i \in 2 .. Len(metas) : metas'[i] = metas[i]
           /\ metas'[1].id = task.id /\ metas'[1].state = "processing"
           /\ Busy(w)' /\ Working(w)'
           /\ worker'[w].task = task /\ worker'[w].index = 1 /\ ~worker'[w].detached
           /\ \A v \in Workers \ {w} : worker'[v] = worker[v]
<1>1. FirstMeta(task.id) = 1 /\ metas \in Seq(Meta) /\ worker \in [Workers -> Job \cup {Idle}]
  BY FirstMetaFinds DEF DefaultInv, TypeOK
<1>2. PICK pc \in {"refreshing", "handling"} :
        worker' = [worker EXCEPT ![w] =
            [pc |-> pc, task |-> task, index |-> 1, detached |-> FALSE]]
  BY <1>1 DEF Begin
<1>3. [pc |-> pc, task |-> task, index |-> 1, detached |-> FALSE] \in Job
  BY DEF Job
<1>4. worker'[w] = [pc |-> pc, task |-> task, index |-> 1, detached |-> FALSE]
  BY <1>1, <1>2
<1>5. Busy(w)' /\ Working(w)'
  <2>1. worker'[w] \in Job /\ worker'[w].pc # "delaying"
    BY <1>3, <1>4
  <2> QED
    BY <2>1, IdleAssumption DEF Busy, Working
<1>6. metas' = [metas EXCEPT ![1].state = "processing"]
  BY <1>1 DEF Begin
<1>7. 1 \in 1 .. Len(metas) /\ metas[1] \in Meta
  BY <1>1, EmptySeq, ElementOfSeq
<1>8. [metas[1] EXCEPT !.state = "processing"] \in Meta
  BY <1>7 DEF Meta
<1>9. /\ Len(metas') = Len(metas)
      /\ \A i \in 2 .. Len(metas) : metas'[i] = metas[i]
      /\ metas'[1] = [metas[1] EXCEPT !.state = "processing"]
  BY <1>1, <1>6, <1>7, <1>8, ExceptSeq
<1>10. metas'[1].id = task.id /\ metas'[1].state = "processing"
  BY <1>7, <1>9 DEF Meta
<1> QED
  BY <1>1, <1>2, <1>4, <1>5, <1>9, <1>10

LEMMA TakeTaskMirrors ==
    ASSUME DefaultInv, NEW w \in Workers, TakeTask(w)
    PROVE  OneQueue' /\ MetasMirrorQueue'
<1>1. \A v \in Workers : ~Busy(v)
  BY TakenFromIdle
<1>2. metas \in Seq(Meta) /\ tasks \in Seq(Task) /\ tasks # <<>> /\ tasks' = Tail(tasks)
      /\ worker \in [Workers -> Job \cup {Idle}]
  BY DEF TakeTask, DefaultInv, TypeOK
<1>3. /\ Len(metas) \in Nat /\ Len(tasks) \in Nat /\ Len(tasks) >= 1
      /\ Head(tasks) = tasks[1] /\ tasks[1] \in Task
      /\ Len(tasks') = Len(tasks) - 1
      /\ \A i \in 1 .. Len(tasks') : tasks'[i] = tasks[i + 1]
  BY <1>2, LenProperties, EmptySeq, HeadTailProperties, ElementOfSeq
<1>4. /\ Len(metas) = Len(tasks)
      /\ \A i \in 1 .. Len(tasks) : metas[i].id = tasks[i].id /\ metas[i].state = "queued"
  BY <1>1, <1>3, MirrorIdle DEF DefaultInv
<1>5. concurrency' = 1
  BY DEF TakeTask, DefaultInv, OneQueue
<1>6. CASE delayBy
  <2> DEFINE job == [pc |-> "delaying", task |-> tasks[1], index |-> 0, detached |-> FALSE]
  <2>1. job \in Job
    BY <1>3 DEF Job
  <2>2. worker' = [worker EXCEPT ![w] = job] /\ metas' = metas
    BY <1>3, <1>6 DEF TakeTask
  <2>3. worker'[w] = job /\ \A v \in Workers \ {w} : worker'[v] = worker[v]
    BY <1>2, <2>2
  <2>4. Busy(w)' /\ ~Working(w)' /\ \A v \in Workers \ {w} : ~Busy(v)'
    <3>1. worker'[w] \in Job /\ worker'[w].pc = "delaying"
      BY <2>1, <2>3
    <3> HIDE DEF job
    <3> QED
      BY <1>1, <2>3, <3>1, IdleAssumption DEF Busy, Working
  <2>5. OneQueue'
    BY <1>5, <2>3, <2>4 DEF OneQueue
  <2>6. /\ Len(metas') = 1 + Len(tasks')
        /\ \A i \in 1 .. Len(tasks') :
              metas'[1 + i].id = tasks'[i].id /\ metas'[1 + i].state = "queued"
        /\ metas'[1].id = worker'[w].task.id /\ metas'[1].state = "queued"
    BY <1>3, <1>4, <2>2, <2>3
  <2>7. MetasMirrorQueue'
    BY <2>4, <2>6 DEF MetasMirrorQueue
  <2> QED
    BY <2>5, <2>7
<1>7. CASE ~delayBy
  <2>1. Begin(w, Head(tasks), FALSE)
    BY <1>7 DEF TakeTask
  <2>9. metas # <<>> /\ metas[1].id = Head(tasks).id /\ Head(tasks) \in Task
    BY <1>2, <1>3, <1>4, EmptySeq
  <2>2. /\ Len(metas') = Len(metas)
        /\ \A i \in 2 .. Len(metas) : metas'[i] = metas[i]
        /\ metas'[1].id = tasks[1].id /\ metas'[1].state = "processing"
        /\ Busy(w)' /\ Working(w)'
        /\ worker'[w].task = tasks[1] /\ worker'[w].index = 1 /\ ~worker'[w].detached
        /\ \A v \in Workers \ {w} : worker'[v] = worker[v]
    BY <1>3, <2>1, <2>9, BeginFirst
  <2>3. \A v \in Workers \ {w} : ~Busy(v)'
    BY <1>1, <2>2 DEF Busy
  <2>4. OneQueue'
    BY <1>5, <2>2, <2>3 DEF OneQueue
  <2>5. \A i \in 1 .. Len(tasks') :
            metas'[1 + i].id = tasks'[i].id /\ metas'[1 + i].state = "queued"
    <3>1. TAKE i \in 1 .. Len(tasks')
    <3>2. i + 1 \in 2 .. Len(metas) /\ i + 1 \in 1 .. Len(tasks) /\ 1 + i = i + 1
      BY <1>3, <1>4
    <3> QED
      BY <1>3, <1>4, <2>2, <3>2
  <2>6. MetasMirrorQueue'
    BY <1>3, <1>4, <2>2, <2>3, <2>5 DEF MetasMirrorQueue
  <2> QED
    BY <2>4, <2>6
<1> QED
  BY <1>6, <1>7

\* While a worker is busy it is the only one, and its task has the first meta.
LEMMA BusyFirst ==
    ASSUME DefaultInv, NEW w \in Workers, Busy(w)
    PROVE  /\ worker[w] \in Job /\ ~worker[w].detached
           /\ \A v \in Workers \ {w} : ~Busy(v)
           /\ Len(metas) = 1 + Len(tasks) /\ Len(tasks) \in Nat /\ metas # <<>>
           /\ \A i \in 1 .. Len(tasks) :
                 metas[1 + i].id = tasks[i].id /\ metas[1 + i].state = "queued"
           /\ metas[1].id = worker[w].task.id
           /\ metas[1].state = IF Working(w) THEN "processing" ELSE "queued"
           /\ Working(w) => worker[w].index = 1
<1>1. worker[w] \in Job /\ ~worker[w].detached
  BY DEF DefaultInv, TypeOK, OneQueue, Busy
<1>2. \A v \in Workers \ {w} : ~Busy(v)
  BY DEF DefaultInv, MetasMirrorQueue
<1>3. Len(tasks) \in Nat
  BY LenProperties DEF DefaultInv, TypeOK
<1>4. MetasMirrorQueue
  BY DEF DefaultInv
<1>5. Len(metas) = 1 + Len(tasks)
  BY <1>2, <1>4, MirrorBusy
<1>6. metas # <<>>
  BY <1>3, <1>5, EmptySeq
<1> QED
  BY <1>1, <1>2, <1>3, <1>4, <1>5, <1>6, MirrorBusy

LEMMA EndDelayMirrors ==
    ASSUME DefaultInv, NEW w \in Workers, EndDelay(w)
    PROVE  OneQueue' /\ MetasMirrorQueue'
<1>1. Busy(w) /\ Begin(w, worker[w].task, worker[w].detached) /\ tasks' = tasks
      /\ concurrency' = 1
  BY DEF EndDelay, DefaultInv, OneQueue
<1>2. worker[w].task \in Task /\ worker[w].detached = FALSE
  BY <1>1, BusyFirst DEF Job
<1>3. Begin(w, worker[w].task, FALSE)
  BY <1>1, <1>2 DEF Begin
<1>4. /\ Len(metas') = Len(metas)
      /\ \A i \in 2 .. Len(metas) : metas'[i] = metas[i]
      /\ metas'[1].id = worker[w].task.id /\ metas'[1].state = "processing"
      /\ Busy(w)' /\ Working(w)'
      /\ worker'[w].task = worker[w].task /\ worker'[w].index = 1 /\ ~worker'[w].detached
      /\ \A v \in Workers \ {w} : worker'[v] = worker[v]
  BY <1>1, <1>2, <1>3, BusyFirst, BeginFirst
<1>5. \A v \in Workers \ {w} : ~Busy(v)'
  BY <1>1, <1>4, BusyFirst DEF Busy
<1>6. OneQueue'
  BY <1>1, <1>4, <1>5 DEF OneQueue
<1>7. \A i \in 1 .. Len(tasks') :
          metas'[1 + i].id = tasks'[i].id /\ metas'[1 + i].state = "queued"
  BY <1>1, <1>4, BusyFirst
<1>8. MetasMirrorQueue'
  BY <1>1, <1>4, <1>5, <1>7, BusyFirst DEF MetasMirrorQueue
<1> QED
  BY <1>6, <1>8

LEMMA RefreshMirrors ==
    ASSUME DefaultInv, NEW w \in Workers, Refresh(w)
    PROVE  OneQueue' /\ MetasMirrorQueue'
<1>1. Busy(w) /\ worker[w].pc = "refreshing" /\ tasks' = tasks /\ metas' = metas
      /\ concurrency' = 1
  BY DEF Refresh, DefaultInv, OneQueue
<1>2. worker' = [worker EXCEPT ![w] = [worker[w] EXCEPT !.pc = "handling"]]
      /\ worker \in [Workers -> Job \cup {Idle}]
  BY DEF Refresh, DefaultInv, TypeOK
<1>3. worker'[w] = [worker[w] EXCEPT !.pc = "handling"]
      /\ \A v \in Workers \ {w} : worker'[v] = worker[v]
  BY <1>2
<1>4. /\ worker'[w] \in Job /\ worker'[w].pc = "handling"
      /\ worker'[w].task = worker[w].task /\ worker'[w].index = worker[w].index
      /\ ~worker'[w].detached
  BY <1>1, <1>3, BusyFirst DEF Job
<1>5. Working(w) /\ Busy(w)' /\ Working(w)' /\ \A v \in Workers \ {w} : ~Busy(v)'
  BY <1>1, <1>3, <1>4, BusyFirst, IdleAssumption DEF Busy, Working
<1>6. OneQueue'
  BY <1>1, <1>4, <1>5 DEF OneQueue
<1>7. MetasMirrorQueue'
  BY <1>1, <1>4, <1>5, BusyFirst DEF MetasMirrorQueue
<1> QED
  BY <1>6, <1>7

\* The finally block removes the first meta: that of the task that ends.
LEMMA ReleaseMirrors ==
    ASSUME DefaultInv, NEW w \in Workers, Busy(w), worker[w].pc # "delaying", Release(w)
    PROVE  OneQueue' /\ MetasMirrorQueue'
<1>1. Working(w) /\ worker[w].index = 1
  BY BusyFirst DEF Working
<1>2. /\ metas' = Spliced(metas, 1) /\ tasks' = tasks /\ concurrency' = 1
      /\ worker' = [worker EXCEPT ![w] = Idle]
      /\ worker \in [Workers -> Job \cup {Idle}] /\ metas \in Seq(Meta)
  BY <1>1 DEF Release, DefaultInv, OneQueue, TypeOK
<1>3. \A v \in Workers : ~Busy(v)'
  BY <1>2, BusyFirst DEF Busy
<1>4. metas' = Tail(metas)
  BY <1>2, BusyFirst, SplicedFirst
<1>5. Len(metas') = Len(metas) - 1 /\ \A i \in 1 .. Len(metas') : metas'[i] = metas[i + 1]
  <2>1. metas \in Seq(Meta) /\ metas # <<>>
    BY <1>2, BusyFirst
  <2> QED
    BY <1>4, <2>1, HeadTailProperties
<1>6. /\ Len(metas') = Len(tasks')
      /\ \A i \in 1 .. Len(tasks') :
            metas'[i].id = tasks'[i].id /\ metas'[i].state = "queued"
  <2>1. Len(metas') = Len(tasks')
    BY <1>2, <1>5, BusyFirst
  <2>2. ASSUME NEW i \in 1 .. Len(tasks')
        PROVE  metas'[i].id = tasks'[i].id /\ metas'[i].state = "queued"
    <3>1. i \in 1 .. Len(tasks) /\ metas'[i] = metas[1 + i]
      BY <1>2, <1>5, <2>1, BusyFirst
    <3> QED
      BY <1>2, <3>1, BusyFirst
  <2> QED
    BY <2>1, <2>2
<1>7. MetasMirrorQueue'
  <2>1. Len(tasks') \in Nat /\ \A i \in 1 .. Len(tasks') : 0 + i = i
    BY <1>2, BusyFirst
  <2> QED
    BY <1>3, <1>6, <2>1 DEF MetasMirrorQueue
<1> QED
  BY <1>2, <1>3, <1>7 DEF OneQueue

\* The firehose flags a meta or appends a meta together with its task.
LEMMA FirehoseMirrors ==
    ASSUME DefaultInv, Firehose
    PROVE  OneQueue' /\ MetasMirrorQueue'
<1> DEFINE task == Head(firehose)
           last == LastMeta(task.id)
           n == IF \E w \in Workers : Busy(w) THEN 1 ELSE 0
<1>1. /\ worker' = worker /\ concurrency' = concurrency /\ OneQueue
      /\ metas \in Seq(Meta) /\ tasks \in Seq(Task) /\ task \in Task
      /\ Len(metas) \in Nat /\ Len(tasks) \in Nat
  BY HeadTailProperties, LenProperties DEF Firehose, DefaultInv, TypeOK
<1>2. OneQueue'
  BY <1>1 DEF OneQueue, Busy
<1>3. /\ Len(metas) = n + Len(tasks) /\ n \in {0, 1}
      /\ \A i \in 1 .. Len(tasks) :
            metas[n + i].id = tasks[i].id /\ metas[n + i].state = "queued"
      /\ \A w \in Workers : Busy(w) =>
            /\ metas[1].id = worker[w].task.id
            /\ metas[1].state = IF Working(w) THEN "processing" ELSE "queued"
            /\ Working(w) => worker[w].index = 1
      /\ \A v, w \in Workers : Busy(v) /\ Busy(w) => v = w
  BY DEF DefaultInv, MetasMirrorQueue
<1>4. \A w \in Workers : Busy(w) => n = 1
  OBVIOUS
<1>5. SUFFICES /\ Len(metas') = n + Len(tasks')
               /\ \A i \in 1 .. Len(tasks') :
                     metas'[n + i].id = tasks'[i].id /\ metas'[n + i].state = "queued"
               /\ n = 1 => metas'[1].id = metas[1].id /\ metas'[1].state = metas[1].state
  BY <1>1, <1>2, <1>3, <1>4 DEF MetasMirrorQueue, Busy, Working
<1>6. CASE AlreadyQueued(last)
  <2>1. last \in 1 .. Len(metas)
    BY <1>1, <1>6, LastMetaFinds DEF AlreadyQueued
  <2>2. metas' = [metas EXCEPT ![last].shouldRefresh = TRUE] /\ tasks' = tasks
    BY <1>6 DEF Firehose, Flagged
  <2>3. \A i \in 1 .. Len(metas) : metas[i] \in Meta
    BY <1>1, ElementOfSeq
  <2>4. Len(metas') = Len(metas)
    <3>1. [metas[last] EXCEPT !.shouldRefresh = TRUE] \in Meta
      BY <2>1, <2>3 DEF Meta
    <3> HIDE DEF last
    <3> QED
      BY <1>1, <2>1, <2>2, <3>1, ExceptSeq
  <2>5. \A i \in 1 .. Len(metas) :
            metas'[i].id = metas[i].id /\ metas'[i].state = metas[i].state
    <3> HIDE DEF last
    <3> QED
      BY <1>1, <2>2, <2>3 DEF Meta
  <2>6. \A i \in 1 .. Len(tasks) : n + i \in 1 .. Len(metas)
    BY <1>1, <1>3
  <2> HIDE DEF n, last, task
  <2>7. n = 1 => 1 \in 1 .. Len(metas)
    BY <1>1, <1>3
  <2> QED
    BY <1>3, <2>2, <2>4, <2>5, <2>6, <2>7
<1>7. CASE ~AlreadyQueued(last)
  <2> DEFINE meta == NewMeta(task.id, last # 0)
  <2>1. meta \in Meta /\ meta.id = task.id /\ meta.state = "queued"
    BY <1>1 DEF Meta, Task, NewMeta
  <2>2. metas' = Append(metas, meta) /\ tasks' = Append(tasks, task)
    BY <1>7 DEF Firehose
  <2> HIDE DEF meta, n, last, task
  <2>3. /\ Len(metas') = Len(metas) + 1 /\ Len(tasks') = Len(tasks) + 1
        /\ \A i \in 1 .. Len(metas) : metas'[i] = metas[i]
        /\ \A i \in 1 .. Len(tasks) : tasks'[i] = tasks[i]
        /\ metas'[Len(metas) + 1] = meta /\ tasks'[Len(tasks) + 1] = task
    BY <1>1, <2>1, <2>2, AppendProperties
  <2>4. Len(metas') = n + Len(tasks')
    BY <1>1, <1>3, <2>3
  <2>5. ASSUME NEW i \in 1 .. Len(tasks')
        PROVE  metas'[n + i].id = tasks'[i].id /\ metas'[n + i].state = "queued"
    <3>1. CASE i \in 1 .. Len(tasks)
      <4>1. n + i \in 1 .. Len(metas)
        BY <1>1, <1>3, <3>1
      <4> QED
        BY <1>3, <2>3, <3>1, <4>1
    <3>2. CASE i = Len(tasks) + 1
      <4>1. n + i = Len(metas) + 1
        BY <1>1, <1>3, <3>2
      <4> QED
        BY <2>1, <2>3, <3>2, <4>1
    <3> QED
      BY <1>1, <2>3, <3>1, <3>2
  <2>6. n = 1 => metas'[1] = metas[1]
    BY <1>1, <1>3, <2>3
  <2> QED
    BY <2>4, <2>5, <2>6
<1> QED
  BY <1>6, <1>7

\* A step that leaves metas, tasks, workers and concurrency alone.
LEMMA FrameMirrors ==
    ASSUME DefaultInv, UNCHANGED <<metas, tasks, worker, concurrency>>
    PROVE  OneQueue' /\ MetasMirrorQueue'
BY DEF DefaultInv, OneQueue, MetasMirrorQueue, Busy, Working

LEMMA OperationMirrors ==
    ASSUME Default, DefaultInv, Operation
    PROVE  OneQueue' /\ MetasMirrorQueue'
<1>1. CASE SetDelay \/ StartQueue \/ PauseQueueDone \/ UpdatePauseDone
  BY <1>1, FrameMirrors DEF SetDelay, StartQueue, PauseQueueDone, UpdatePauseDone
<1>2. CASE PauseQueue \/ StopQueue \/ UpdateConfig
  BY <1>2, FrameMirrors DEF PauseQueue, StopQueue, UpdateConfig
<1>3. CASE StopQueueDone
  <2>1. Running = {} /\ metas' = <<>> /\ tasks' = <<>> /\ worker' = worker
        /\ concurrency' = concurrency
    BY <1>3 DEF StopQueueDone, Default
  <2>2. \A w \in Workers : ~Busy(w)'
    BY <2>1 DEF Running, Busy, DefaultInv, OneQueue
  <2>3. Len(metas') = 0 /\ Len(tasks') = 0
    BY <2>1, EmptySeq
  <2> QED
    BY <2>1, <2>2, <2>3 DEF MetasMirrorQueue, OneQueue, DefaultInv
<1>4. ASSUME NEW n \in ConfigWorkers, Regenerate(n) PROVE OneQueue' /\ MetasMirrorQueue'
  <2>1. RealMax(n) = 1 /\ concurrency = 1
    BY ConstAssumption DEF RealMax, Default, DefaultInv, OneQueue
  <2> QED
    BY <1>4, <2>1, FrameMirrors DEF Regenerate
<1> QED
  BY <1>1, <1>2, <1>3, <1>4 DEF Operation

LEMMA DefaultInductive ==
    ASSUME Default
    PROVE  DefaultInv /\ [Next]_vars => DefaultInv'
<1> SUFFICES ASSUME DefaultInv, [Next]_vars PROVE DefaultInv'
  OBVIOUS
<1>1. TypeOK'
  BY TypeInductive DEF DefaultInv
<1>2. CASE Environment \/ UNCHANGED vars
  <2>1. UNCHANGED <<metas, tasks, worker, concurrency>>
    BY <1>2 DEF Environment, Edit, Ingest, vars
  <2> QED
    BY <1>1, <2>1, FrameMirrors DEF DefaultInv
<1>3. CASE Firehose
  BY <1>1, <1>3, FirehoseMirrors DEF DefaultInv
<1>4. ASSUME NEW w \in Workers, WorkerStep(w) PROVE DefaultInv'
  <2>1. CASE RefreshFails(w) \/ Finish(w)
    <3>1. Busy(w) /\ worker[w].pc # "delaying" /\ Release(w)
      BY <2>1 DEF RefreshFails, Finish
    <3> QED
      BY <1>1, <3>1, ReleaseMirrors DEF DefaultInv
  <2> QED
    BY <1>1, <1>4, <2>1, TakeTaskMirrors, EndDelayMirrors, RefreshMirrors
       DEF WorkerStep, DefaultInv
<1>5. CASE Operation
  BY <1>1, <1>5, OperationMirrors DEF DefaultInv
<1> QED
  BY <1>2, <1>3, <1>4, <1>5 DEF Next

\* In the default manager queuedItemsMeta is exactly the task being processed
\* followed by the queue's waiting tasks, whatever arrives and however the queue
\* is started, paused, stopped and reconfigured (Manager.ts, generateFirehose
\* and generateQueue): the index found before the await is still right after it.
THEOREM MirrorCorrect ==
    ASSUME Default
    PROVE  Spec => []MetasMirrorQueue
<1>1. Init => DefaultInv
  BY DefaultInitial
<1>2. DefaultInv /\ [Next]_vars => DefaultInv'
  BY DefaultInductive
<1>3. DefaultInv => MetasMirrorQueue
  BY DEF DefaultInv
<1> QED
  BY <1>1, <1>2, <1>3, PTL DEF Spec

(***************************************************************************)
(* Nothing that the default manager accepted is lost.                      *)
(***************************************************************************)

\* No task in the firehose and nothing owed is newer than what Reddit has.
NoneFromFuture ==
    /\ \A i \in 1 .. Len(firehose) : firehose[i].data <= reddit[firehose[i].id]
    /\ \A a \in Activities : owed[a] <= reddit[a]

\* A meta that makes the task it was made for fetch the activity again.
Flags(meta, a) == meta = [id |-> a, shouldRefresh |-> TRUE, state |-> "queued"]

\* The waiting tasks are those of the queue and the one a worker delays.
LEMMA UnstartedMembers ==
    ASSUME tasks \in Seq(Task), NEW task
    PROVE  task \in Unstarted <=> \/ \E i \in 1 .. Len(tasks) : tasks[i] = task
                                  \/ \E v \in Workers : Busy(v) /\ ~Working(v) /\ worker[v].task = task
<1>1. DOMAIN tasks = 1 .. Len(tasks)
  BY LenProperties
<1> QED
  BY <1>1 DEF Unstarted, Range

\* Each meta that waits stands for a waiting task of its activity.
QueuedHaveTasks ==
    \A i \in 1 .. Len(metas) : metas[i].state = "queued" => \E task \in Unstarted : task.id = metas[i].id

LEMMA QueuedHaveTasksInv == DefaultInv => QueuedHaveTasks
<1> SUFFICES ASSUME DefaultInv, NEW i \in 1 .. Len(metas), metas[i].state = "queued"
             PROVE  \E task \in Unstarted : task.id = metas[i].id
  BY DEF QueuedHaveTasks
<1> DEFINE n == IF \E w \in Workers : Busy(w) THEN 1 ELSE 0
<1>1. tasks \in Seq(Task) /\ metas \in Seq(Meta) /\ Len(tasks) \in Nat /\ Len(metas) \in Nat
  BY LenProperties DEF DefaultInv, TypeOK
<1>2. /\ Len(metas) = n + Len(tasks) /\ n \in {0, 1}
      /\ \A j \in 1 .. Len(tasks) : metas[n + j].id = tasks[j].id
      /\ \A w \in Workers : Busy(w) =>
            /\ metas[1].id = worker[w].task.id
            /\ metas[1].state = IF Working(w) THEN "processing" ELSE "queued"
  BY DEF DefaultInv, MetasMirrorQueue
<1>3. CASE i = 1 /\ n = 1
  <2>1. PICK w \in Workers : Busy(w)
    BY <1>3
  <2>2. ~Working(w) /\ worker[w].task.id = metas[1].id
    BY <1>2, <1>3, <2>1
  <2> QED
    BY <1>1, <1>3, <2>1, <2>2, UnstartedMembers
<1>4. CASE ~(i = 1 /\ n = 1)
  <2> DEFINE j == i - n
  <2>1. j \in 1 .. Len(tasks) /\ n + j = i
    BY <1>1, <1>2, <1>4
  <2>2. tasks[j].id = metas[i].id
    <3> HIDE DEF n
    <3> QED
      BY <1>2, <2>1
  <2> QED
    BY <1>1, <2>1, <2>2, UnstartedMembers
<1> QED
  BY <1>3, <1>4

\* A worker begins a task: it fetches its activity, or uses data that are new
\* enough, or the activity has another task that a flagged meta stands for.
LEMMA BeginFresh ==
    ASSUME DefaultInv, DefaultInv', NoneLost, NEW w \in Workers, NEW task \in Task,
           Begin(w, task, FALSE), metas # <<>>, metas[1].id = task.id,
           \A v \in Workers : Busy(v) => ~Working(v),
           \A t \in Unstarted : t = task \/ t \in Unstarted'
    PROVE  NoneLost'
<1>1. /\ metas \in Seq(Meta) /\ metas' \in Seq(Meta) /\ Len(metas) \in Nat
      /\ owed \in [Activities -> 0 .. MaxVersion] /\ worker \in [Workers -> Job \cup {Idle}]
      /\ task.id \in Activities /\ task.data \in Nat
  BY LenProperties DEF DefaultInv, TypeOK, Task, Versions
<1>2. /\ Len(metas') = Len(metas)
      /\ \A i \in 2 .. Len(metas) : metas'[i] = metas[i]
      /\ Busy(w)'
  BY BeginFirst
<1>3. FirstMeta(task.id) = 1
  BY <1>1, FirstMetaFinds
<1> DEFINE refresh == task.refresh \/ metas[1].shouldRefresh
<1>4. /\ worker'[w].task = task
      /\ refresh => worker'[w].pc = "refreshing" /\ owed' = owed
      /\ ~refresh => owed' = Repaid(task.id, task.data)
  <2>1. worker' = [worker EXCEPT ![w] =
                      [pc |-> IF refresh THEN "refreshing" ELSE "handling",
                       task |-> task, index |-> 1, detached |-> FALSE]]
        /\ owed' = IF refresh THEN owed ELSE Repaid(task.id, task.data)
    BY <1>3 DEF Begin
  <2> HIDE DEF refresh
  <2> QED
    BY <1>1, <2>1
<1>5. QueuedHaveTasks'
  BY QueuedHaveTasksInv, PTL
<1>6. ASSUME NEW i \in 2 .. Len(metas), NEW a, Flags(metas[i], a)
      PROVE  \E t \in Unstarted' : t.id = a /\ WillBeFresh(t)'
  <2>1. i \in 1 .. Len(metas') /\ Flags(metas'[i], a)
    BY <1>1, <1>2, <1>6
  <2>2. PICK t \in Unstarted' : t.id = a
    BY <1>5, <2>1 DEF QueuedHaveTasks, Flags
  <2> QED
    BY <2>1, <2>2 DEF WillBeFresh, Flags
<1>7. ASSUME NEW t \in Unstarted, NEW a \in Activities, t.id = a, WillBeFresh(t),
             owed'[a] = owed[a],
             \A i \in 1 .. Len(metas) : Flags(metas[i], a) => i # 1,
             t = task => ~task.refresh /\ ~(task.data >= owed[a])
      PROVE  \E u \in Unstarted' : u.id = a /\ WillBeFresh(u)'
  <2>1. CASE \E i \in 1 .. Len(metas) : Flags(metas[i], a)
    <3>1. PICK i \in 2 .. Len(metas) : Flags(metas[i], a)
      BY <1>1, <1>7, <2>1
    <3> QED
      BY <1>6, <3>1
  <2>2. CASE ~\E i \in 1 .. Len(metas) : Flags(metas[i], a)
    <3>1. t.refresh \/ t.data >= owed[a]
      BY <1>7, <2>2 DEF WillBeFresh, Flags
    <3>2. t \in Unstarted'
      BY <1>7, <3>1
    <3>3. WillBeFresh(t)'
      BY <1>7, <3>1 DEF WillBeFresh
    <3> QED
      BY <1>7, <3>2, <3>3
  <2> QED
    BY <2>1, <2>2
<1> HIDE DEF refresh
<1> SUFFICES ASSUME NEW a \in Activities, owed'[a] > 0
             PROVE  \/ \E t \in Unstarted' : t.id = a /\ WillBeFresh(t)'
                    \/ \E v \in Workers : Busy(v)' /\ worker'[v].pc = "refreshing" /\ worker'[v].task.id = a
  BY DEF NoneLost
<1>8. CASE a = task.id /\ refresh
  BY <1>2, <1>4, <1>8
<1>9. CASE ~(a = task.id /\ refresh)
  <2>1. owed'[a] = owed[a] /\ (a = task.id => ~(task.data >= owed[a]))
    BY <1>1, <1>4, <1>9 DEF Repaid
  <2>2. PICK t \in Unstarted : t.id = a /\ WillBeFresh(t)
    <3>1. ~\E v \in Workers : Busy(v) /\ worker[v].pc = "refreshing" /\ worker[v].task.id = a
      BY DEF Working
    <3> QED
      BY <2>1, <3>1 DEF NoneLost
  <2>3. \A i \in 1 .. Len(metas) : Flags(metas[i], a) => i # 1
    <3>1. a = task.id => ~metas[1].shouldRefresh
      BY <1>9 DEF refresh
    <3> QED
      BY <3>1 DEF Flags
  <2>4. t = task => ~task.refresh /\ ~(task.data >= owed[a])
    BY <1>9, <2>1, <2>2 DEF refresh
  <2> QED
    BY <1>7, <2>1, <2>2, <2>3, <2>4
<1> QED
  BY <1>8, <1>9

\* A step that keeps the waiting tasks and the flagged metas loses no activity
\* that it does not use, if the workers that fetch it go on.
LEMMA KeptFresh ==
    ASSUME NoneLost,
           \A t \in Unstarted : t \in Unstarted',
           \A i \in 1 .. Len(metas), b \in Activities :
               Flags(metas[i], b) => \E j \in 1 .. Len(metas') : Flags(metas'[j], b),
           NEW a \in Activities, owed'[a] = owed[a], owed[a] > 0,
           \A w \in Workers : Busy(w) /\ worker[w].pc = "refreshing" /\ worker[w].task.id = a
                                  => worker'[w] = worker[w]
    PROVE  \/ \E t \in Unstarted' : t.id = a /\ WillBeFresh(t)'
           \/ \E w \in Workers : Busy(w)' /\ worker'[w].pc = "refreshing" /\ worker'[w].task.id = a
<1>1. CASE \E w \in Workers : Busy(w) /\ worker[w].pc = "refreshing" /\ worker[w].task.id = a
  BY <1>1 DEF Busy
<1>2. CASE \E t \in Unstarted : t.id = a /\ WillBeFresh(t)
  <2>1. PICK t \in Unstarted : t.id = a /\ WillBeFresh(t)
    BY <1>2
  <2>2. WillBeFresh(t)'
    <3>1. CASE t.refresh \/ t.data >= owed[a]
      BY <2>1, <3>1 DEF WillBeFresh
    <3>2. CASE \E i \in 1 .. Len(metas) : Flags(metas[i], a)
      <4>1. PICK j \in 1 .. Len(metas') : Flags(metas'[j], a)
        BY <3>2
      <4> QED
        BY <2>1, <4>1 DEF WillBeFresh, Flags
    <3> QED
      BY <2>1, <3>1, <3>2 DEF WillBeFresh, Flags
  <2> QED
    BY <2>1, <2>2
<1> QED
  BY <1>1, <1>2 DEF NoneLost

\* The waiting tasks are kept while the queue and the delayed workers are.
LEMMA KeptUnstarted ==
    ASSUME tasks' = tasks,
           \A w \in Workers : Busy(w) /\ ~Working(w) => worker'[w] = worker[w]
    PROVE  \A t \in Unstarted : t \in Unstarted'
<1>1. \A w \in Workers : Busy(w) /\ ~Working(w) =>
          Busy(w)' /\ ~Working(w)' /\ worker'[w].task = worker[w].task
  BY DEF Busy, Working
<1> QED
  BY <1>1 DEF Unstarted

LEMMA TakeTaskFresh ==
    ASSUME DefaultInv, DefaultInv', NoneLost, NEW w \in Workers, TakeTask(w)
    PROVE  NoneLost'
<1>1. \A v \in Workers : ~Busy(v)
  BY TakenFromIdle
<1>2. metas \in Seq(Meta) /\ tasks \in Seq(Task) /\ tasks # <<>> /\ tasks' = Tail(tasks)
      /\ tasks' \in Seq(Task) /\ worker \in [Workers -> Job \cup {Idle}]
  BY DEF TakeTask, DefaultInv, DefaultInv, TypeOK
<1>3. /\ Len(metas) \in Nat /\ Len(tasks) \in Nat /\ Len(tasks) >= 1
      /\ Head(tasks) = tasks[1] /\ tasks[1] \in Task
      /\ Len(tasks') = Len(tasks) - 1
      /\ \A i \in 1 .. Len(tasks') : tasks'[i] = tasks[i + 1]
  BY <1>2, LenProperties, EmptySeq, HeadTailProperties, ElementOfSeq
<1>4. Len(metas) = Len(tasks) /\ metas[1].id = tasks[1].id /\ metas # <<>>
  BY <1>1, <1>2, <1>3, MirrorIdle, EmptySeq DEF DefaultInv
<1>5. ASSUME NEW i \in 2 .. Len(tasks) PROVE tasks[i] \in Unstarted'
  <2>1. i - 1 \in 1 .. Len(tasks') /\ tasks'[i - 1] = tasks[i] /\ DOMAIN tasks' = 1 .. Len(tasks')
    BY <1>2, <1>3, LenProperties
  <2> QED
    BY <2>1 DEF Unstarted, Range
<1>6. \A t \in Unstarted : t = tasks[1] \/ t \in Unstarted'
  <2>1. TAKE t \in Unstarted
  <2>2. PICK i \in 1 .. Len(tasks) : tasks[i] = t
    BY <1>1, <1>2, UnstartedMembers
  <2> QED
    BY <1>3, <1>5, <2>2
<1>7. CASE delayBy
  <2> DEFINE job == [pc |-> "delaying", task |-> tasks[1], index |-> 0, detached |-> FALSE]
  <2>1. job \in Job
    BY <1>3 DEF Job
  <2>2. worker' = [worker EXCEPT ![w] = job] /\ metas' = metas /\ owed' = owed
    BY <1>3, <1>7 DEF TakeTask
  <2>3. worker'[w] = job
    BY <1>2, <2>2
  <2>4. Busy(w)' /\ ~Working(w)' /\ worker'[w].task = tasks[1]
    <3>1. worker'[w] \in Job /\ worker'[w].pc = "delaying" /\ worker'[w].task = tasks[1]
      BY <2>1, <2>3
    <3> HIDE DEF job
    <3> QED
      BY <3>1, IdleAssumption DEF Busy, Working
  <2>5. tasks[1] \in Unstarted'
    BY <2>4 DEF Unstarted
  <2>6. \A t \in Unstarted : t \in Unstarted'
    BY <1>6, <2>5
  <2> QED
    BY <1>1, <2>2, <2>6, KeptFresh DEF NoneLost
<1>8. CASE ~delayBy
  <2>1. Begin(w, tasks[1], FALSE)
    BY <1>3, <1>8 DEF TakeTask
  <2> QED
    BY <1>1, <1>3, <1>4, <1>6, <2>1, BeginFresh
<1> QED
  BY <1>7, <1>8

LEMMA EndDelayFresh ==
    ASSUME DefaultInv, DefaultInv', NoneLost, NEW w \in Workers, EndDelay(w)
    PROVE  NoneLost'
<1>1. /\ Busy(w) /\ ~Working(w) /\ Begin(w, worker[w].task, worker[w].detached)
      /\ tasks' = tasks
  BY DEF EndDelay, Working
<1>2. worker[w].task \in Task /\ worker[w].detached = FALSE
  BY <1>1, BusyFirst DEF Job
<1> SUFFICES ASSUME NEW task \in Task, task = worker[w].task
             PROVE  NoneLost'
  BY <1>2
<1>3. Begin(w, task, FALSE)
  BY <1>1, <1>2 DEF Begin
<1>4. metas # <<>> /\ metas[1].id = task.id /\ \A v \in Workers \ {w} : ~Busy(v)
  BY <1>1, BusyFirst
<1>5. \A t \in Unstarted : t = task \/ t \in Unstarted'
  <2>1. TAKE t \in Unstarted
  <2>2. t \in Range(tasks) \/ t = task
    BY <1>4 DEF Unstarted
  <2> QED
    BY <1>1, <2>2 DEF Unstarted
<1>6. \A v \in Workers : Busy(v) => ~Working(v)
  BY <1>1, <1>4
<1> QED
  BY <1>3, <1>4, <1>5, <1>6, BeginFresh

\* Fetching an activity uses everything that was accepted of it.
LEMMA FetchRepays ==
    ASSUME DefaultInv, NoneFromFuture, NEW a \in Activities
    PROVE  /\ Repaid(a, reddit[a])[a] = 0
           /\ \A b \in Activities \ {a} : Repaid(a, reddit[a])[b] = owed[b]
<1>1. owed \in [Activities -> 0 .. MaxVersion] /\ reddit[a] >= owed[a]
  <2>1. owed[a] <= reddit[a] /\ owed[a] \in Nat /\ reddit[a] \in Nat
    BY DEF NoneFromFuture, DefaultInv, TypeOK, Versions
  <2> QED
    BY <2>1 DEF DefaultInv, TypeOK
<1> QED
  BY <1>1 DEF Repaid

LEMMA RefreshFresh ==
    ASSUME DefaultInv, NoneFromFuture, NoneLost, NEW w \in Workers, Refresh(w)
    PROVE  NoneLost'
<1> DEFINE a == worker[w].task.id
<1>1. Busy(w) /\ Working(w) /\ tasks' = tasks /\ metas' = metas
      /\ owed' = Repaid(a, reddit[a]) /\ a \in Activities
  BY BusyFirst DEF Refresh, Working, Job, Task
<1>2. \A v \in Workers \ {w} : worker'[v] = worker[v]
  BY DEF Refresh, DefaultInv, TypeOK
<1>3. \A t \in Unstarted : t \in Unstarted'
  BY <1>1, <1>2, KeptUnstarted
<1>4. owed'[a] = 0 /\ \A b \in Activities \ {a} : owed'[b] = owed[b]
  BY <1>1, FetchRepays
<1>5. SUFFICES ASSUME NEW b \in Activities, owed'[b] > 0
               PROVE  \/ \E t \in Unstarted' : t.id = b /\ WillBeFresh(t)'
                      \/ \E v \in Workers : Busy(v)' /\ worker'[v].pc = "refreshing" /\ worker'[v].task.id = b
  BY DEF NoneLost
<1>6. b # a /\ owed'[b] = owed[b] /\ owed[b] > 0
  BY <1>4, <1>5
<1>7. \A v \in Workers : Busy(v) /\ worker[v].pc = "refreshing" /\ worker[v].task.id = b
                             => worker'[v] = worker[v]
  BY <1>2, <1>6
<1> HIDE DEF a
<1> QED
  BY <1>1, <1>3, <1>6, <1>7, KeptFresh

\* The finally block removes the meta of the task that ends, which flags none.
LEMMA ReleaseFresh ==
    ASSUME DefaultInv, NoneLost, NEW w \in Workers, Busy(w), Working(w), Release(w),
           \A b \in Activities : owed'[b] > 0 =>
               /\ owed'[b] = owed[b]
               /\ ~(worker[w].pc = "refreshing" /\ worker[w].task.id = b)
    PROVE  NoneLost'
<1>1. /\ metas' = Spliced(metas, 1) /\ tasks' = tasks
      /\ worker' = [worker EXCEPT ![w] = Idle]
      /\ worker \in [Workers -> Job \cup {Idle}] /\ metas \in Seq(Meta)
      /\ Len(metas) \in Nat
  BY BusyFirst, LenProperties DEF Release, DefaultInv, TypeOK
<1>2. metas # <<>> /\ metas[1].state = "processing"
  BY BusyFirst
<1>3. metas' = Tail(metas)
  BY <1>1, <1>2, SplicedFirst
<1>4. Len(metas') = Len(metas) - 1 /\ \A i \in 1 .. Len(metas') : metas'[i] = metas[i + 1]
  BY <1>1, <1>2, <1>3, HeadTailProperties
<1>5. ASSUME NEW i \in 1 .. Len(metas), NEW b \in Activities, Flags(metas[i], b)
      PROVE  \E j \in 1 .. Len(metas') : Flags(metas'[j], b)
  <2>1. i # 1
    BY <1>2, <1>5 DEF Flags
  <2>2. i - 1 \in 1 .. Len(metas') /\ metas'[i - 1] = metas[i]
    BY <1>1, <1>4, <2>1
  <2> QED
    BY <1>5, <2>2
<1>6. \A v \in Workers \ {w} : worker'[v] = worker[v]
  BY <1>1
<1>7. \A t \in Unstarted : t \in Unstarted'
  BY <1>1, <1>6, KeptUnstarted
<1>8. SUFFICES ASSUME NEW b \in Activities, owed'[b] > 0
               PROVE  \/ \E t \in Unstarted' : t.id = b /\ WillBeFresh(t)'
                      \/ \E v \in Workers : Busy(v)' /\ worker'[v].pc = "refreshing" /\ worker'[v].task.id = b
  BY DEF NoneLost
<1>9. owed'[b] = owed[b] /\ owed[b] > 0
  BY <1>8
<1>10. \A v \in Workers : Busy(v) /\ worker[v].pc = "refreshing" /\ worker[v].task.id = b
                              => worker'[v] = worker[v]
  BY <1>6, <1>8
<1> QED
  BY <1>5, <1>7, <1>9, <1>10, KeptFresh

LEMMA EndFresh ==
    ASSUME DefaultInv, NoneFromFuture, NoneLost, NEW w \in Workers, RefreshFails(w) \/ Finish(w)
    PROVE  NoneLost'
<1>1. CASE Finish(w)
  BY <1>1, ReleaseFresh DEF Finish, Working
<1>2. CASE RefreshFails(w)
  <2>1. /\ Busy(w) /\ Working(w) /\ Release(w) /\ worker[w].task.id \in Activities
        /\ owed' = Repaid(worker[w].task.id, reddit[worker[w].task.id])
    BY <1>2, BusyFirst DEF RefreshFails, Working, Job, Task
  <2>2. /\ owed'[worker[w].task.id] = 0
        /\ \A b \in Activities \ {worker[w].task.id} : owed'[b] = owed[b]
    BY <2>1, FetchRepays
  <2> QED
    BY <2>1, <2>2, ReleaseFresh
<1> QED
  BY <1>1, <1>2

\* The firehose keeps a task for what it accepts: a waiting one, which a flagged
\* meta makes fetch the activity, or a new one with the data that it came with.
LEMMA FirehoseFresh ==
    ASSUME DefaultInv, NoneLost, Firehose
    PROVE  NoneLost'
<1>0. Head(firehose) \in Task
  BY HeadTailProperties DEF Firehose, DefaultInv, TypeOK
<1> SUFFICES ASSUME NEW task \in Task, task = Head(firehose)
             PROVE  NoneLost'
  BY <1>0
<1> DEFINE last == LastMeta(task.id)
<1>1. /\ worker' = worker /\ metas \in Seq(Meta) /\ tasks \in Seq(Task)
      /\ Len(metas) \in Nat /\ owed \in [Activities -> 0 .. MaxVersion]
      /\ task.id \in Activities /\ task.data \in Nat
  BY LenProperties DEF Firehose, DefaultInv, TypeOK, Task, Versions
<1>2. /\ owed'[task.id] = IF task.data > owed[task.id] THEN task.data ELSE owed[task.id]
      /\ \A b \in Activities \ {task.id} : owed'[b] = owed[b]
  BY <1>1 DEF Firehose
<1>3. CASE AlreadyQueued(last)
  <2>1. last \in 1 .. Len(metas) /\ metas[last].id = task.id /\ metas[last].state = "queued"
    BY <1>1, <1>3, LastMetaFinds DEF AlreadyQueued
  <2>2. metas' = [metas EXCEPT ![last].shouldRefresh = TRUE] /\ tasks' = tasks
    BY <1>3 DEF Firehose, Flagged
  <2>3. \A i \in 1 .. Len(metas) : metas[i] \in Meta
    BY <1>1, ElementOfSeq
  <2> HIDE DEF last
  <2> DEFINE meta == [metas[last] EXCEPT !.shouldRefresh = TRUE]
  <2>4. meta \in Meta /\ metas' = [metas EXCEPT ![last] = meta] /\ Flags(meta, task.id)
    <3>1. metas[last] \in Meta
      BY <2>1, <2>3
    <3>2. meta = [id |-> task.id, shouldRefresh |-> TRUE, state |-> "queued"]
      <4>1. /\ meta \in Meta /\ meta.id = task.id /\ meta.shouldRefresh = TRUE
            /\ meta.state = "queued"
        BY <2>1, <3>1 DEF Meta
      <4> HIDE DEF meta
      <4> QED
        BY <4>1 DEF Meta
    <3>3. meta \in Meta
      BY <1>1, <3>2 DEF Meta
    <3> QED
      BY <2>2, <3>2, <3>3 DEF Flags
  <2> HIDE DEF meta
  <2>5. /\ Len(metas') = Len(metas) /\ metas'[last] = meta
        /\ \A i \in 1 .. Len(metas) : i # last => metas'[i] = metas[i]
    BY <1>1, <2>1, <2>4, ExceptSeq
  <2>6. Flags(metas'[last], task.id)
    BY <2>4, <2>5
  <2>7. \A i \in 1 .. Len(metas), b \in Activities :
            Flags(metas[i], b) => \E j \in 1 .. Len(metas') : Flags(metas'[j], b)
    <3>1. TAKE i \in 1 .. Len(metas), b \in Activities
    <3>2. HAVE Flags(metas[i], b)
    <3>3. CASE i = last
      <4>1. b = task.id
        BY <2>1, <3>2, <3>3 DEF Flags
      <4> QED
        BY <2>1, <2>5, <2>6, <4>1
    <3> QED
      BY <2>5, <3>2, <3>3
  <2>8. \A t \in Unstarted : t \in Unstarted'
    BY <1>1, <2>2, KeptUnstarted
  <2>9. PICK t \in Unstarted : t.id = task.id
    BY <2>1, QueuedHaveTasksInv DEF QueuedHaveTasks
  <2>10. t \in Unstarted' /\ t.id = task.id /\ WillBeFresh(t)'
    BY <2>1, <2>5, <2>6, <2>8, <2>9 DEF WillBeFresh, Flags
  <2>11. SUFFICES ASSUME NEW b \in Activities, owed'[b] > 0, b # task.id
                  PROVE  \/ \E u \in Unstarted' : u.id = b /\ WillBeFresh(u)'
                         \/ \E v \in Workers : Busy(v)' /\ worker'[v].pc = "refreshing" /\ worker'[v].task.id = b
    BY <2>10 DEF NoneLost
  <2> QED
    BY <1>1, <1>2, <2>7, <2>8, <2>11, KeptFresh
<1>4. CASE ~AlreadyQueued(last)
  <2> DEFINE meta == NewMeta(task.id, last # 0)
  <2>1. meta \in Meta
    BY <1>1 DEF Meta, Task, NewMeta
  <2>2. metas' = Append(metas, meta) /\ tasks' = Append(tasks, task)
    BY <1>4 DEF Firehose
  <2> HIDE DEF meta, last
  <2>3. /\ Len(metas') = Len(metas) + 1
        /\ \A i \in 1 .. Len(metas) : metas'[i] = metas[i]
        /\ tasks' \in Seq(Task) /\ Len(tasks) \in Nat /\ Len(tasks') = Len(tasks) + 1
        /\ \A i \in 1 .. Len(tasks) : tasks'[i] = tasks[i]
        /\ tasks'[Len(tasks) + 1] = task
    BY <1>1, <2>1, <2>2, AppendProperties, LenProperties
  <2>4. DOMAIN tasks' = 1 .. Len(tasks')
    BY <2>3, LenProperties
  <2>5. task \in Unstarted'
    BY <2>3, <2>4 DEF Unstarted, Range
  <2>6. \A t \in Unstarted : t \in Unstarted'
    <3>1. TAKE t \in Unstarted
    <3>2. CASE \E i \in 1 .. Len(tasks) : tasks[i] = t
      BY <2>3, <2>4, <3>2 DEF Unstarted, Range
    <3>3. CASE \E v \in Workers : Busy(v) /\ ~Working(v) /\ worker[v].task = t
      BY <1>1, <3>3 DEF Unstarted, Busy, Working
    <3> QED
      BY <1>1, <3>2, <3>3, UnstartedMembers
  <2>7. \A i \in 1 .. Len(metas), b \in Activities :
            Flags(metas[i], b) => \E j \in 1 .. Len(metas') : Flags(metas'[j], b)
    BY <1>1, <2>3
  <2>8. SUFFICES ASSUME NEW b \in Activities, owed'[b] > 0
                 PROVE  \/ \E u \in Unstarted' : u.id = b /\ WillBeFresh(u)'
                        \/ \E v \in Workers : Busy(v)' /\ worker'[v].pc = "refreshing" /\ worker'[v].task.id = b
    BY DEF NoneLost
  <2>9. CASE b = task.id /\ task.data > owed[b]
    <3>1. WillBeFresh(task)'
      BY <1>1, <1>2, <2>9 DEF WillBeFresh
    <3> QED
      BY <2>5, <2>9, <3>1
  <2>10. CASE ~(b = task.id /\ task.data > owed[b])
    <3>1. owed'[b] = owed[b]
      BY <1>2, <2>10
    <3> QED
      BY <1>1, <2>6, <2>7, <2>8, <3>1, KeptFresh
  <2> QED
    BY <2>9, <2>10
<1> QED
  BY <1>3, <1>4

\* A step that leaves the queue, its workers and its metas alone.
LEMMA FrameFresh ==
    ASSUME NoneLost, UNCHANGED <<metas, tasks, worker, owed>>
    PROVE  NoneLost'
BY DEF NoneLost, Unstarted, WillBeFresh, Busy, Working

LEMMA OperationFresh ==
    ASSUME Default, DefaultInv, NoneLost, Operation
    PROVE  NoneLost'
<1>1. CASE SetDelay \/ StartQueue \/ PauseQueueDone \/ UpdatePauseDone
  BY <1>1, FrameFresh DEF SetDelay, StartQueue, PauseQueueDone, UpdatePauseDone
<1>2. CASE PauseQueue \/ StopQueue \/ UpdateConfig
  BY <1>2, FrameFresh DEF PauseQueue, StopQueue, UpdateConfig
<1>3. CASE StopQueueDone
  BY <1>3 DEF StopQueueDone, NoneLost
<1>4. ASSUME NEW n \in ConfigWorkers, Regenerate(n) PROVE NoneLost'
  <2>1. RealMax(n) = 1 /\ concurrency = 1
    BY ConstAssumption DEF RealMax, Default, DefaultInv, OneQueue
  <2> QED
    BY <1>4, <2>1, FrameFresh DEF Regenerate
<1> QED
  BY <1>1, <1>2, <1>3, <1>4 DEF Operation

LEMMA FutureInductive ==
    ASSUME TypeOK, TypeOK', NoneFromFuture, [Next]_vars
    PROVE  NoneFromFuture'
<1>1. /\ firehose \in Seq(Task) /\ Len(firehose) \in Nat
      /\ \A i \in 1 .. Len(firehose) : firehose[i] \in Task
      /\ reddit \in [Activities -> Versions] /\ owed \in [Activities -> 0 .. MaxVersion]
      /\ \A a \in Activities : reddit[a] \in Nat /\ owed[a] \in Nat
  BY LenProperties, ElementOfSeq DEF TypeOK, Versions
<1>2. CASE UNCHANGED <<firehose, reddit, owed>>
  BY <1>2 DEF NoneFromFuture
<1>3. ASSUME NEW a \in Activities, Edit(a) PROVE NoneFromFuture'
  <2>1. firehose' = firehose /\ owed' = owed /\ \A b \in Activities : reddit[b] <= reddit'[b] /\ reddit'[b] \in Nat
    BY <1>1, <1>3 DEF Edit
  <2>2. \A i \in 1 .. Len(firehose) : firehose[i].id \in Activities /\ firehose[i].data \in Nat
    BY <1>1 DEF Task, Versions
  <2>3. ASSUME NEW i \in 1 .. Len(firehose) PROVE firehose[i].data <= reddit'[firehose[i].id]
    <3>1. firehose[i].data <= reddit[firehose[i].id] /\ reddit[firehose[i].id] \in Nat
      BY <1>1, <2>2 DEF NoneFromFuture
    <3>2. reddit[firehose[i].id] <= reddit'[firehose[i].id] /\ reddit'[firehose[i].id] \in Nat
      BY <2>1, <2>2
    <3> QED
      BY <2>2, <3>1, <3>2
  <2>4. ASSUME NEW b \in Activities PROVE owed[b] <= reddit'[b]
    BY <1>1, <2>1 DEF NoneFromFuture
  <2> QED
    BY <2>1, <2>3, <2>4 DEF NoneFromFuture
<1>4. ASSUME NEW a \in Activities, NEW data \in Versions, NEW refresh \in BOOLEAN,
             Ingest(a, data, refresh)
      PROVE  NoneFromFuture'
  <2> DEFINE new == [id |-> a, data |-> data, refresh |-> refresh]
  <2>1. new \in Task /\ new.id = a /\ new.data <= reddit[a]
    BY <1>1, <1>4 DEF Ingest, Task, Versions
  <2>2. firehose' = Append(firehose, new) /\ reddit' = reddit /\ owed' = owed
    BY <1>4 DEF Ingest
  <2> HIDE DEF new
  <2>3. /\ Len(firehose') = Len(firehose) + 1 /\ firehose'[Len(firehose) + 1] = new
        /\ \A i \in 1 .. Len(firehose) : firehose'[i] = firehose[i]
    BY <1>1, <2>1, <2>2, AppendProperties
  <2> QED
    BY <1>1, <2>1, <2>2, <2>3 DEF NoneFromFuture
<1>5. ASSUME Firehose PROVE NoneFromFuture'
  <2>1. /\ firehose # <<>> /\ Head(firehose) = firehose[1] /\ 1 \in 1 .. Len(firehose)
        /\ Len(firehose') = Len(firehose) - 1 /\ reddit' = reddit
        /\ \A i \in 1 .. Len(firehose') : firehose'[i] = firehose[i + 1]
    BY <1>1, <1>5, HeadTailProperties, EmptySeq DEF Firehose
  <2>2. ASSUME NEW a \in Activities PROVE owed'[a] <= reddit[a]
    <3> DEFINE task == Head(firehose)
    <3>1. owed'[a] = IF a = task.id /\ task.data > owed[a] THEN task.data ELSE owed[a]
      BY <1>1, <1>5 DEF Firehose
    <3>2. task.data <= reddit[task.id] /\ owed[a] <= reddit[a]
      BY <2>1 DEF NoneFromFuture
    <3> QED
      BY <3>1, <3>2
  <2>3. ASSUME NEW i \in 1 .. Len(firehose')
        PROVE  firehose'[i].data <= reddit[firehose'[i].id]
    <3>1. i + 1 \in 1 .. Len(firehose) /\ firehose'[i] = firehose[i + 1]
      BY <1>1, <2>1
    <3> QED
      BY <3>1 DEF NoneFromFuture
  <2> QED
    BY <2>1, <2>2, <2>3 DEF NoneFromFuture
<1>6. ASSUME NEW w \in Workers, WorkerStep(w) PROVE NoneFromFuture'
  <2>1. firehose' = firehose /\ reddit' = reddit
    BY <1>6 DEF WorkerStep, TakeTask, EndDelay, Refresh, RefreshFails, Finish, Release
  <2>2. \A a, data : \A b \in Activities : Repaid(a, data)[b] <= owed[b] /\ Repaid(a, data)[b] \in Nat
    BY <1>1 DEF Repaid
  <2>3. \A b \in Activities : owed'[b] <= owed[b] /\ owed'[b] \in Nat
    BY <1>1, <1>6, <2>2
       DEF WorkerStep, TakeTask, EndDelay, Begin, Refresh, RefreshFails, Finish
  <2> QED
    BY <1>1, <2>1, <2>3 DEF NoneFromFuture
<1>7. CASE StopQueueDone
  <2>1. Len(firehose') = 0 /\ reddit' = reddit /\ \A a \in Activities : owed'[a] = 0
    BY <1>7, EmptySeq DEF StopQueueDone
  <2> QED
    BY <1>1, <2>1 DEF NoneFromFuture
<1>8. CASE (Operation /\ ~StopQueueDone) \/ UNCHANGED vars
  <2>1. UNCHANGED <<firehose, reddit, owed>>
    BY <1>8 DEF Operation, SetDelay, StartQueue, PauseQueue, PauseQueueDone, StopQueue,
                UpdateConfig, UpdatePauseDone, Regenerate, vars
  <2> QED
    BY <1>2, <2>1
<1> QED
  BY <1>3, <1>4, <1>5, <1>6, <1>7, <1>8 DEF Next, Environment

FreshInv == DefaultInv /\ NoneFromFuture /\ NoneLost

LEMMA FreshInitial == ASSUME Default PROVE Init => FreshInv
<1> SUFFICES ASSUME Init PROVE FreshInv
  OBVIOUS
<1>1. Len(firehose) = 0 /\ \A a \in Activities : owed[a] = 0 /\ reddit[a] = 1
  BY EmptySeq DEF Init
<1>2. NoneFromFuture /\ NoneLost
  BY <1>1 DEF NoneFromFuture, NoneLost
<1> QED
  BY <1>2, DefaultInitial DEF FreshInv

LEMMA FreshInductive == ASSUME Default PROVE FreshInv /\ [Next]_vars => FreshInv'
<1> SUFFICES ASSUME FreshInv, [Next]_vars PROVE FreshInv'
  OBVIOUS
<1>1. DefaultInv /\ NoneFromFuture /\ NoneLost
  BY DEF FreshInv
<1>2. DefaultInv' /\ TypeOK /\ TypeOK'
  BY <1>1, DefaultInductive DEF DefaultInv
<1>3. NoneFromFuture'
  BY <1>1, <1>2, FutureInductive
<1>4. CASE Environment \/ UNCHANGED vars
  <2>1. UNCHANGED <<metas, tasks, worker, owed>>
    BY <1>4 DEF Environment, Edit, Ingest, vars
  <2> QED
    BY <1>1, <1>2, <1>3, <2>1, FrameFresh DEF FreshInv
<1>5. CASE Firehose
  BY <1>1, <1>2, <1>3, <1>5, FirehoseFresh DEF FreshInv
<1>6. ASSUME NEW w \in Workers, WorkerStep(w) PROVE FreshInv'
  BY <1>1, <1>2, <1>3, <1>6, TakeTaskFresh, EndDelayFresh, RefreshFresh, EndFresh
     DEF WorkerStep, FreshInv
<1>7. CASE Operation
  BY <1>1, <1>2, <1>3, <1>7, OperationFresh DEF FreshInv
<1> QED
  BY <1>4, <1>5, <1>6, <1>7 DEF Next

\* In the default manager nothing that the firehose accepted is lost: until a
\* worker has used the newest version accepted of an activity, or a stop has
\* cleared the queue, a task that will see it waits or a worker is fetching it
\* (Manager.ts, generateFirehose and generateQueue).
THEOREM NoneLostCorrect ==
    ASSUME Default
    PROVE  Spec => []NoneLost
<1>1. Init => FreshInv
  BY FreshInitial
<1>2. FreshInv /\ [Next]_vars => FreshInv'
  BY FreshInductive
<1>3. FreshInv => NoneLost
  BY DEF FreshInv
<1> QED
  BY <1>1, <1>2, <1>3, PTL DEF Spec

(***************************************************************************)
(* Operations that do not overlap, with any number of workers.             *)
(***************************************************************************)

LEMMA NothingWaits ==
    ASSUME MaxOperations \in {0, 1}, TypeOK, MayOperate
    PROVE  waiting = {}
<1>1. IsFiniteSet({"pause", "stop", "update", "regenerate"})
  <2>1. IsFiniteSet({"pause"}) /\ IsFiniteSet({"stop"})
        /\ IsFiniteSet({"update"}) /\ IsFiniteSet({"regenerate"})
    BY FS_Singleton
  <2>2. IsFiniteSet({"pause"} \cup {"stop"}) /\ IsFiniteSet({"update"} \cup {"regenerate"})
    BY <2>1, FS_Union
  <2>3. IsFiniteSet(({"pause"} \cup {"stop"}) \cup ({"update"} \cup {"regenerate"}))
    BY <2>2, FS_Union
  <2>4. ({"pause"} \cup {"stop"}) \cup ({"update"} \cup {"regenerate"})
            = {"pause", "stop", "update", "regenerate"}
    OBVIOUS
  <2> QED
    BY <2>3, <2>4
<1>2. IsFiniteSet(waiting)
  BY <1>1, FS_Subset DEF TypeOK
<1>3. Cardinality(waiting) \in Nat /\ Cardinality(waiting) < 1
  BY <1>2, FS_CardinalityType DEF MayOperate
<1> QED
  BY <1>2, <1>3, FS_EmptySet

LEMMA StateInductive ==
    ASSUME MaxOperations \in {0, 1}
    PROVE  TypeOK /\ StateInv /\ [Next]_vars => StateInv'
<1> SUFFICES ASSUME TypeOK, StateInv, [Next]_vars PROVE StateInv'
  OBVIOUS
<1>1. CASE UNCHANGED <<waiting, queueState, paused>>
  BY <1>1 DEF StateInv
<1>2. CASE Environment \/ Firehose \/ (\E w \in Workers : WorkerStep(w)) \/ UNCHANGED vars
  <2>1. UNCHANGED <<waiting, queueState, paused>>
    BY <1>2 DEF Environment, Edit, Ingest, Firehose, WorkerStep, TakeTask, EndDelay,
                Refresh, RefreshFails, Finish, Release, vars
  <2> QED
    BY <1>1, <2>1
<1>3. CASE SetDelay
  BY <1>1, <1>3 DEF SetDelay
<1>4. CASE StartQueue \/ PauseQueue \/ StopQueue \/ UpdateConfig
  <2>1. waiting = {}
    BY <1>4, NothingWaits DEF StartQueue, PauseQueue, StopQueue, UpdateConfig
  <2>2. CASE StartQueue
    BY <2>1, <2>2 DEF StartQueue, StateInv, TypeOK
  <2>3. CASE PauseQueue
    BY <2>1, <2>3 DEF PauseQueue, PauseTasks, StateInv, TypeOK
  <2>4. CASE StopQueue
    BY <2>1, <2>4 DEF StopQueue, PauseTasks, StateInv, TypeOK
  <2>5. CASE UpdateConfig
    BY <2>1, <2>5 DEF UpdateConfig, PauseTasks, StateInv, TypeOK
  <2> QED
    BY <1>4, <2>2, <2>3, <2>4, <2>5
<1>5. CASE PauseQueueDone \/ StopQueueDone
  BY <1>5 DEF PauseQueueDone, StopQueueDone, StateInv
<1>6. CASE UpdatePauseDone
  BY <1>6 DEF UpdatePauseDone, StateInv
<1>7. ASSUME NEW n \in ConfigWorkers, Regenerate(n) PROVE StateInv'
  BY <1>7 DEF Regenerate, PauseTasks, StateInv
<1> QED
  BY <1>2, <1>3, <1>4, <1>5, <1>6, <1>7 DEF Next, Operation

\* When no operation begins before the previous one has ended, the running state
\* that the manager shows is that of its queue (startQueue, pauseQueue,
\* stopQueue and parseConfiguration of Manager.ts), with any number of workers,
\* forced stops and replaced queues.
THEOREM StateCorrect ==
    ASSUME MaxOperations \in {0, 1}
    PROVE  Spec => []StateTellsQueue
<1>1. Init => TypeOK /\ StateInv
  BY TypeInitial DEF Init, StateInv
<1>2. TypeOK /\ StateInv /\ [Next]_vars => TypeOK' /\ StateInv'
  BY TypeInductive, StateInductive
<1>3. StateInv => StateTellsQueue
  BY DEF StateInv, StateTellsQueue
<1> QED
  BY <1>1, <1>2, <1>3, PTL DEF Spec

\* Nor does such a manager start an activity while its queue is PAUSED or STOPPED.
THEOREM NoStartCorrect ==
    ASSUME MaxOperations \in {0, 1}
    PROVE  Spec => NoStartUnlessRunning
<1>1. Init => TypeOK /\ StateInv
  BY TypeInitial DEF Init, StateInv
<1>2. TypeOK /\ StateInv /\ [Next]_vars => TypeOK' /\ StateInv'
  BY TypeInductive, StateInductive
<1>3. TypeOK /\ StateInv /\ [Next]_vars
      => [\A w \in Workers : ~Busy(w) /\ Busy(w)' => queueState = "RUNNING"]_vars
  <2> SUFFICES ASSUME TypeOK, StateInv, Next, NEW w \in Workers, ~Busy(w), Busy(w)'
               PROVE  queueState = "RUNNING"
    OBVIOUS
  <2>1. worker' # worker
    BY DEF Busy
  <2>2. ~(Environment \/ Firehose)
    BY <2>1 DEF Environment, Edit, Ingest, Firehose
  <2>3. ASSUME Operation PROVE FALSE
    <3>1. PICK n \in ConfigWorkers : Regenerate(n)
      BY <2>1, <2>3 DEF Operation, SetDelay, StartQueue, PauseQueue, PauseQueueDone,
                        StopQueue, StopQueueDone, UpdateConfig, UpdatePauseDone
    <3>2. worker'[w] = Idle
      BY <2>1, <3>1 DEF Regenerate, Busy
    <3> QED
      BY <3>2 DEF Busy
  <2>4. PICK v \in Workers : WorkerStep(v)
    BY <2>2, <2>3 DEF Next
  <2>5. ASSUME Busy(v) PROVE FALSE
    <3>1. worker'[w] = worker[w]
      BY <2>4, <2>5 DEF WorkerStep, TakeTask, EndDelay, Refresh, RefreshFails, Finish,
                        Release, Begin, TypeOK
    <3> QED
      BY <3>1 DEF Busy
  <2>6. TakeTask(v)
    BY <2>4, <2>5 DEF WorkerStep, EndDelay, Refresh, RefreshFails, Finish
  <2> QED
    BY <2>6 DEF TakeTask, StateInv
<1> QED
  BY <1>1, <1>2, <1>3, PTL DEF Spec, NoStartUnlessRunning
=============================================================================
