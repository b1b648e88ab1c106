---------------------------- MODULE RunningStates ----------------------------
(***************************************************************************)
(* The running states of one Manager, and who changes them.                *)
(*                                                                         *)
(* A manager shows three states, of itself, its events and its queue, each *)
(* with who caused it.  They are changed by the bot's health loop (the api *)
(* nanny, and a heartbeat that reads the config and restarts what the      *)
(* system stopped), by users of the web interface, and by failures of      *)
(* polling.  An operation is split where it awaits Reddit or sleeps; the   *)
(* writes of the states to the database are part of the step they follow,  *)
(* so that a restarted application finds the states as they were.          *)
(***************************************************************************)
EXTENDS Naturals, FiniteSets

CONSTANTS
    Overlap,    \* whether operations may begin while others are in progress
    Panics      \* whether failures of other managers may stop this one

ASSUME ConstAssumption == {Overlap, Panics} \subseteq BOOLEAN

VARIABLES
    managerState, \* [state, causedBy]
    eventsState,
    queueState,
    paused,       \* queue.paused
    busy,         \* whether the queue's workers are handling activities
    validConfigLoaded,
    apiLimit,     \* which of the nanny's limits the api usage exceeds
    nannyMode,
    op,           \* the operation each process is in the middle of
    userStopped   \* history: the user stopped the manager and let it be

states == <<managerState, eventsState, queueState>>
vars == <<managerState, eventsState, queueState, paused, busy, validConfigLoaded,
          apiLimit, nannyMode, op, userStopped>>

Process == {"health", "user", "failure"}

RunState == [state : {"RUNNING", "PAUSED", "STOPPED"}, causedBy : {"system", "user"}]

\* What a process awaits.  whole: stopQueue was called by stop.  restart: a
\* reload found the queue RUNNING, or the stop is one for a rebuild.
Op == [pc : {"idle", "boot", "fetch", "pausing", "parse", "stopping"},
       reload : BOOLEAN, whole : BOOLEAN, restart : BOOLEAN]

Idle == [pc |-> "idle", reload |-> FALSE, whole |-> FALSE, restart |-> FALSE]

TypeOK ==
    /\ {managerState, eventsState, queueState} \subseteq RunState
    /\ {paused, busy, validConfigLoaded, userStopped} \subseteq BOOLEAN
    /\ apiLimit \in {"none", "soft", "hard"}
    /\ nannyMode \in {"none", "soft", "hard"}
    /\ op \in [Process -> Op]

\* Mutant: the process itself is named as the cause.
ByItself(p) == p

By(p) == IF p = "user" THEN "user" ELSE "system"

AllIdle == \A p \in Process : op[p].pc = "idle"

\* An operation of p may begin.
MayBegin(p) == op[p].pc = "idle" /\ (Overlap \/ AllIdle)

Now(state, who) == [state |-> state, causedBy |-> who]

\* A manager that has just been constructed, before runManagers.
Init ==
    /\ managerState = Now("STOPPED", "system")
    /\ eventsState = Now("STOPPED", "system")
    /\ queueState = Now("STOPPED", "system")
    /\ paused = TRUE
    /\ busy = FALSE
    /\ validConfigLoaded \in BOOLEAN
    /\ apiLimit = "none"
    /\ nannyMode = "none"
    /\ op = [p \in Process |-> IF p = "health" THEN [Idle EXCEPT !.pc = "boot"] ELSE Idle]
    /\ userStopped = FALSE

-----------------------------------------------------------------------------
(* The manager's methods, as they change the states *)

\* startEvents leaves RUNNING events running, and names who asked last.
StartEvents(who) ==
    eventsState' = IF validConfigLoaded' THEN Now("RUNNING", who) ELSE eventsState

PauseEvents(who) ==
    eventsState' = IF eventsState.state = "RUNNING" THEN Now("PAUSED", who) ELSE eventsState

StopEvents(who) == eventsState' = Now("STOPPED", who)

StartQueue(who) ==
    IF validConfigLoaded' /\ queueState.state # "RUNNING"
    THEN queueState' = Now("RUNNING", who) /\ paused' = FALSE
    ELSE UNCHANGED <<queueState, paused>>

\* pauseQueue up to its wait for the workers; done says that it need not wait.
PauseQueue(who, done) ==
    IF queueState.state = "RUNNING"
    THEN /\ paused' = TRUE
         /\ queueState' = IF done THEN Now("PAUSED", who) ELSE queueState
    ELSE /\ queueState' = IF queueState.state = "PAUSED" THEN Now("PAUSED", who) ELSE queueState
         /\ UNCHANGED paused

\* stopQueue up to its wait; a STOPPED queue keeps who stopped it.
StopQueue(who, done) ==
    IF queueState.state = "STOPPED" THEN UNCHANGED <<queueState, paused>>
    ELSE /\ paused' = TRUE
         /\ queueState' = IF done THEN Now("STOPPED", who) ELSE queueState

MustWait == busy /\ queueState.state # "STOPPED"

-----------------------------------------------------------------------------
(* The environment *)

WorkBegins ==
    /\ ~paused /\ ~busy
    /\ busy' = TRUE
    /\ UNCHANGED <<states, paused, validConfigLoaded, apiLimit, nannyMode, op,
                   userStopped>>

WorkEnds ==
    /\ busy
    /\ busy' = FALSE
    /\ UNCHANGED <<states, paused, validConfigLoaded, apiLimit, nannyMode, op,
                   userStopped>>

ApiUsage ==
    /\ apiLimit' \in {"none", "soft", "hard"} \ {apiLimit}
    /\ UNCHANGED <<states, paused, busy, validConfigLoaded, nannyMode, op,
                   userStopped>>

-----------------------------------------------------------------------------
(* Stopping the manager *)

\* stop: events at once, then the queue, then the manager's own state.
StopManager(p, restart) ==
    /\ StopEvents(By(p))
    /\ StopQueue(By(p), ~MustWait)
    /\ IF MustWait
       THEN /\ op' = [op EXCEPT ![p] = [Idle EXCEPT !.pc = "stopping", !.whole = TRUE,
                                                    !.restart = restart]]
            /\ UNCHANGED managerState
       ELSE /\ managerState' = Now("STOPPED", By(p))
            /\ op' = [op EXCEPT ![p] = IF restart THEN [Idle EXCEPT !.pc = "boot"] ELSE Idle]
    /\ UNCHANGED <<busy, validConfigLoaded, apiLimit, nannyMode>>

\* The wait ends when the workers are idle, or after five seconds.
StopEnds(p) ==
    /\ op[p].pc = "stopping"
    /\ queueState' = Now("STOPPED", By(p))
    /\ managerState' = IF op[p].whole THEN Now("STOPPED", By(p)) ELSE managerState
    /\ op' = [op EXCEPT ![p] = IF op[p].restart THEN [Idle EXCEPT !.pc = "boot"] ELSE Idle]
    /\ userStopped' = (userStopped \/ (p = "user" /\ op[p].whole))
    /\ UNCHANGED <<eventsState, paused, busy, validConfigLoaded, apiLimit,
                   nannyMode>>

\* Polling fails for good in this manager, or, as panicOnRetries sees it, in
\* all managers together.
Failure ==
    /\ MayBegin("failure")
    /\ Panics \/ eventsState.state = "RUNNING"
    /\ StopManager("failure", FALSE)
    /\ UNCHANGED userStopped

-----------------------------------------------------------------------------
(* Reading the config: parseConfiguration, by a heartbeat or a reload *)

\* The heartbeat after its config check: what the system stopped is restarted,
\* and everything is if there is a new config.
HeartbeatRestarts(newConfig) ==
    /\ IF newConfig \/ (queueState.state # "RUNNING" /\ queueState.causedBy = "system")
       THEN StartQueue("system") ELSE UNCHANGED <<queueState, paused>>
    /\ IF newConfig \/ (eventsState.state # "RUNNING" /\ eventsState.causedBy = "system")
       THEN StartEvents("system") ELSE UNCHANGED eventsState
    /\ managerState' = IF /\ managerState.state # "RUNNING"
                          /\ eventsState'.state = "RUNNING"
                          /\ queueState'.state = "RUNNING"
                       THEN Now("RUNNING", "system") ELSE managerState

\* A manager that a user stopped is left alone.
HeartbeatSkips == managerState.state = "STOPPED" /\ managerState.causedBy = "user"

HeartbeatBegins ==
    /\ MayBegin("health")
    /\ ~HeartbeatSkips
    /\ op' = [op EXCEPT !["health"] = [Idle EXCEPT !.pc = "fetch"]]
    /\ UNCHANGED <<states, paused, busy, validConfigLoaded, apiLimit, nannyMode,
                   userStopped>>

\* parseConfiguration's caller, once it is known that the config is up to date.
UpToDate(p) ==
    /\ op[p].pc = "fetch"
    /\ validConfigLoaded
    /\ validConfigLoaded' = TRUE
    /\ IF p = "health" THEN HeartbeatRestarts(FALSE) ELSE UNCHANGED <<states, paused>>
    /\ op' = [op EXCEPT ![p] = Idle]
    /\ UNCHANGED <<busy, apiLimit, nannyMode, userStopped>>

\* The config is new, or no valid one is loaded: a RUNNING queue is paused.
PausesForUpdate(p) ==
    LET wait == queueState.state = "RUNNING" /\ busy
    IN /\ op[p].pc = "fetch"
       /\ IF queueState.state = "RUNNING" THEN PauseQueue(By(p), ~wait)
          ELSE UNCHANGED <<queueState, paused>>
       /\ op' = [op EXCEPT ![p].pc = IF wait THEN "pausing" ELSE "parse"]
       /\ UNCHANGED <<managerState, eventsState, busy, validConfigLoaded, apiLimit,
                      nannyMode, userStopped>>

PauseEnds(p) ==
    /\ op[p].pc = "pausing"
    /\ ~busy
    /\ queueState' = Now("PAUSED", By(p))
    /\ op' = [op EXCEPT ![p] = IF op[p].reload \/ p = "health" THEN [@ EXCEPT !.pc = "parse"]
                               ELSE Idle]
    /\ UNCHANGED <<managerState, eventsState, paused, busy, validConfigLoaded,
                   apiLimit, nannyMode, userStopped>>

\* parseConfigurationFromObject succeeds.
Parsed(p) ==
    /\ op[p].pc = "parse"
    /\ validConfigLoaded' = TRUE
    /\ IF p = "health" THEN HeartbeatRestarts(TRUE)
       ELSE /\ IF op[p].restart THEN StartQueue("user") ELSE UNCHANGED <<queueState, paused>>
            /\ UNCHANGED <<managerState, eventsState>>
    /\ op' = [op EXCEPT ![p] = Idle]
    /\ UNCHANGED <<busy, apiLimit, nannyMode, userStopped>>

\* It, or the fetch of the wiki page before it, fails: a heartbeat stops the
\* events, so that they do not pile up in the queue.
ParseFails(p) ==
    /\ op[p].pc \in {"fetch", "parse"}
    /\ validConfigLoaded' = FALSE
    /\ IF p = "health" /\ eventsState.state = "RUNNING"
       THEN StopEvents("system") ELSE UNCHANGED eventsState
    /\ op' = [op EXCEPT ![p] = Idle]
    /\ UNCHANGED <<managerState, queueState, paused, busy, apiLimit, nannyMode,
                   userStopped>>

-----------------------------------------------------------------------------
(* The api nanny *)

Nanny ==
    /\ MayBegin("health")
    /\ nannyMode # apiLimit
    /\ nannyMode' = apiLimit
    /\ UNCHANGED validConfigLoaded
    /\ CASE apiLimit = "hard" ->
                PauseEvents("system") /\ UNCHANGED <<queueState, paused>>
         [] apiLimit = "soft" -> UNCHANGED <<eventsState, queueState, paused>>
         [] apiLimit = "none" ->
                /\ IF queueState = Now("PAUSED", "system")
                   THEN StartQueue("system") ELSE UNCHANGED <<queueState, paused>>
                /\ IF eventsState = Now("PAUSED", "system")
                   THEN StartEvents("system") ELSE UNCHANGED eventsState
    /\ UNCHANGED <<managerState, busy, apiLimit, op, userStopped>>

-----------------------------------------------------------------------------
(* The user: the actions of the web interface *)

UserStart ==
    /\ MayBegin("user")
    /\ UNCHANGED validConfigLoaded
    /\ StartEvents("user")
    /\ StartQueue("user")
    /\ managerState' = IF validConfigLoaded THEN Now("RUNNING", "user") ELSE managerState
    /\ userStopped' = FALSE
    /\ UNCHANGED <<busy, apiLimit, nannyMode, op>>

UserStop ==
    /\ MayBegin("user")
    /\ StopManager("user", FALSE)
    /\ userStopped' = ~MustWait

UserStartQueue ==
    /\ MayBegin("user")
    /\ UNCHANGED validConfigLoaded
    /\ StartQueue("user")
    /\ userStopped' = FALSE
    /\ UNCHANGED <<managerState, eventsState, busy, apiLimit, nannyMode, op>>

UserPauseQueue ==
    /\ MayBegin("user")
    /\ LET wait == queueState.state = "RUNNING" /\ busy
       IN /\ PauseQueue("user", ~wait)
          /\ op' = IF wait THEN [op EXCEPT !["user"] = [Idle EXCEPT !.pc = "pausing"]] ELSE op
    /\ userStopped' = FALSE
    /\ UNCHANGED <<managerState, eventsState, busy, validConfigLoaded, apiLimit, nannyMode>>

UserStopQueue ==
    /\ MayBegin("user")
    /\ StopQueue("user", ~MustWait)
    /\ op' = IF MustWait THEN [op EXCEPT !["user"] = [Idle EXCEPT !.pc = "stopping"]] ELSE op
    /\ userStopped' = FALSE
    /\ UNCHANGED <<managerState, eventsState, busy, validConfigLoaded, apiLimit, nannyMode>>

UserEvents ==
    /\ MayBegin("user")
    /\ UNCHANGED validConfigLoaded
    /\ StartEvents("user") \/ PauseEvents("user") \/ StopEvents("user")
    /\ userStopped' = FALSE
    /\ UNCHANGED <<managerState, queueState, paused, busy, apiLimit, nannyMode, op>>

\* reload: parseConfiguration, and a RUNNING queue is started again.
UserReload ==
    /\ MayBegin("user")
    /\ op' = [op EXCEPT !["user"] = [Idle EXCEPT !.pc = "fetch", !.reload = TRUE,
                                        !.restart = (queueState.state = "RUNNING")]]
    /\ userStopped' = FALSE
    /\ UNCHANGED <<states, paused, busy, validConfigLoaded, apiLimit, nannyMode>>

-----------------------------------------------------------------------------
(* The application *)

\* Mutant: the last invokee is not looked at.
AllBySystem(s) == Now("STOPPED", "system")

\* setInitialRunningState
Initially(s) == IF s = Now("STOPPED", "user") THEN s ELSE Now("STOPPED", "system")

\* The constructed manager, with a config that is valid or not.
Constructed ==
    /\ managerState' = Initially(managerState)
    /\ eventsState' = Initially(eventsState)
    /\ queueState' = Initially(queueState)
    /\ paused' = TRUE
    /\ busy' = FALSE
    /\ validConfigLoaded' \in BOOLEAN
    /\ nannyMode' = "none"
    /\ op' = [p \in Process |-> IF p = "health" THEN [Idle EXCEPT !.pc = "boot"] ELSE Idle]

\* The application ends, in the middle of anything, and is started again.
Restart ==
    /\ Constructed
    /\ UNCHANGED <<apiLimit, userStopped>>

\* The operator adds the bot anew: the running one is destroyed.
Rebuild ==
    /\ AllIdle
    /\ StopManager("failure", TRUE)
    /\ userStopped' = FALSE

Rebuilt ==
    /\ op["failure"].pc = "boot"
    /\ Constructed
    /\ UNCHANGED <<apiLimit, userStopped>>

\* runManagers
Boot ==
    /\ op["health"].pc = "boot"
    /\ UNCHANGED validConfigLoaded
    /\ IF validConfigLoaded /\ managerState.state # "RUNNING" /\ managerState.causedBy # "user"
       THEN /\ StartEvents("system")
            /\ StartQueue("system")
            /\ managerState' = Now("RUNNING", "system")
       ELSE UNCHANGED <<states, paused>>
    /\ op' = [op EXCEPT !["health"] = Idle]
    /\ UNCHANGED <<busy, apiLimit, nannyMode, userStopped>>

-----------------------------------------------------------------------------
(* The specification *)

Environment == WorkBegins \/ WorkEnds \/ ApiUsage \/ Failure \/ Restart \/ Rebuild

User ==
    \/ UserStart \/ UserStop
    \/ UserStartQueue \/ UserPauseQueue \/ UserStopQueue
    \/ UserEvents
    \/ UserReload

Step(p) ==
    \/ StopEnds(p)
    \/ UpToDate(p)
    \/ PausesForUpdate(p)
    \/ PauseEnds(p)
    \/ Parsed(p)
    \/ ParseFails(p)

Next ==
    \/ Environment
    \/ User
    \/ HeartbeatBegins
    \/ Nanny
    \/ Boot
    \/ Rebuilt
    \/ \E p \in Process : Step(p)

Spec == Init /\ [][Next]_vars

\* The health loop runs the nanny and the heartbeat again and again, in turn
\* with whatever else is in progress, and the awaits settle.
Fairness ==
    /\ SF_vars(HeartbeatBegins)
    /\ SF_vars(Nanny)
    /\ WF_vars(Boot)
    /\ WF_vars(Rebuilt)
    /\ WF_vars(WorkEnds)
    /\ \A p \in Process : WF_vars(Step(p))

FairSpec == Spec /\ Fairness

-----------------------------------------------------------------------------
(* Properties *)

Starts == \/ eventsState.state # "RUNNING" /\ eventsState'.state = "RUNNING"
          \/ queueState.state # "RUNNING" /\ queueState'.state = "RUNNING"

\* A manager that a user stopped stays so, across heartbeats, nanny and restarts
\* of the application, until a user does something about it or the operator
\* rebuilds the bot (tooltip of the Bot's controls in status.ejs; message of
\* runManagers).
StopStays == [][userStopped /\ userStopped' => ~Starts]_vars

\* While api usage exceeds the hard limit the system starts no polling (usage of
\* --hardLimit in the operator's docs: paused until api limit reset).
HardLimitHolds ==
    [][nannyMode = "hard" /\ nannyMode' = "hard" /\ apiLimit = "hard"
          => ~(eventsState.state # "RUNNING" /\ eventsState' = Now("RUNNING", "system"))]_vars

\* Eventually nobody interferes any more: no user, no failure, no changed and no
\* invalid config, and no shortage of api calls.
Disturbance ==
    \/ User \/ ApiUsage \/ Failure \/ Restart \/ Rebuild
    \/ \E p \in Process : ParseFails(p) \/ (PausesForUpdate(p) /\ validConfigLoaded)

Calm == <>[][~Disturbance]_vars /\ <>[](apiLimit = "none")

\* Then what the system paused or stopped runs again (message of panicOnRetries:
\* will try to restart on next heartbeat).
Heals ==
    Calm => <>[]( \/ HeartbeatSkips
                  \/ \A s \in {eventsState, queueState} :
                        s.state = "RUNNING" \/ s.causedBy = "user" )

\* Events do not go on for ever with an invalid config, filling a queue that
\* does not run (comment in heartbeat).
InvalidConfigStopsEvents ==
    ~<>[](~validConfigLoaded /\ eventsState.state = "RUNNING" /\ ~HeartbeatSkips)
=============================================================================
