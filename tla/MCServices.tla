----------------------------- MODULE MCServices -----------------------------
(***************************************************************************)
(* What runs around the handling of activities, one part at a time: the    *)
(* running states of a manager, the bot with its managers and invites, and *)
(* the web client with its instances.                                      *)
(***************************************************************************)
EXTENDS RunningStates, Bots, WebClient

VARIABLE
    part  \* the part that this behaviour is about

allVars == <<part, vars, botVars, webVars>>

AllInit ==
    /\ part \in {"states", "bots", "web"}
    /\ Init /\ BotInit /\ WebInit
    /\ part # "states" => ~validConfigLoaded
    /\ part # "bots" => moderated = {}

OfStates(A) == part = "states" /\ A /\ UNCHANGED <<part, botVars, webVars>>
OfBots(A) == part = "bots" /\ A /\ UNCHANGED <<part, vars, webVars>>
OfWeb(A) == part = "web" /\ A /\ UNCHANGED <<part, vars, botVars>>

AllNext ==
    \/ part = "states" /\ Next /\ UNCHANGED <<part, botVars, webVars>>
    \/ part = "bots" /\ BotNext /\ UNCHANGED <<part, vars, webVars>>
    \/ part = "web" /\ WebNext /\ UNCHANGED <<part, vars, botVars>>

\* The fairness of RunningStates, of its part.
StatesFairness ==
    /\ SF_allVars(OfStates(HeartbeatBegins))
    /\ SF_allVars(OfStates(Nanny))
    /\ WF_allVars(OfStates(Boot))
    /\ WF_allVars(OfStates(Rebuilt))
    /\ WF_allVars(OfStates(WorkEnds))
    /\ \A p \in Process : WF_allVars(OfStates(Step(p)))

\* The health loop comes round, and what is awaited settles in some way.
BotsFairness ==
    /\ SF_allVars(OfBots(Heartbeat))
    /\ WF_allVars(OfBots(LoopBegins))
    /\ WF_allVars(OfBots(LoopEnds))
    /\ WF_allVars(OfBots(Outfitted))
    /\ \A a \in Actor : WF_allVars(OfBots(Settles(a) \/ Fails(a)))

\* A round through the clients goes on, and time passes.
WebFairness ==
    /\ \A r \in Rounds : WF_allVars(OfWeb(RoundMoves(r)))
    /\ \A k \in Hosts : WF_allVars(OfWeb(Elapse(k)))

Services == AllInit /\ [][AllNext]_allVars /\ StatesFairness /\ BotsFairness /\ WebFairness

\* The running states and the bots are of their types; those of the web client
\* are looked at where bots are added to it.
TypesOK == TypeOK /\ BotsTypeOK

\* The invites, the managers and the shared stream of a bot are those of the
\* database, of the subreddits it is to run on, and of each other (buildManagers,
\* removeSubredditInvite).
ManagersKept ==
    InvitesAgree /\ OneManager /\ ExcludedAlone /\ SharedFollows

\* Whoever stopped a manager, it comes to the state that was meant: what a user
\* stopped stays so, what the system stopped runs again, and events do not go
\* on with a config that is not valid (runManagers, panicOnRetries, heartbeat).
StatesRecover == StopStays /\ (part = "states" => Heals) /\ InvalidConfigStopsEvents

\* What the bot and the client are waiting for comes about: managers of the
\* moderated subreddits, invitations that are accepted, rebuilds that end and
\* invites that are listed (buildManagers, checkModInvites, destroy,
\* checkHeartbeat).
Proceeds ==
    /\ ManagersFollow
    /\ InvitesTaken
    /\ RebuildsEnd
    /\ part = "web" => InvitesListed
=============================================================================
