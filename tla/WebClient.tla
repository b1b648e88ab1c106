------------------------------- MODULE WebClient -------------------------------
(***************************************************************************)
(* The web client, the instances it knows by their heartbeats, and bots    *)
(* that are added by invite.                                               *)
(*                                                                         *)
(* An operator has an instance make an invite; a visitor of the client who *)
(* opens it authorizes an account at Reddit; the client then has the       *)
(* instance add a bot.  Everything between two awaits is one step.         *)
(***************************************************************************)
EXTENDS Naturals, FiniteSets, SequencesExt

CONSTANTS
    Hosts,      \* 1 .. n, the instances that the client is configured with
    Ids,        \* invites
    Accounts,
    Visitors,
    NoInvite,   \* what a bot of a file is bound to that was not invited
    OneByOne    \* whether first visits, and requests to add a bot, do not overlap

ASSUME WebClientAssumption == IsFiniteSet(Hosts) /\ NoInvite \notin Ids /\ OneByOne \in BOOLEAN

VARIABLES
    up,       \* the instances that run
    issued,   \* invites in the database of each instance
    file,     \* bots of each instance's config file, with the invite they are bound to
    bots,     \* bots of each instance, in the order they were made
    cm,       \* cmInstances
    ready,    \* init: whether a first visit has asked for all heartbeats
    rounds,   \* who goes through the clients
    making,   \* the invite that is being made
    visitor

webVars == <<up, issued, file, bots, cm, ready, rounds, making, visitor>>

servers == <<issued, file, bots>>

client == <<cm, ready, rounds>>

Rounds == {"first", "second"}

Gone == [pc |-> "gone"]

WebTypeOK ==
    /\ up \subseteq Hosts
    /\ issued \in [Hosts -> SUBSET Ids]
    /\ file \in [Hosts -> UNION {[A -> Ids \cup {NoInvite}] : A \in SUBSET Accounts}]
    /\ \A h \in Hosts : bots[h] \in Seq([account : Accounts, named : BOOLEAN])
    /\ cm \in Seq([host : Hosts, online : BOOLEAN, due : BOOLEAN, invites : SUBSET Ids])
    /\ ready \in BOOLEAN
    /\ rounds \in [Rounds -> [pc : {"none", "asleep", "look", "asked", "answered"}, at : Nat, entry : Nat,
                              invites : SUBSET Ids]]
    /\ \A v \in Visitors : visitor[v] # Gone => visitor[v].id \in Ids

Nowhere == [pc |-> "none", at |-> 1, entry |-> 0, invites |-> {}]

WebInit ==
    /\ up = Hosts
    /\ issued = [h \in Hosts |-> {}]
    /\ file = [h \in Hosts |-> [a \in {} |-> NoInvite]]
    /\ bots = [h \in Hosts |-> <<>>]
    /\ cm = <<>> /\ ready = FALSE
    /\ rounds = [r \in Rounds |-> Nowhere]
    /\ making = Gone
    /\ visitor = [v \in Visitors |-> Gone]

-----------------------------------------------------------------------------
(* Heartbeats *)

\* findIndex, counted from 1: 0 if there is none.
Index(list, Is(_)) == SelectInSeq(list, Is)

\* Mutant: an instance that is offline is not found.
KnownOnline(h) == Index(cm, LAMBDA x : x.host = h /\ x.online)

\* findIndex of matchesHost
Known(h) == Index(cm, LAMBDA x : x.host = h)

\* initHeartbeat
FirstVisit(r) ==
    /\ ~ready /\ rounds[r].pc = "none"
    /\ OneByOne => \A q \in Rounds : rounds[q].pc = "none"
    /\ rounds' = [rounds EXCEPT ![r].pc = "look"]
    /\ UNCHANGED <<up, servers, cm, ready, making, visitor>>

\* checkHeartbeat: long enough after the last check, which is shorter offline.
ShouldCheck(x) == x.due

\* refreshClient and checkHeartbeat up to the request; past the last client, a
\* first visit is served and the loop begins, and a loop sleeps.
Look(r) ==
    LET h == rounds[r].at
        k == Known(h)
    IN /\ rounds[r].pc = "look"
       /\ IF h \notin Hosts
          THEN /\ rounds' = [rounds EXCEPT ![r] = [Nowhere EXCEPT !.pc = "asleep"]]
               /\ ready' = TRUE /\ cm' = cm
          ELSE IF k # 0 /\ ~ShouldCheck(cm[k])
          THEN rounds' = [rounds EXCEPT ![r].at = @ + 1] /\ UNCHANGED <<cm, ready>>
          ELSE /\ rounds' = [rounds EXCEPT ![r].pc = "asked", ![r].entry = k]
               /\ cm' = IF k = 0 THEN cm ELSE [cm EXCEPT ![k].due = FALSE]
               /\ ready' = ready
       /\ UNCHANGED <<up, servers, making, visitor>>

\* heartbeat, at the instance: getInviteIds.
Answer(r) ==
    /\ rounds[r].pc = "asked" /\ rounds[r].at \in up
    /\ rounds' = [rounds EXCEPT ![r].pc = "answered", ![r].invites = issued[rounds[r].at]]
    /\ UNCHANGED <<up, servers, cm, ready, making, visitor>>

\* updateFromHeartbeat
Updated(x, invites) == [x EXCEPT !.online = TRUE, !.invites = invites]

\* An instance that was not found before the request is pushed after it.
Refreshed(r, x) ==
    LET k == rounds[r].entry
    IN /\ cm' = IF k = 0 THEN Append(cm, x) ELSE [cm EXCEPT ![k] = x]
       /\ rounds' = [rounds EXCEPT ![r] = [Nowhere EXCEPT !.pc = "look", !.at = rounds[r].at + 1]]
       /\ UNCHANGED <<up, servers, ready, making, visitor>>

Entry(r) ==
    IF rounds[r].entry = 0 THEN [host |-> rounds[r].at, online |-> FALSE, due |-> FALSE, invites |-> {}]
    ELSE cm[rounds[r].entry]

AnswerArrives(r) == rounds[r].pc = "answered" /\ Refreshed(r, Updated(Entry(r), rounds[r].invites))

AskingFails(r) ==
    /\ rounds[r].pc = "asked" /\ rounds[r].at \notin up
    /\ Refreshed(r, [Entry(r) EXCEPT !.online = FALSE])

\* loopHeartbeat
Wake(r) ==
    /\ rounds[r].pc = "asleep"
    /\ rounds' = [rounds EXCEPT ![r] = [Nowhere EXCEPT !.pc = "look"]]
    /\ UNCHANGED <<up, servers, cm, ready, making, visitor>>

Elapse(k) ==
    /\ k \in DOMAIN cm /\ ~cm[k].due
    /\ cm' = [cm EXCEPT ![k].due = TRUE]
    /\ UNCHANGED <<up, servers, ready, rounds, making, visitor>>

-----------------------------------------------------------------------------
(* An instance stops, with the requests it is at, and starts from its file. *)

Posting == {"posting", "destroying", "writing", "deleting", "starting"}

Stop(h) ==
    /\ h \in up
    /\ up' = up \ {h}
    /\ bots' = [bots EXCEPT ![h] = <<>>]
    /\ visitor' = [v \in Visitors |-> IF visitor[v] # Gone /\ visitor[v].host = h /\ visitor[v].pc \in Posting
                                      THEN Gone ELSE visitor[v]]
    /\ making' = IF making # Gone /\ cm[making.entry].host = h /\ making.pc = "sent" THEN Gone ELSE making
    /\ UNCHANGED <<issued, file, client>>

Start(h) ==
    /\ h \in Hosts \ up
    /\ up' = up \cup {h}
    /\ bots' = [bots EXCEPT ![h] = SetToSeq({[account |-> a, named |-> TRUE] : a \in DOMAIN file[h]})]
    /\ UNCHANGED <<issued, file, client, making, visitor>>

-----------------------------------------------------------------------------
(* Invites *)

\* /auth/create, for an instance of the list, if it can be reached; each id is new.
SendInvite(k, id) ==
    /\ making = Gone
    /\ k \in DOMAIN cm /\ cm[k].host \in up
    /\ \A h \in Hosts : id \notin issued[h] /\ \A a \in DOMAIN file[h] : file[h][a] # id
    /\ \A v \in Visitors : visitor[v] # Gone => visitor[v].id # id
    /\ making' = [pc |-> "sent", entry |-> k, id |-> id]
    /\ UNCHANGED <<up, servers, client, visitor>>

\* addBotInvite, at the instance
RecordInvite ==
    /\ making # Gone /\ making.pc = "sent"
    /\ issued' = [issued EXCEPT ![cm[making.entry].host] = @ \cup {making.id}]
    /\ making' = [making EXCEPT !.pc = "made"]
    /\ UNCHANGED <<up, file, bots, client, visitor>>

InviteMade ==
    /\ making # Gone /\ making.pc = "made"
    /\ cm' = [cm EXCEPT ![making.entry].invites = @ \cup {making.id}]
    /\ making' = Gone
    /\ UNCHANGED <<up, servers, ready, rounds, visitor>>

ListedAt(id) == Index(cm, LAMBDA x : id \in x.invites)

\* /auth/init/:inviteId: the first instance that lists it is asked.
OpenInvite(v, id) ==
    LET k == ListedAt(id)
    IN /\ visitor[v] = Gone
       /\ OneByOne => \A w \in Visitors : visitor[w] = Gone
       /\ k # 0
       /\ visitor' = [visitor EXCEPT ![v] = [pc |-> "opening", id |-> id, host |-> cm[k].host]]
       /\ UNCHANGED <<up, servers, client, making>>

\* getBotInvite; the invite is kept in the session while the visitor is at Reddit.
InviteRead(v) ==
    /\ visitor[v] # Gone /\ visitor[v].pc = "opening"
    /\ visitor' = [visitor EXCEPT ![v] = IF @.host \in up /\ @.id \in issued[@.host]
                                         THEN [@ EXCEPT !.pc = "authorizing"] ELSE Gone]
    /\ UNCHANGED <<up, servers, client, making>>

\* botCallback: an account was authorized; the session ends in any case.
Callback(v, account) ==
    LET k == ListedAt(visitor[v].id)
    IN /\ visitor[v] # Gone /\ visitor[v].pc = "authorizing"
       /\ visitor' = [visitor EXCEPT ![v] =
                IF k = 0 \/ cm[k].host \notin up THEN Gone
                ELSE [pc |-> "posting", id |-> @.id, host |-> cm[k].host, account |-> account, found |-> FALSE]]
       /\ UNCHANGED <<up, servers, client, making>>

-----------------------------------------------------------------------------
(* addBot, at the instance *)

At(v, pc) == visitor[v] # Gone /\ visitor[v].pc = pc

Existing(h, account) == Index(bots[h], LAMBDA b : b.named /\ b.account = account)

\* An invite that is not found any more does not stop the request.
LookForBot(v) ==
    LET x == visitor[v]
    IN /\ At(v, "posting")
       /\ visitor' = [visitor EXCEPT ![v].found = x.id \in issued[x.host],
                                     ![v].pc = IF Existing(x.host, x.account) = 0 THEN "writing" ELSE "destroying"]
       /\ UNCHANGED <<up, servers, client, making>>

\* splice(index, 1): -1 is the last.
WithoutBot(list, k) == IF list = <<>> THEN list ELSE IF k = 0 THEN Front(list) ELSE RemoveAt(list, k)

BotDestroyed(v) ==
    LET x == visitor[v]
    IN /\ At(v, "destroying")
       /\ bots' = [bots EXCEPT ![x.host] = WithoutBot(@, Existing(x.host, x.account))]
       /\ visitor' = [visitor EXCEPT ![v].pc = "writing"]
       /\ UNCHANGED <<up, issued, file, client, making>>

\* addBot of the document: what the file has of the account is merged with the
\* new, which has the invite's subreddits if it was found.
WithBot(bound, x) ==
    [a \in DOMAIN bound \cup {x.account} |->
        IF a = x.account /\ x.found THEN x.id ELSE IF a \in DOMAIN bound THEN bound[a] ELSE NoInvite]

FileWritten(v) ==
    LET x == visitor[v]
    IN /\ At(v, "writing")
       /\ file' = [file EXCEPT ![x.host] = WithBot(@, x)]
       /\ visitor' = [visitor EXCEPT ![v].pc = "deleting"]
       /\ UNCHANGED <<up, issued, bots, client, making>>

\* The invite is deleted, and the bot made, without its account's name yet.
InviteDeleted(v) ==
    LET x == visitor[v]
    IN /\ At(v, "deleting")
       /\ issued' = [issued EXCEPT ![x.host] = @ \ {x.id}]
       /\ bots' = [bots EXCEPT ![x.host] = Append(@, [account |-> x.account, named |-> FALSE])]
       /\ visitor' = [visitor EXCEPT ![v].pc = "starting"]
       /\ UNCHANGED <<up, file, client, making>>

\* init; only then the request is answered.
BotStarted(v) ==
    LET x == visitor[v]
        k == Index(bots[x.host], LAMBDA b : ~b.named /\ b.account = x.account)
    IN /\ At(v, "starting")
       /\ bots' = IF k = 0 THEN bots ELSE [bots EXCEPT ![x.host][k].named = TRUE]
       /\ visitor' = [visitor EXCEPT ![v] = Gone]
       /\ UNCHANGED <<up, issued, file, client, making>>

-----------------------------------------------------------------------------
(* The specification *)

RoundMoves(r) == Look(r) \/ Answer(r) \/ AnswerArrives(r) \/ AskingFails(r) \/ Wake(r)

AddingBot(v) == LookForBot(v) \/ BotDestroyed(v) \/ FileWritten(v) \/ InviteDeleted(v) \/ BotStarted(v)

WebNext ==
    \/ \E r \in Rounds : FirstVisit(r) \/ RoundMoves(r)
    \/ \E k \in DOMAIN cm : Elapse(k)
    \/ \E h \in Hosts : Stop(h) \/ Start(h)
    \/ \E k \in DOMAIN cm, id \in Ids : SendInvite(k, id)
    \/ RecordInvite \/ InviteMade
    \/ \E v \in Visitors : \/ \E id \in Ids : OpenInvite(v, id)
                           \/ InviteRead(v)
                           \/ \E a \in Accounts : Callback(v, a)
                           \/ AddingBot(v)

-----------------------------------------------------------------------------
(* Properties *)

\* The client has each instance once: whichever is found for a host or an invite
\* is the one that heartbeats keep up (refreshClient).
OneInstanceEach == \A j, k \in DOMAIN cm : cm[j].host = cm[k].host => j = k

\* No account has two bots that run (comment in addBot: spin down existing).
OneBotEach ==
    \A h \in Hosts : \A j, k \in DOMAIN bots[h] :
        bots[h][j].named /\ bots[h][k].named /\ bots[h][j].account = bots[h][k].account => j = k

\* An invite is spent only when the file has its bot, bound to its subreddits:
\* whenever the instance stops, one of them is there (addBot).
SpentWhenWritten ==
    [][\A h \in Hosts : \A id \in issued[h] \ issued'[h] : \E a \in DOMAIN file[h] : file[h][a] = id]_webVars

\* Bots that run are those of the file, so that a start brings them back.
RunningIsWritten == \A h \in Hosts : \A k \in DOMAIN bots[h] : bots[h][k].account \in DOMAIN file[h]

IsListed(h, id) == \E k \in DOMAIN cm : cm[k].host = h /\ cm[k].online /\ id \in cm[k].invites

\* An invite of an instance that stays up comes to be listed, whatever heartbeat
\* overtook its making, and whether or not its instance had been away.
InvitesListed ==
    \A h \in Hosts, id \in Ids :
        []<>(ready /\ h \in up /\ id \in issued[h] => IsListed(h, id))
=============================================================================
