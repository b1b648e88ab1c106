-------------------------------- MODULE Bots --------------------------------
(***************************************************************************)
(* A bot, the subreddits it moderates, their managers, and the invites by  *)
(* which it is given new ones.                                             *)
(*                                                                         *)
(* The health loop accepts the mod invitations it may accept by itself and *)
(* builds the managers anew; a user of the web interface finishes the      *)
(* onboarding of a subreddit, which builds them too, or deletes invites;   *)
(* the operator has the bot rebuilt.  An operation is split at its awaits. *)
(***************************************************************************)
EXTENDS Naturals, FiniteSets, SequencesExt

CONSTANTS
    Subs,       \* subreddits; an invite is named by its own
    Acceptable, \* those whose invites have neither guests nor a config
    Excluded,   \* those the operator has the bot leave alone
    Orderly     \* whether operations do not overlap, nor act on stale knowledge

ASSUME BotsAssumption ==
    Acceptable \subseteq Subs /\ Excluded \subseteq Subs /\ Orderly \in BOOLEAN

VARIABLES
    moderated,  \* at Reddit: what the bot moderates
    pending,    \* at Reddit: where it is invited to be a moderator
    known,      \* moderatedSubreddits
    managers,   \* subManagers, by subreddit
    shared,     \* the subreddits of the shared stream
    invites,    \* subredditInvites of the bot's entity
    table,      \* the invites in the database
    running,
    loop,       \* the health loop: not begun, behind runManagers, on, ended
    destroying, \* destroy waits for healthStopped
    job         \* what each process awaits

botVars == <<moderated, pending, known, managers, shared, invites, table,
             running, loop, destroying, job>>

reddit == <<moderated, pending>>

Actor == {"health", "user"}

\* at: the index in the array that is iterated over; rest: subreddits that are
\* still to be looked at for missing managers.
Job == [pc : {"idle", "early", "accepting", "deleting", "listing", "destroying",
              "creating", "initing", "outfitting"},
        invite : Subs \cup {"none"}, at : Nat, run : SUBSET Subs, rest : SUBSET Subs,
        making : Subs \cup {"none"}, changed : BOOLEAN]

Resting == [pc |-> "idle", invite |-> "none", at |-> 0, run |-> {}, rest |-> {},
            making |-> "none", changed |-> FALSE]

Listing == [Resting EXCEPT !.pc = "listing"]

BotsTypeOK ==
    /\ {running, destroying} \subseteq BOOLEAN
    /\ moderated \subseteq Subs /\ pending \subseteq Subs
    /\ known \subseteq Subs /\ shared \subseteq Subs /\ table \subseteq Subs
    /\ managers \in Seq(Subs) /\ invites \in Seq(Subs)
    /\ loop \in {"none", "starting", "on", "ended"}
    /\ job \in [Actor -> Job]

Has(list, s) == \E i \in 1..Len(list) : list[i] = s

\* A constructed bot whose entity was read, before its first build.
BotInit ==
    /\ moderated \in SUBSET Subs
    /\ pending = {} /\ known = {} /\ shared = {} /\ table = {}
    /\ managers = <<>> /\ invites = <<>>
    /\ running = FALSE /\ loop = "none" /\ destroying = FALSE
    /\ job = [a \in Actor |-> IF a = "health" THEN Listing ELSE Resting]

Others(a) == \A b \in Actor \ {a} : job[b].pc = "idle"

Free(a) == job[a].pc = "idle" /\ (Orderly => Others(a))

-----------------------------------------------------------------------------
(* Moderators, at Reddit *)

Noticed(s) == s \notin known /\ ~Has(managers, s) /\ \A a \in Actor : job[a].invite # s

Invite(s) ==
    /\ s \notin moderated \cup pending
    /\ Orderly => Noticed(s)
    /\ pending' = pending \cup {s}
    /\ UNCHANGED <<moderated, known, managers, shared, invites, table, running,
                   loop, destroying, job>>

Demod(s) ==
    /\ s \in moderated
    /\ moderated' = moderated \ {s}
    /\ UNCHANGED <<pending, known, managers, shared, invites, table, running,
                   loop, destroying, job>>

-----------------------------------------------------------------------------
(* Invites *)

\* Mutant: the last invite is taken for the one that is deleted.
DropsLast(list, s) == IF list = <<>> THEN list ELSE Front(list)

\* removeSubredditInvite: one that is not found stands for the last.
WithoutInvite(list, s) ==
    IF Has(list, s) THEN RemoveAt(list, CHOOSE i \in 1..Len(list) : list[i] = s)
    ELSE IF list = <<>> THEN list ELSE Front(list)

AddInvite(s) ==
    /\ s \notin table
    /\ \A a \in Actor : job[a].invite # s
    /\ Orderly => Others("none")
    /\ table' = table \cup {s}
    /\ invites' = Append(invites, s)
    /\ UNCHANGED <<reddit, known, managers, shared, running, loop, destroying, job>>

DeleteInvite(s) ==
    /\ Free("user")
    /\ Has(invites, s)
    /\ job' = [job EXCEPT !["user"] = [Resting EXCEPT !.pc = "deleting", !.invite = s]]
    /\ UNCHANGED <<reddit, known, managers, shared, invites, table, running, loop,
                   destroying>>

\* The iteration of checkModInvites over the array as it is, from an index on.
NextInvite(list, at) ==
    LET some == {i \in at..Len(list) : list[i] \in Acceptable}
    IN IF some = {} THEN (IF loop = "on" THEN Listing ELSE Resting)
       ELSE LET i == CHOOSE i \in some : \A j \in some : i <= j
            IN [Resting EXCEPT !.pc = "accepting", !.invite = list[i], !.at = i]

\* finishOnboarding: an invite for a subreddit the bot thinks it has goes first.
FinishOnboarding(s) ==
    LET ready == s \in known \/ Has(managers, s)
    IN /\ Free("user")
       /\ Has(invites, s)
       /\ Orderly => (ready <=> s \in moderated)
       /\ job' = [job EXCEPT !["user"] =
                    [Resting EXCEPT !.pc = IF ready THEN "early" ELSE "accepting", !.invite = s]]
       /\ UNCHANGED <<reddit, known, managers, shared, invites, table, running, loop,
                      destroying>>

\* acceptModInvite: Reddit makes the bot a moderator.
Accepted(a) ==
    LET s == job[a].invite
    IN /\ job[a].pc = "accepting"
       /\ s \in pending
       /\ moderated' = moderated \cup {s} /\ pending' = pending \ {s}
       /\ job' = [job EXCEPT ![a].pc = IF a = "user" THEN "listing" ELSE "deleting"]
       /\ UNCHANGED <<known, managers, shared, invites, table, running, loop,
                      destroying>>

\* There is no invitation, or the request fails: the invite stays.
AcceptFails(a) ==
    /\ job[a].pc = "accepting"
    /\ job' = [job EXCEPT ![a] = IF a = "user" THEN Resting
                                 ELSE NextInvite(invites, job[a].at + 1)]
    /\ UNCHANGED <<reddit, known, managers, shared, invites, table, running, loop,
                   destroying>>

\* The row is deleted, and then the entity's array is spliced.
Deletes(a) ==
    LET s == job[a].invite
    IN /\ job[a].pc \in {"early", "deleting"}
       /\ table' = table \ {s}
       /\ invites' = WithoutInvite(invites, s)
       /\ job' = [job EXCEPT ![a] =
             IF job[a].pc = "early" THEN [@ EXCEPT !.pc = "accepting"]
             ELSE IF a = "user" THEN Resting ELSE NextInvite(invites', job[a].at + 1)]
       /\ UNCHANGED <<reddit, known, managers, shared, running, loop, destroying>>

-----------------------------------------------------------------------------
(* buildManagers *)

\* The caller goes on: the loop to its heartbeat, onboarding to the guests and
\* the config of the invite, or to its deletion if there is no manager.
Built(a, list) ==
    IF a = "health" THEN Resting
    ELSE [Resting EXCEPT !.pc = IF Has(list, job[a].invite) THEN "outfitting" ELSE "deleting",
                         !.invite = job[a].invite]

Missing(rest, list) == {s \in rest : ~Has(list, s)}

\* What the build awaits next, once the array is list.
Onward(j, list) ==
    LET gone == {i \in j.at..Len(list) : j.pc # "creating" /\ list[i] \notin j.run}
        missing == Missing(j.rest, list)
    IN IF gone # {}
       THEN {[j EXCEPT !.pc = "destroying", !.changed = TRUE,
                       !.at = CHOOSE i \in gone : \A k \in gone : i <= k]}
       ELSE IF missing # {}
       THEN {[j EXCEPT !.pc = "creating", !.changed = TRUE, !.at = 0, !.making = s,
                       !.rest = j.rest \ {s}] : s \in missing}
       ELSE {[j EXCEPT !.pc = "initing", !.at = 0, !.making = "none", !.rest = {}]}

SubsToRun(subs) == subs \ Excluded

\* getModeratedSubreddits(true), and what is to run.
Listed(a) ==
    LET run == SubsToRun(moderated)
    IN /\ job[a].pc = "listing"
       /\ known' = moderated
       /\ \E j \in Onward([job[a] EXCEPT !.at = 1, !.run = run, !.rest = run], managers) :
             job' = [job EXCEPT ![a] = j]
       /\ UNCHANGED <<reddit, managers, shared, invites, table, running, loop,
                      destroying>>

\* The request fails: the loop waits for the next heartbeat, a bot that does not
\* run yet is given up, and an onboarding ends.
ListingFails(a) ==
    /\ job[a].pc = "listing"
    /\ job' = [job EXCEPT ![a] = Built(a, <<>>)]
    /\ UNCHANGED <<reddit, known, managers, shared, invites, table, running, loop,
                   destroying>>

\* Mutant: the manager after the one that was destroyed goes.
SplicesNext(list, at) == IF at < Len(list) THEN RemoveAt(list, at + 1) ELSE list

\* splice(index, 1)
Splice(list, at) == IF at <= Len(list) THEN RemoveAt(list, at) ELSE list

\* The manager was destroyed; the loop goes on behind it in the shorter array.
Destroyed(a) ==
    /\ job[a].pc = "destroying"
    /\ managers' = Splice(managers, job[a].at)
    /\ \E j \in Onward([job[a] EXCEPT !.at = @ + 1], managers') :
           job' = [job EXCEPT ![a] = j]
    /\ UNCHANGED <<reddit, known, shared, invites, table, running, loop, destroying>>

\* createManager, which may fail: then there is none until the next build.
Created(a) ==
    /\ job[a].pc = "creating"
    /\ managers' = Append(managers, job[a].making)
    /\ \E j \in Onward(job[a], managers') : job' = [job EXCEPT ![a] = j]
    /\ UNCHANGED <<reddit, known, shared, invites, table, running, loop, destroying>>

CreationFails(a) ==
    /\ job[a].pc = "creating"
    /\ \E j \in Onward(job[a], managers) : job' = [job EXCEPT ![a] = j]
    /\ UNCHANGED <<reddit, known, managers, shared, invites, table, running, loop,
                   destroying>>

\* parseSharedStreams, if the managers changed; all of them share.
SharedAfter(j, list) == IF j.changed THEN ToSet(list) ELSE shared

\* initManager for the new ones, and the end of the build.  The first build is
\* followed by runManagers, which looks at the invites before the loop.
Inited(a) ==
    /\ job[a].pc = "initing"
    /\ shared' = SharedAfter(job[a], managers)
    /\ IF a = "health" /\ loop = "none"
       THEN /\ running' = TRUE /\ loop' = "starting"
            /\ job' = [job EXCEPT ![a] = NextInvite(invites, 1)]
       ELSE /\ job' = [job EXCEPT ![a] = Built(a, managers)]
            /\ UNCHANGED <<running, loop>>
    /\ UNCHANGED <<reddit, known, managers, invites, table, destroying>>

\* Guests and config of the invite are set, or fetching or writing the config
\* fails; the invite goes in either case.
Outfitted ==
    /\ job["user"].pc = "outfitting"
    /\ job' = [job EXCEPT !["user"].pc = "deleting"]
    /\ UNCHANGED <<reddit, known, managers, shared, invites, table, running, loop,
                   destroying>>

-----------------------------------------------------------------------------
(* The health loop, and a rebuild of the bot *)

LoopBegins ==
    /\ loop = "starting" /\ job["health"].pc = "idle"
    /\ loop' = "on"
    /\ UNCHANGED <<reddit, known, managers, shared, invites, table, running,
                   destroying, job>>

\* The time for a heartbeat has come, and the test of the client succeeds.
Heartbeat ==
    /\ loop = "on" /\ running
    /\ Free("health")
    /\ job' = [job EXCEPT !["health"] = NextInvite(invites, 1)]
    /\ UNCHANGED <<reddit, known, managers, shared, invites, table, running, loop,
                   destroying>>

\* destroy waits for the loop's end.
Destroy ==
    /\ ~destroying
    /\ Orderly => loop = "on" /\ Others("none")
    /\ destroying' = TRUE /\ running' = FALSE
    /\ UNCHANGED <<reddit, known, managers, shared, invites, table, loop, job>>

\* The loop ends with healthStopped; the application constructs the bot anew,
\* with the invites of the database.  What a user began with the old one is not
\* followed any further.
LoopEnds ==
    /\ loop = "on" /\ ~running /\ job["health"].pc = "idle"
    /\ managers' = <<>> /\ known' = {} /\ shared' = {}
    /\ invites' = SetToSeq(table)
    /\ running' = FALSE /\ loop' = "none" /\ destroying' = FALSE
    /\ job' = [a \in Actor |-> IF a = "health" THEN Listing ELSE Resting]
    /\ UNCHANGED <<reddit, table>>

-----------------------------------------------------------------------------
(* The specification *)

\* Bound: those that the operator excludes stay as they are.
Changing == Subs \ Excluded

Moderators == \E s \in Changing : Invite(s) \/ Demod(s)

Onboarders == \E s \in Changing : AddInvite(s) \/ DeleteInvite(s) \/ FinishOnboarding(s)

\* An await of a process settles.
Settles(a) == Accepted(a) \/ Deletes(a) \/ Listed(a) \/ Destroyed(a) \/ Created(a) \/ Inited(a)

Fails(a) == AcceptFails(a) \/ ListingFails(a) \/ CreationFails(a)

BotNext ==
    \/ Moderators \/ Onboarders
    \/ \E a \in Actor : Settles(a) \/ Fails(a)
    \/ Outfitted \/ LoopBegins \/ Heartbeat \/ Destroy \/ LoopEnds

-----------------------------------------------------------------------------
(* Properties *)

\* The entity's invites are those of the database: the web interface shows, the
\* health loop accepts and a restart finds the same ones (removeSubredditInvite).
InvitesAgree == ToSet(invites) = table /\ Len(invites) = Cardinality(table)

\* No subreddit has two managers, which would handle its activities twice
\* (buildManagers creates managers that do not already exist).
OneManager == Cardinality(ToSet(managers)) = Len(managers)

\* What the operator excludes is never run on (excludeSubreddits).
ExcludedAlone == ToSet(managers) \cap Excluded = {}

\* Between builds the shared stream polls for the managers there are.
SharedFollows ==
    (\A a \in Actor : job[a].pc \notin {"destroying", "creating", "initing"})
       => shared = ToSet(managers)

\* In the end Reddit answers; that there is no invitation is an answer.
Undisturbed ==
    <>[][~\E a \in Actor : Fails(a) /\ ~(AcceptFails(a) /\ job[a].invite \notin pending)]_botVars

Runs == loop = "on" /\ running

\* A subreddit that the bot goes on moderating has a manager in the end, and one
\* that it no longer moderates has none, whatever else goes on (comments in
\* buildManagers).
ManagersFollow ==
    Undisturbed => \A s \in Changing :
        /\ []<>~(Runs /\ s \in moderated /\ ~Has(managers, s))
        /\ []<>~(Runs /\ s \notin moderated /\ Has(managers, s))

\* An invitation that the bot may accept by itself is not left lying, although
\* the invites are deleted from the array that is gone through (checkModInvites).
InvitesTaken ==
    Undisturbed => \A s \in Acceptable : []<>~(Runs /\ s \in pending /\ Has(invites, s))

\* A rebuild ends, if the bot was running (destroy).
RebuildsEnd == destroying ~> ~destroying
=============================================================================
