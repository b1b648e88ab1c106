---------------------------- MODULE OutgoingActions ----------------------------
(***************************************************************************)
(* What actions send: comments and submissions to several targets,         *)
(* messages and bans.                                                      *)
(*                                                                         *)
(* A target is a record of what the action will find: whether it can be    *)
(* fetched, what is known of it, and which of the calls to Reddit that the *)
(* action makes for it fails.                                              *)
(***************************************************************************)
EXTENDS Comparisons, Sequences, SequencesExt

\* What an action has done: made[i]: what was done for target i; results: the
\* targets of which the result tells; raised: an error has ended it.
NothingDone(action) ==
    [made |-> [i \in DOMAIN action.targets |-> <<>>], results |-> {}, succeeded |-> FALSE, raised |-> FALSE]

Told(state, i) == [state EXCEPT !.results = @ \cup {i}]
Raise(state) == [state EXCEPT !.raised = TRUE]

\* The steps up to the one that fails
UntilFault(steps, fault) ==
    IF \E k \in DOMAIN steps : steps[k] = fault
    THEN SubSeq(steps, 1, (CHOOSE k \in DOMAIN steps : steps[k] = fault) - 1)
    ELSE steps

\* What was created is remembered as the bot's own before it is modified.
CreateSteps(modifiers) == <<"create", "remember">> \o modifiers

\* All steps are done for target i, or the first that fails ends the action.
DoneFor(state, i, steps, fault) ==
    LET done == UntilFault(steps, fault)
        with == [state EXCEPT !.made[i] = done]
    IN IF done # steps THEN Raise(with) ELSE [Told(with, i) EXCEPT !.succeeded = TRUE]

\* In a dry run nothing is done, and told as if it were.
ToldOnly(state, i) == [Told(state, i) EXCEPT !.succeeded = TRUE]

\* The targets in their order, until an error is raised.
OverTargets(action, For(_, _)) ==
    FoldLeftDomain(LAMBDA state, i : IF state.raised THEN state ELSE For(state, i),
                   NothingDone(action), action.targets)

-----------------------------------------------------------------------------
(* Comments *)

\* As the mod team the bot comments on what is removed in its own subreddit.
ModTeamRefuses(t) == ~t.canMod \/ ~t.own \/ ~t.removed

\* Targets that are passed over: a submission has no parent, a link leads
\* nowhere, nobody can reply.
CommentRefused(action, t) ==
    \/ t.kind = "parent" /\ action.item = "submission"
    \/ t.kind = "unparsable"
    \/ t.kind = "permalink" /\ ~t.fetched
    \/ t.archived
    \/ action.asModTeam /\ ModTeamRefuses(t)

\* The parent is fetched outside of the try that permalinks are fetched in.
ParentLost(action, t) == t.kind = "parent" /\ action.item = "comment" /\ ~t.fetched

\* As the mod team a comment is created locked or not, and distinguished.
CommentModifiers(action, t) ==
    IF action.asModTeam \/ ~t.canMod THEN <<>>
    ELSE (IF action.lock THEN <<"lock">> ELSE <<>>) \o (IF action.distinguish THEN <<"distinguish">> ELSE <<>>)

\* Mutant: the mod team's restrictions are looked at before a comment is made,
\* and no comment is made in a dry run.
CommentsInDryRun(action, state, i) ==
    LET t == action.targets[i]
    IN IF ParentLost(action, t) THEN Raise(state)
       ELSE IF CommentRefused([action EXCEPT !.asModTeam = @ /\ ~action.dryRun], t) THEN Told(state, i)
       ELSE IF action.dryRun THEN ToldOnly(state, i)
       ELSE IF action.asModTeam /\ t.fault = "create" THEN Told(state, i)
       ELSE DoneFor(state, i, CreateSteps(CommentModifiers(action, t)), t.fault)

\* One target of a comment action; a failing removal message ends nothing.
CommentOn(action, state, i) ==
    LET t == action.targets[i]
    IN IF ParentLost(action, t) THEN Raise(state)
       ELSE IF CommentRefused(action, t) THEN Told(state, i)
       ELSE IF action.dryRun THEN ToldOnly(state, i)
       ELSE IF action.asModTeam /\ t.fault = "create" THEN Told(state, i)
       ELSE DoneFor(state, i, CreateSteps(CommentModifiers(action, t)), t.fault)

CommentOutcome(action) == OverTargets(action, LAMBDA state, i : CommentOn(action, state, i))

-----------------------------------------------------------------------------
(* Submissions *)

\* tryPost: three attempts, as long as Reddit answers that it is too soon; the
\* error of an earlier attempt is raised even if a later one has posted.
Attempts(limited) == [created |-> IF limited > 2 THEN 0 ELSE 1, raised |-> limited > 0]

PostModifiers(action, t) ==
    IF ~t.canMod THEN <<>>
    ELSE (IF action.lock THEN <<"lock">> ELSE <<>>)
         \o (IF action.distinguish \/ action.sticky THEN <<"distinguish">> ELSE <<>>)

\* The options of a link with a text are put together with a name that is not
\* defined.
Undefined(action) == action.url /\ action.content

\* One target of a submission action
SubmitTo(action, state, i) ==
    LET t == action.targets[i]
        posts == Attempts(t.limited)
    IN IF t.kind = "subreddit" /\ ~t.fetched THEN Told(state, i)
       ELSE IF action.dryRun THEN ToldOnly(state, i)
       ELSE IF Undefined(action) THEN Raise(state)
       ELSE IF posts.raised
            THEN Raise([state EXCEPT !.made[i] = [k \in 1 .. posts.created |-> "create"]])
       ELSE DoneFor(state, i, [k \in 1 .. posts.created - 1 |-> "create"] \o CreateSteps(PostModifiers(action, t)), t.fault)

SubmissionOutcome(action) == OverTargets(action, LAMBDA state, i : SubmitTo(action, state, i))

-----------------------------------------------------------------------------
(* Messages and bans *)

\* parseRedditEntity, for a message
EntityType(prefix) == IF prefix = "r" THEN "subreddit" ELSE "user"

Nobody == [to |-> "nobody", from |-> "nobody"]

\* "to" is a name with or without a prefix, something that is no name, or Unset.
MessageRaises(action) ==
    \/ action.to = "invalid"
    \/ action.to # Unset /\ EntityType(action.to) = "subreddit" /\ action.asSubreddit

\* Whom a message goes to and whom it is from
MessageSent(action) ==
    IF MessageRaises(action) \/ action.dryRun THEN Nobody
    ELSE [to |-> IF action.to = Unset THEN "author" ELSE EntityType(action.to),
          from |-> IF action.asSubreddit THEN "subreddit" ELSE "bot"]

\* truncateStringToLength: the length of what is left of a text, with the dots
Truncated(length, limit) == IF length > limit THEN (limit - 3 - 1) + 3 ELSE length

\* The lengths of what is sent with a ban; the message is sent as it is.
BanSent(action) ==
    IF action.dryRun THEN Unset
    ELSE [reason |-> IF action.reason = Unset THEN Unset ELSE Truncated(action.reason, 100),
          note |-> IF action.note = Unset THEN Unset ELSE Truncated(action.note, 100),
          message |-> IF action.message = Unset THEN Unset ELSE action.message + action.footer]
=============================================================================
