------------------------------- MODULE CallCases -------------------------------
(***************************************************************************)
(* Inputs for actions that send something and for what is made of          *)
(* requests, and what log messages, comments, the schema and the           *)
(* documentation say of them.                                              *)
(***************************************************************************)
EXTENDS OutgoingActions, Requests, FilterCases

-----------------------------------------------------------------------------
(* What is sent *)

\* A target where nothing is wrong
SoundTarget(kind) ==
    [kind |-> kind, fetched |-> TRUE, archived |-> FALSE, canMod |-> TRUE, own |-> TRUE, removed |-> TRUE,
     fault |-> "none", limited |-> 0]

CommentTargets ==
    UNION {LET t == SoundTarget(kind)
           IN {t, [t EXCEPT !.archived = TRUE], [t EXCEPT !.canMod = FALSE], [t EXCEPT !.removed = FALSE],
               [t EXCEPT !.fault = "create"], [t EXCEPT !.fault = "lock"], [t EXCEPT !.fault = "distinguish"]}
              \cup IF kind \in {"self", "unparsable"} THEN {} ELSE {[t EXCEPT !.fetched = FALSE]}
              \cup IF kind = "permalink" THEN {[t EXCEPT !.own = FALSE]} ELSE {} :
           kind \in {"self", "parent", "permalink", "unparsable"}}

PostTargets ==
    UNION {LET t == SoundTarget(kind)
           IN {t, [t EXCEPT !.canMod = FALSE], [t EXCEPT !.fault = "create"], [t EXCEPT !.fault = "lock"],
               [t EXCEPT !.fault = "distinguish"]}
              \cup {[t EXCEPT !.limited = n] : n \in 1 .. 4}
              \cup IF kind = "self" THEN {} ELSE {[t EXCEPT !.fetched = FALSE]} :
           kind \in {"self", "subreddit"}}

PickComments ==
    \E first \in CommentTargets, rest \in {<<>>} \cup {<<t>> : t \in CommentTargets},
       item \in {"comment", "submission"}, modifiers \in SUBSET {"asModTeam", "lock", "distinguish"} :
        Picks("comments", [targets |-> <<first>> \o rest, item |-> item, dryRun |-> FALSE,
                           asModTeam |-> "asModTeam" \in modifiers, lock |-> "lock" \in modifiers,
                           distinguish |-> "distinguish" \in modifiers])

PickSubmissions ==
    \E first \in PostTargets, rest \in {<<>>} \cup {<<t>> : t \in PostTargets},
       options \in SUBSET {"url", "content", "lock", "sticky"} :
        Picks("submissions", [targets |-> <<first>> \o rest, dryRun |-> FALSE, distinguish |-> FALSE,
                              url |-> "url" \in options, content |-> "content" \in options,
                              lock |-> "lock" \in options, sticky |-> "sticky" \in options])

PickMessages ==
    \E to \in {Unset, "", "u", "r", "invalid"}, asSubreddit \in BOOLEAN, dryRun \in BOOLEAN :
        Picks("messages", [to |-> to, asSubreddit |-> asSubreddit, dryRun |-> dryRun])

PickBans ==
    \E reason, note \in {Unset, 0} \cup 95 .. 105, message \in {Unset, 0, 200}, footer \in {0, 50} :
        Picks("bans", [reason |-> reason, note |-> note, message |-> message, footer |-> footer, dryRun |-> FALSE])

Outcome == IF IsAbout("comments") THEN CommentOutcome(subject) ELSE SubmissionOutcome(subject)

DryOutcome ==
    IF IsAbout("comments") THEN CommentOutcome([subject EXCEPT !.dryRun = TRUE])
    ELSE SubmissionOutcome([subject EXCEPT !.dryRun = TRUE])

Sends == IsAbout("comments") \/ IsAbout("submissions")

Faultless == \A i \in DOMAIN subject.targets : subject.targets[i].fault = "none" /\ subject.targets[i].limited = 0

\* A dry run does nothing, and tells what the same action would have done if
\* Reddit accepts it (Action/index.ts:215); a link with a text excepted, of
\* which the options cannot be put together.
DryRunForetells ==
    Sends =>
        /\ \A i \in DOMAIN subject.targets : DryOutcome.made[i] = <<>>
        /\ Faultless /\ (IsAbout("submissions") => ~Undefined(subject)) =>
              /\ DryOutcome.results = Outcome.results
              /\ DryOutcome.succeeded = Outcome.succeeded
              /\ DryOutcome.raised = Outcome.raised

\* What the bot creates it remembers, so that it is ignored when it is polled
\* (comment at CommentAction.ts:152), even if something fails afterwards; a
\* submission excepted that Reddit first refused because it was too soon.
OwnCreationsKnown ==
    Sends =>
        \A i \in DOMAIN subject.targets :
            /\ Contains(Outcome.made[i], "create")
            /\ subject.targets[i].limited = 0
            => Contains(Outcome.made[i], "remember")

\* A target that cannot be commented on or posted to is told of, and keeps no
\* other from its comment: only a call to Reddit that fails ends the action
\* (CommentAction.ts:99-135).
OthersStillReached ==
    Sends =>
        \/ Outcome.results = DOMAIN subject.targets
        \/ \E i \in DOMAIN subject.targets :
              LET t == subject.targets[i]
              IN t.fault # "none" \/ t.limited > 0 \/ (t.kind = "parent" /\ ~t.fetched)
        \/ (IsAbout("submissions") /\ Undefined(subject))

\* No target gets two submissions, however often Reddit says that it is too soon
\* (SubmissionAction.ts:220-239).
PostedOnce ==
    Sends => \A i \in DOMAIN subject.targets : \A j, k \in DOMAIN Outcome.made[i] :
        Outcome.made[i][j] = "create" /\ Outcome.made[i][k] = "create" => j = k

\* A message goes to the author, or as "to" says: to a user if it is a name
\* alone, to a subreddit if it says so, but not from one (MessageAction.ts:131-141).
MessagesGoWhereTold ==
    IsAbout("messages") =>
        LET from == IF subject.asSubreddit THEN "subreddit" ELSE "bot"
            told == IF subject.to = Unset THEN [to |-> "author", from |-> from]
                    ELSE IF subject.to \in {"", "u"} THEN [to |-> "user", from |-> from]
                    ELSE IF subject.to = "r" /\ ~subject.asSubreddit THEN [to |-> "subreddit", from |-> from]
                    ELSE Nobody
        IN MessageSent(subject) = IF subject.dryRun THEN Nobody ELSE told

\* Reasons and notes of bans fit the 100 characters that they are truncated to
\* (BanAction.ts:122,137), and what fits is sent as it is.
BanTextsFit ==
    IsAbout("bans") =>
        LET sent == BanSent(subject)
            Fits(text, given) == IF given = Unset THEN text = Unset
                                 ELSE text <= 100 /\ (given <= 100 => text = given)
        IN Fits(sent.reason, subject.reason) /\ Fits(sent.note, subject.note)

-----------------------------------------------------------------------------
(* Retries *)

Errors ==
    {[name |-> n, response |-> TRUE, status |-> s, after |-> a] :
        <<n, s>> \in {<<"RateLimitError", 429>>, <<"StatusCodeError", 503>>, <<"StatusCodeError", 404>>,
                      <<"RequestError", Unset>>},
        a \in {0, 2, 3}}
    \cup {[name |-> "RequestError", response |-> FALSE, status |-> Unset, after |-> a] : a \in {0, 3}}

PickErrors ==
    \E length \in 1 .. 4, requests \in {1, 2}, others \in {0, 1} :
        \E errs \in [1 .. length -> Errors] :
            Picks("errors", [errs |-> errs, opts |-> [maxRequestRetry |-> requests, maxOtherRetry |-> others,
                                                      clearRetryCountAfter |-> 3]])

\* Neither kind of error is retried more often than its limit without a pause
\* as long as the counts are kept, and each is until then; running out of
\* requests is never retried (the messages of createRetryHandler, "n/max in so
\* many minutes").
RetriedWithinLimit ==
    IsAbout("errors") =>
        LET errs == subject.errs
            opts == subject.opts
            \* Those since the last pause that are counted together with error i
            Alike(i) == {j \in 1 .. i : /\ \A k \in j + 1 .. i : errs[k].after < opts.clearRetryCountAfter
                                        /\ ~IsRateLimitError(errs[j])
                                        /\ IsBlip(errs[j]) <=> IsBlip(errs[i])}
            Limit(i) == IF IsBlip(errs[i]) THEN opts.maxRequestRetry ELSE opts.maxOtherRetry
        IN \A i \in DOMAIN errs :
               Retries(errs, opts)[i] <=>
                   ~IsRateLimitError(errs[i]) /\ Cardinality(Alike(i)) <= Limit(i)

-----------------------------------------------------------------------------
(* Urls *)

PickUrls ==
    \E kind \in {"gist", "blob", "regexr", "other"}, file \in 0 .. 3, files \in SUBSET {1, 2},
       api, raw, page \in {"ok", "refused", "lost"}, truncated \in BOOLEAN, expression \in BOOLEAN :
        Picks("urls", [url |-> [kind |-> kind, file |-> file],
                       web |-> [api |-> api, files |-> files, truncated |-> truncated, raw |-> raw, page |-> page,
                                expression |-> expression]])

Fetched == FetchExternalResult(subject.url, subject.web)

\* Contents are those of the address or of what it is an address of, never of
\* an answer that refuses, but for the full contents of a long gist
\* (fetchExternalResult: "Response was not OK").
NoRefusalFetched ==
    IsAbout("urls") =>
        /\ Fetched.from = "page" => subject.web.page = "ok"
        /\ Fetched.from = "raw" => subject.web.raw = "ok"
        /\ Fetched.from = "refusal" => subject.url.kind = "gist" /\ subject.web.truncated

\* Of several files of a gist the one that is named is fetched and no other
\* (fetchExternalResult: "it did not contain a file named").
NamedFileFetched ==
    IsAbout("urls") /\ subject.url.kind = "gist" /\ Cardinality(subject.web.files) > 1 /\ subject.url.file # 0 =>
        Fetched.file \in {0, subject.url.file}

-----------------------------------------------------------------------------
(* Keys *)

CachePrefixes == {<<>>, <<"p">>, <<"b">>}

Kinds == {"itemCrit", "authorCrit"}

\* Names may begin with, or end in, another; those of authors, and of the
\* subreddits that are their profiles, may have hyphens.
NamesOf(kind) ==
    {<<"b">>, <<"a">>, <<"b", "a">>, <<"a", "b">>} \cup (IF kind = "authorCrit" THEN {<<"a", "-", "b">>} ELSE {})

KeysOf(kind) ==
    [prefix : CachePrefixes, kind : {kind}, sub : {<<"s">>, <<"s", "-", "b">>}, name : NamesOf(kind), hash : {<<"0">>, <<"b">>}]

\* Caches share a store only where it is redis.
PickKeys ==
    \E cache \in CachePrefixes, store \in {"memory", "redis"}, kind, other \in Kinds :
        \E name \in NamesOf(kind), key \in KeysOf(kind) \cup {k \in KeysOf(other) : k.hash = <<"0">>} :
            /\ store = "memory" => key.prefix = cache
            /\ Picks("keys", [keys |-> {key}, store |-> store, cache |-> cache, kind |-> kind, name |-> name])

\* No hyphen but those that every key has, no hash that looks like part of the
\* name.
PlainKey(k) ==
    /\ k.kind = "authorCrit" => "-" \notin Range(k.name) \cup Range(k.sub)
    /\ Range(k.hash) \cap Range(subject.name) = {}

\* A reset leaves no result of its activity or author, and takes none of
\* another cache of the same store, nor any of another kind, nor of names that
\* do not begin as the name does (comment at Cache/index.ts:119: the pattern
\* will still match a key with a prefix).  Excepted are a pattern that the
\* prefix is part of, and, as the pattern for authors has a wildcard before the
\* name, authors and subreddits with hyphens and hashes that look like it.
ResetTakesOwnOnly ==
    IsAbout("keys") =>
        LET pattern == ResetPattern(subject.kind, subject.name)
            left == AfterDelete(subject.keys, subject.store, subject.cache, pattern)
            OfTarget(k) == k.kind = subject.kind /\ k.name = subject.name
        IN subject.cache = <<>> \/ ~HasPrefix(subject.cache, pattern) =>
               /\ \A k \in left : ~(k.prefix = subject.cache /\ OfTarget(k))
               /\ \A k \in subject.keys \ left :
                     /\ k.prefix = subject.cache /\ k.kind = subject.kind
                     /\ PlainKey(k) => IsPrefix(subject.name, k.name)

-----------------------------------------------------------------------------
(* Retention *)

Policies == {Unset, [kind |-> "number", most |-> 1], [kind |-> "number", most |-> 2], [kind |-> "duration", for |-> 1],
             [kind |-> "invalid"]}

PickRetention ==
    \E override, config, bot, operator \in Policies, parsed \in BOOLEAN, own \in SUBSET (0 .. 3), others \in {{}, 0 .. 3} :
        Picks("retention", [levels |-> [override |-> override, config |-> config, bot |-> bot, operator |-> operator],
                            parsed |-> parsed,
                            events |-> [manager : {1}, age : own] \cup [manager : {2}, age : others]])

\* The last so many events of the subreddit, or those since some time, are kept
\* and no others, and no events of other subreddits are touched; the override
\* comes before the config, the config before the bot's and the operator's
\* policy, once it is parsed (docs/operator/database.md:91-134).
RetentionKept ==
    IsAbout("retention") =>
        LET l == subject.levels
            policy == IF l.override # Unset THEN l.override
                      ELSE IF l.config # Unset /\ subject.parsed THEN l.config
                      ELSE IF l.bot # Unset THEN l.bot ELSE l.operator
            left == RetentionCleanup(subject.events, 1, Policy(l, subject.parsed))
            gone == subject.events \ left
            own == {e \in left : e.manager = 1}
        IN /\ \A e \in gone : e.manager = 1
           /\ policy = Unset \/ policy.kind = "invalid" => gone = {}
           /\ policy # Unset /\ policy.kind = "number" =>
                 /\ Cardinality(own) <= policy.most
                 /\ gone # {} => Cardinality(own) = policy.most
                 /\ \A e \in own, f \in gone : e.age < f.age
           /\ policy # Unset /\ policy.kind = "duration" =>
                 (\A e \in own : e.age <= policy.for) /\ (\A f \in gone : f.age > policy.for)
=============================================================================
