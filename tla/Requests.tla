------------------------------- MODULE Requests -------------------------------
(***************************************************************************)
(* Requests that fail, and what is made of the answers to others: which    *)
(* errors are retried, what a url stands for, which keys of a cache match  *)
(* a pattern, and which events retention deletes.                          *)
(***************************************************************************)
EXTENDS Comparisons, SequencesExt

-----------------------------------------------------------------------------
(* createRetryHandler.  An error is a record: name is "RateLimitError",    *)
(* "StatusCodeError" or another; response tells whether it came with one;  *)
(* status is that of the response; after counts the minutes since the last *)
(* error.                                                                  *)

Blips == {401, 500, 502, 503, 504, 522}

IsRequestError(err) == err.response

IsRateLimitError(err) == IsRequestError(err) /\ err.name = "RateLimitError"

\* A status that is not set counts as a blip too.
IsBlip(err) == IsRequestError(err) /\ err.status \in Blips \cup {Unset}

NoErrors == [timeouts |-> 0, others |-> 0, retry |-> TRUE]

\* Mutant: only the count of failed requests is cleared.
ClearsTimeouts(memory, err, opts) ==
    IF err.after >= opts.clearRetryCountAfter THEN [memory EXCEPT !.timeouts = 0] ELSE memory

\* Each error begins the time anew after which the counts are cleared.
Cleared(memory, err, opts) ==
    IF err.after >= opts.clearRetryCountAfter THEN NoErrors ELSE memory

\* Whether to retry after an error, with the counts it leaves.
AfterError(memory, err, opts) ==
    LET m == Cleared(memory, err, opts)
    IN IF IsRateLimitError(err) THEN [m EXCEPT !.retry = FALSE]
       ELSE IF IsBlip(err)
       THEN [m EXCEPT !.timeouts = @ + 1, !.retry = m.timeouts + 1 <= opts.maxRequestRetry]
       ELSE [m EXCEPT !.others = @ + 1, !.retry = m.others + 1 <= opts.maxOtherRetry]

\* The answers to a sequence of errors.
Retries(errs, opts) ==
    LET memory[i \in 0 .. Len(errs)] ==
            IF i = 0 THEN NoErrors ELSE AfterError(memory[i - 1], errs[i], opts)
    IN [i \in DOMAIN errs |-> memory[i].retry]

-----------------------------------------------------------------------------
(* fetchExternalResult.  What a url looks like is its kind; web tells how  *)
(* each request is answered: "ok", "refused" (a status that is no success) *)
(* or "lost" (an exception).                                               *)

Failure == [from |-> "error", file |-> 0]
Text(from) == [from |-> from, file |-> 0]

\* The last resort: what the url itself answers.
Plain(web) == IF web.page = "ok" THEN Text("page") ELSE Failure

\* The file of a gist that is meant: the first unless one of several is named;
\* 0 if there is none. A gist with one file is not searched for the name.
FileOf(url, web) ==
    IF web.files = {} THEN 0
    ELSE IF Cardinality(web.files) > 1 /\ url.file # 0
    THEN (IF url.file \in web.files THEN url.file ELSE 0)
    ELSE CHOOSE f \in web.files : \A g \in web.files : f <= g

\* The error for a file that is not there is caught like any other, and a long
\* file's full contents are not asked whether they were refused.
FromGist(url, web) ==
    LET file == FileOf(url, web)
    IN IF web.api # "ok" \/ file = 0 THEN Plain(web)
       ELSE IF ~web.truncated THEN [from |-> "file", file |-> file]
       ELSE IF web.raw = "lost" THEN Plain(web)
       ELSE [from |-> IF web.raw = "ok" THEN "file" ELSE "refusal", file |-> file]

FromBlob(web) == IF web.raw = "ok" THEN Text("raw") ELSE Plain(web)

\* The expression is returned bare where callers take a pair.
FromRegexr(web) == IF web.page = "ok" /\ web.expression THEN Text("expression") ELSE Failure

FetchExternalResult(url, web) ==
    CASE url.kind = "gist" -> FromGist(url, web)
      [] url.kind = "blob" -> FromBlob(web)
      [] url.kind = "regexr" -> FromRegexr(web)
      [] OTHER -> Plain(web)

-----------------------------------------------------------------------------
(* interactWithCacheByKeyPattern, for the patterns of resetCacheForItem.    *)
(* Texts are sequences of letters, kinds of keys single ones.  A pattern   *)
(* is a sequence of words, each with a wildcard after it.                  *)

Occurs(word, at, text) == at + Len(word) <= Len(text) + 1 /\ SubSeq(text, at, at + Len(word) - 1) = word

Includes(text, word) == \E at \in 1 .. Len(text) + 1 : Occurs(word, at, text)

\* The words follow each other in the text, the first where it begins.
Globbed(pattern, text) ==
    \E at \in [DOMAIN pattern -> 1 .. Len(text) + 1] :
        /\ at[1] = 1
        /\ \A i \in DOMAIN pattern : Occurs(pattern[i], at[i], text)
        /\ \A i \in DOMAIN pattern : i > 1 => at[i] >= at[i - 1] + Len(pattern[i - 1])

\* The key of a result, as testItemCriteria and testAuthorCriteria make it; the
\* cache puts its prefix before it.
KeyText(key) ==
    key.prefix \o <<key.kind, "-">> \o (IF key.kind = "authorCrit" THEN key.sub \o <<"-">> ELSE <<>>)
    \o key.name \o <<"-">> \o key.hash

\* The name of an activity is at a fixed place; that of an author follows any
\* hyphen but the first.
ResetPattern(kind, name) ==
    IF kind = "itemCrit" THEN << <<kind, "-">> \o name >> ELSE << <<kind, "-">>, <<"-">> \o name >>

\* A pattern that has the prefix in it anywhere is taken to begin with it.
HasPrefix(prefix, pattern) == \E i \in DOMAIN pattern : Includes(pattern[i], prefix)

GlobPattern(prefix, pattern) ==
    IF HasPrefix(prefix, pattern) THEN pattern ELSE [pattern EXCEPT ![1] = prefix \o @]

\* Redis is asked for the pattern alone.
KeyMatches(store, prefix, pattern, key) ==
    /\ Globbed(GlobPattern(prefix, pattern), KeyText(key))
    /\ store = "memory" => Includes(KeyText(key), prefix)

AfterDelete(keys, store, prefix, pattern) == {k \in keys : ~KeyMatches(store, prefix, pattern, k)}

-----------------------------------------------------------------------------
(* retentionCleanup.  An event is of a manager and has an age; no two of a *)
(* manager are of the same age.                                            *)

NewerThan(events, e) == {f \in events : f.manager = e.manager /\ f.age < e.age}

\* Those past the first so many, newest first.
PastFirst(events, manager, retention) ==
    {e \in events : e.manager = manager /\ Cardinality(NewerThan(events, e)) >= retention.most}

TooOld(events, manager, retention) == {e \in events : e.manager = manager /\ e.age > retention.for}

\* The policy in force: of the override for the subreddit, its config, the bot,
\* the operator. Resources are made before the config is parsed, and keep what
\* they have if it cannot be.
Policy(levels, parsed) ==
    LET said == SelectSeq(<<levels.override, IF parsed THEN levels.config ELSE Unset, levels.bot, levels.operator>>,
                          LAMBDA p : p # Unset)
    IN IF said = <<>> THEN [kind |-> "none"] ELSE said[1]

\* A duration that cannot be parsed deletes nothing.
RetentionCleanup(events, manager, retention) ==
    CASE retention.kind \in {"none", "invalid"} -> events
      [] retention.kind = "number" -> events \ PastFirst(events, manager, retention)
      [] OTHER -> events \ TooOld(events, manager, retention)
=============================================================================
