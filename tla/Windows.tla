------------------------------- MODULE Windows -------------------------------
(***************************************************************************)
(* Windows: how much of an author's history a rule looks at.  Activities   *)
(* come in pages, newest first, and are fetched until there are enough of  *)
(* them (count), until they are too old (duration), until either is so     *)
(* (any) or both (all), or until too many were passed over (max).          *)
(***************************************************************************)
EXTENDS Criteria

\* An activity of a history; ok: its state passes the filters on states.
Activities == [id : Nat, age : Nat, kind : {"submission", "comment"}, ok : BOOLEAN,
               name : STRING, profile : BOOLEAN, over18 : BOOLEAN, own : BOOLEAN]

\* Filters on a listing: on subreddits, and on the states of submissions, of
\* comments, of any activity (here: whether there is such a filter).
HistoryFilters(Subs) == [subreddits : Subs \cup {Unset}, submissionState : BOOLEAN,
                         commentState : BOOLEAN, activityState : BOOLEAN]

\* buildSubredditFilter: what is missing is an empty list.
BuildSubredditFilter(val) ==
    [include |-> IF val.include = Unset THEN <<>> ELSE val.include,
     exclude |-> IF val.exclude = Unset THEN <<>> ELSE val.exclude]

HistoryFilterConfigToOptions(config) ==
    IF config.subreddits = Unset THEN config
    ELSE [config EXCEPT !.subreddits = BuildSubredditFilter(@)]

\* A window.  chunkSize: how many activities the first page may have; pre, post:
\* filters on each page, and on the whole; max: how many activities, or how old
\* ones, a filtered page may bring up.
WindowCriteria == [count : Nat \cup {Unset}, duration : Nat \cup {Unset}, satisfyOn : {"any", "all"},
                   chunkSize : Nat, pre : HistoryFilters({}) \cup {Unset}, post : HistoryFilters({}) \cup {Unset},
                   max : [items : Nat \cup {Unset}, age : Nat \cup {Unset}]]

\* windowConfigToWindowCriteria: a number is a count; a length of time a
\* duration.  Filters of the window itself are for the whole, unless there are
\* others for it.
ToWindowCriteria(config) ==
    LET full == CASE config.type = "number" -> [count |-> config.value, duration |-> Unset]
                  [] config.type = "duration" -> [count |-> Unset, duration |-> config.value]
                  [] config.type = "full" -> [count |-> config.count, duration |-> config.duration]
        Built(filters) == IF filters = Unset THEN Unset ELSE HistoryFilterConfigToOptions(filters)
        post == IF config.type # "full" THEN Unset
                ELSE Built(IF config.post # Unset THEN config.post ELSE config.filters)
    IN [count |-> full.count, duration |-> full.duration, post |-> post] @@
       (IF config.type = "full" THEN [satisfyOn |-> config.satisfyOn, chunkSize |-> config.chunkSize,
                                      pre |-> Built(config.pre), max |-> config.max]
        ELSE [satisfyOn |-> "any", chunkSize |-> 100, pre |-> Unset, max |-> [items |-> Unset, age |-> Unset]])

\* An activity is tested by the first filter that is there: a submission for
\* which there is none by that on comments.
StatePasses(item, opts) ==
    (\/ item.kind = "submission" /\ opts.submissionState
     \/ opts.commentState
     \/ opts.activityState) => item.ok

\* What is left of a listing after a filter on subreddits: lists to exclude are
\* looked at only where there is no list to include, not even an empty one.
InSubreddits(list, subs) ==
    IF subs.include # Unset THEN BatchTested(list, subs.include, TRUE)
    ELSE BatchTested(list, subs.exclude, FALSE)

\* filterListingWithHistoryOptions
FilterListing(list, opts) ==
    IF opts = Unset THEN list
    ELSE SelectSeq(IF opts.subreddits = Unset THEN list ELSE InSubreddits(list, opts.subreddits),
                   LAMBDA item : StatePasses(item, opts))

\* filterByTimeRequirement
InTime(list, duration) == SelectSeq(list, LAMBDA item : item.age < duration)

\* Both satisfied: whichever is bigger, but what was in time on this page is
\* not known here (another variable of the same name has it).
TakenForAll(pre, slice, count) ==
    IF count > Len(pre) THEN SubSeq(pre \o slice, 1, count) ELSE pre

\* Where the page begins in all that was fetched.
PageStart(acc, size) == acc.offset - size

\* What a page makes of the window: what was taken so far, what was looked at,
\* how much of the history was fetched.
PageOutcome(o, size, acc, length, slice, kept) ==
    LET timeHit == o.duration # Unset /\ Len(InTime(kept, o.duration)) # Len(kept)
        countHit == o.count # Unset /\ Len(acc.pre) + Len(kept) >= o.count
        all == o.satisfyOn = "all" /\ o.count # Unset /\ o.duration # Unset
        maxAge == o.pre # Unset /\ o.max.age # Unset /\ Len(InTime(slice, o.max.age)) # Len(slice)
        maxCount == o.pre # Unset /\ o.max.items # Unset /\ Len(acc.seen) + Len(slice) >= o.max.items
        seen == acc.seen \o (IF maxAge THEN InTime(slice, o.max.age) ELSE slice)
    IN CASE ~all /\ timeHit -> [acc EXCEPT !.pre = @ \o InTime(kept, o.duration), !.over = TRUE]
         [] ~all /\ countHit /\ ~timeHit -> [acc EXCEPT !.pre = SubSeq(@ \o kept, 1, o.count), !.over = TRUE]
         [] all /\ countHit /\ timeHit -> [acc EXCEPT !.pre = TakenForAll(@, kept, o.count), !.over = TRUE]
         [] OTHER -> [pre |-> acc.pre \o kept, seen |-> seen, offset |-> acc.offset + size,
                      fetched |-> IF acc.fetched + size > length THEN length ELSE acc.fetched + size,
                      over |-> maxAge \/ maxCount \/ acc.fetched = length]

\* What a page brings up that was not there before.
Slice(history, prefetched, size, acc) ==
    LET known == {prefetched[i].id : i \in DOMAIN prefetched}
    IN SelectSeq(SubSeq(history, PageStart(acc, size) + 1, acc.fetched), LAMBDA i : i.id \notin known)

NextPage(o, size, acc, length, slice) == PageOutcome(o, size, acc, length, slice, FilterListing(slice, o.pre))

Pages(o, history, first, size) ==
    LET start == [pre |-> first, seen |-> first, offset |-> size, over |-> FALSE,
                  fetched |-> IF o.chunkSize > Len(history) THEN Len(history) ELSE o.chunkSize]
        Page(acc, n) == IF acc.over THEN acc
                        ELSE NextPage(o, size, acc, Len(history), Slice(history, first, size, acc))
    IN FoldLeft(Page, start, [n \in 1 .. Len(history) + 1 |-> n]).pre

\* getActivities: the first page is as long as chunkSize says, the others are
\* no longer than the count.
Window(o, history, prefetched) ==
    Pages(o, history, FilterListing(prefetched, o.pre),
          IF o.count # Unset /\ o.count < o.chunkSize THEN o.count ELSE o.chunkSize)

\* What a caller gets: the window after its last filter.
AfterPost(o, pre) == FilterListing(pre, o.post)

\* What windows are remembered by: all of their criteria but the last filter.
\* What was fetched before is not part of it.
CacheKey(o) == [o EXCEPT !.post = Unset]
=============================================================================
