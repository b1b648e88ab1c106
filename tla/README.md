# ContextMod in TLA+

Specifications of ContextMod: how activities reach a subreddit's manager, how they are
queued and handled, what is remembered of them, what filters, rules, actions and configs
make of their input, and who starts and stops all of it. Each module is a translation of
the TypeScript under `src/src`; TLC checks it on small instances, and TLAPS proves some of
its invariants for all values of the constants. `PROJECT.json` maps every definition to
the lines it stands for, and lists runs, mutants, hazards, findings and theorems.

ContextMod is one Node.js process. All code between two `await`s runs without
interruption; nearly every hazard comes from what happens *during* an await (a call to
Reddit, a query, a sleep). So one action of a module is the code between two awaits, and
an operation with awaits is a sequence of actions that others may interleave with. What is
computed without waiting for anyone (filters, rules, configs) is written as operators and
compared with what the documentation says of the result.

## The system

| Component | State | Operations | Interacts with |
|---|---|---|---|
| Streams (`Streams.ts`) | processed items, newStart, cutoff date, timer | start, end, poll | emits `item` to managers |
| Polling of a manager (`Manager.ts` buildPolling) | streams per source, which are shared | build, start, pause, stop events | streams, firehose, retry handler |
| Firehose and queue (`Manager.ts`) | `queuedItemsMeta`, waiting tasks, workers, paused | push, start, pause, stop, replace the queue | every source pushes; workers call `handleActivity` |
| Running states (`Manager.ts`, `Bot/index.ts`) | manager, events and queue state, each with its cause; stored in the database | start, pause, stop, reload, restart | users, heartbeat, api nanny, failures |
| Health loop (`Bot/index.ts`) | nanny mode, next heartbeat, samples of api usage | nanny, heartbeat, health check, retention, guest clean-up | managers |
| Delayed activities (`SubredditResources.ts`, `DispatchAction.ts`) | `delayedItems`, their table | dispatch, cancel, five-second timer, restore at startup | firehose, queue, database |
| Handling (`handleActivity`, Run, Check, Rule, RuleSet) | rule results, gotos followed, results of runs | loops over runs, checks, rules; actions | resources, actions |
| Shared streams (`Bot/index.ts`) | `modStreams`, their listeners, `streamListedOnce` | make, replace, end, start, dole out | streams, callbacks of managers |
| Bot and application (`App.ts`, `Bot/index.ts`) | managers of the bot, invites, the database entity | build, initialise, destroy managers; accept and finish invites; rebuild | Reddit, database, web interface |
| Guests (`Bot/index.ts`, `Common/Entities`) | guests of each manager with their days; their table | add, remove, clean up | health loop, web interface |
| Cached activities and authors (`SubredditResources.ts`) | activities, results of criteria, contributors, mod notes, "recent self" | get, set, reset | Reddit, actions, workers |
| Config fragments (`ConfigBuilder.ts`, `SubredditResources.ts`) | one cached copy of a page for all subreddits | fetch, build from, take text from | wiki pages, actions |
| Cache stores (`Cache/index.ts`, `ResourcesManager.ts`) | the bot's and the subreddits' caches, their timers | make, replace, share, destroy, reset by pattern | configs |
| User notes (`UserNotes.ts`, `UserNoteAction.ts`) | the wiki page, its cached payload, the map `users` | read, add | Toolbox, cache store, filters |
| Statistics and retention (`Stats/index.ts`, `SubredditResources.ts`) | totals in memory and in the database, save timer | count, save, read again, delete old events | handling, configs |
| Config building (`ConfigBuilder.ts`) | hydrated fragments, named parts | include, resolve names, apply defaults | wiki pages, operator config |
| Operator config (`ConfigBuilder.ts`) | none | merge environment, file, arguments; credentials; caching | bots |
| Filters, windows (`SubredditResources.ts`, `util.ts`) | none | test, join, merge; fetch pages of a history | caches, rules |
| Rules (`src/Rule`) | none | compare an activity and a history with thresholds | windows, services |
| Actions (`src/Action`) | none | comment, submit, message, ban, remove, approve, notes | Reddit, caches, dispatch |
| Requests (`util.ts`) | two error counters with their windows | retry or give up; read an address | polling, fragments |
| Web client and server (`src/Web`) | instances by heartbeat, invites of bots, bots in the config file | heartbeat, make an invite, authorise, add a bot | instances, operator config |
| Notifications, sessions, views, migrations | messages, sessions, schema | | outside of what decides on activities |

What makes each part correct, and is hard to see from its code:

* **Queue**: an activity found by several sources is handled once and never with data
  older than what a source found; nothing accepted is lost; a paused manager starts
  nothing.
* **Streams**, of one manager and shared: nothing that existed before polling started is
  acted on; nothing that appears later is skipped or acted on twice; a paused source is
  not polled; a shared stream follows the configs of its managers.
* **States**: what a user stopped stays stopped, what the system stopped comes back, and
  the shown state is the real one.
* **Delayed activities**: scheduled once, ended once (dispatched, cancelled or dropped as
  too late), across crashes and a failing database.
* **Handling**: checks run in the documented order and at most once for each pass, shared
  results change no verdict, and it ends.
* **Bots**: one manager for each subreddit it is to run on, and none for others; an
  invitation is neither lost nor left lying; a rebuild ends.
* **Caches**: what is cached reflects what the bot did; one subreddit's cache is neither
  emptied nor read by another; what is cached and not pruned does not grow for ever.
* **Fragments**: nobody builds from a page that is not shared with it, or was replaced
  long ago.
* **User notes, guests, totals, added bots**: memory, database, wiki page and file agree
  again after every failure, and nothing is undone that a moderator was told is done.
* **Computations**: a filter, rule, config, action or request means what its documentation
  says, at the boundaries too.

## Modules

| Module | What it models |
|---|---|
| `ActivityQueue` | Firehose, `queuedItemsMeta`, queue, workers, and the operations on the queue |
| `ActivityQueueProofs` | Theorems about it |
| `Stream` | `SPoll` and the listing it polls: timers ("chains"), pages, first poll, cutoff date |
| `StreamProofs` | Lemmas about the operators of `Stream`, for whoever extends it |
| `Polling` | A manager with dedicated streams of one source; extends `Stream` |
| `PollingProofs` | Theorems about it |
| `SharedStreams` | The shared stream of one source and the managers that listen on it; extends `Stream` |
| `SharedStreamsProofs` | Theorems about it |
| `RunningStates` | The three states of a manager, and the health loop, users, failures and restarts that change them |
| `DelayedActivity` | Abstract: what a delayed activity promises |
| `Dispatch` | `delayedItems`, their table, the timer, dispatch and cancel actions, restarts; implements `DelayedActivity` |
| `DispatchProofs` | Theorems about it |
| `CheckFlow` | Abstract: the order of checks as `flowControl.md` documents it |
| `FlowControl` | `handleActivity` with the loops of Run, Check, RuleSet; implements `CheckFlow` |
| `FlowControlProofs` | Theorems about it |
| `Bots` | Managers, invites and the shared stream of a bot, its loop and its rebuild |
| `Guests` | Guests of subreddits, in memory and in the database |
| `WebClient` | The web client, its instances, and bots that are added by invite |
| `CacheUsers` | The workers that use a subreddit's caches |
| `ItemCache` | Cached activities, criteria results, "recent self", and the actions that reset them |
| `AuthorCache` | Cached contributors, mod notes and results on authors; contributor, modnote and userflair actions |
| `Fragments` | A page that several subreddits build configs from |
| `ResourceCaches` | Which cache a subreddit uses, and which timer prunes it |
| `UserNotes` | The wiki page with the notes of one author, the two caches, and the usernote action |
| `Statistics` | The totals of a subreddit and the timer that saves them |
| `Comparisons` | Comparisons as they stand in configs |
| `Criteria` | Filters: one criterion with each of its properties; lists of them, their defaults and their joining |
| `Windows` | How much of a history is fetched, filtered and remembered |
| `HistoryRules` | Repeat activity, regex, history, attribution and recent activity rules |
| `ContentRules` | Sentiment, MHS and repost rules, and the choice of a language |
| `ConfigBuild` | A subreddit's config: fragments, names, defaults, polling |
| `OperatorConfig` | The operator's config and what each bot gets of it |
| `OutgoingActions` | What comment, submission, message and ban actions send |
| `Requests` | Retries, addresses, key patterns, retention |
| `FilterCases`, `RuleCases`, `ContentCases`, `ConfigCases`, `CallCases` | Inputs for the operators of the modules above, and what their documentation says of the results |
| `MCDispatch`, `MCFlowControl` | Values for the runs of these modules |
| `MCServices` | `RunningStates`, `Bots` and `WebClient`, one at a time |
| `ServicesProofs` | Theorems about `RunningStates` and `Bots`, as `MCServices` composes them |
| `MCResources` | All modules on caches and on what is stored, one at a time |
| `ResourcesProofs` | Theorems about its parts |
| `MCComputations` | All operators, one input at a time |

Components that share no state share a run: the variable `part` of `MCServices` and
`MCResources`, chosen at the beginning, says which of them moves. Their product would show
nothing more. A property of such a run is a conjunction of named parts, each stated at the
component it is about.

### ActivityQueue

A task is an activity's id, the version of the data it was found with, and the `refresh`
option; `reddit` holds the version Reddit would return. `Firehose` is the firehose worker
(drop if queued, flag if processing, else push and add a meta). A worker goes through
`TakeTask`, `EndDelay` (soft limit), `Begin` (the lookup of `queuedItemIndex`), `Refresh`,
`Finish`; `Release` is the `finally` block with the index found before the await.
`PauseQueue`, `StopQueue`, `UpdateConfig` begin and their `...Done` ends: in between the
code polls every half second whether workers are running. `Regenerate` is `generateQueue`
with another concurrency: the old object keeps its tasks and workers. `owed` is a history
variable: the newest version accepted and not used yet.

### Stream, Polling, SharedStreams

Items are numbered in the order in which they are posted, which is also their date. A
*chain* is a timer and the asynchronous function that it runs; `end()` clears the timer
but cannot stop a function that awaits Reddit, so that a stream may have several.
`Receive` is the whole treatment of an answer (paging, what is new, first poll, cutoff,
emission, re-arming) on the `Batch` it brings. What the code filters from an array
is `Only(items, kept)`, a recursive function rather than `SelectSeq`, so that it can be
proved about. `Polling` adds the error listener (`PollFails`, `PollRetried`,
`GiveUp`), the events' operations, and `Replace`, a config update that builds a new
stream. `pushed`, `existing`, `due` and `updated` are histories.

`SharedStreams` has one manager for each subreddit and the stream of one source, which is
`new` (submissions or comments: the stream names its subreddits and is replaced when they
change), `unmoderated` or `modqueue` (one stream for all). `UpdateConfig` is a config that
begins or ceases to share the source: `BuildPolling` of the manager and then, on the event
`configChange`, `ParseSharedStreams` and `RunShared`. Streams that share a Set of processed
items have the same `set`. `DoleOut` pushes the first item that finds its manager and
leaves the rest for `DoleOutNext`, after the pause; `listedOnce` is `streamListedOnce`.

### RunningStates

One record `[state, causedBy]` for each of the three states; the processes `health`,
`user`, `failure` are in the middle of at most one operation each. `startEvents`,
`pauseQueue` and so on are operators used by the heartbeat, the nanny, the web handlers and
`panicOnRetries` alike, as in the code. Their order and the awaits between them are the
code's: `parseConfiguration` is split in `fetch`, `pausing` and `parse`. `Restart` reads
the stored states again.

### Dispatch

`memory` is `delayedItems`, `db` its table, `deleting` the deletes that the timer began
and did not await, `job` what a worker or a user awaits. Delays are abstracted to waiting,
due and overdue, which is all the code compares. `DispatchAction` is the whole action with
its three reactions to an existing entry; `Load` is `initDatabaseDelayedActivities`, run
by `Restart` and `Reconfigure`. `fate` and `astray` are histories: `astray` holds what was
in the way of a partial failure that the code does not recover from.

### FlowControl

A config is a function from places (run, check) to checks. `RunBegins`, `RunSkipped`,
`RunFails`, `Finished` are the Manager's loop; `CheckHandled`, `CheckNotTriggered`,
`CheckDisabled`, `CheckFails` the Run's. `Continue` is the `switch` on the post behavior
in the Run, `RunEnds` the one in the Manager. `RunRules` and `RunSet` are folds over the
entries with the results so far (`Found`, `Recorded`: `findResultByPremise` and
`determineNewResults`). What a rule finds is the variable `truth`, chosen at the
beginning; `filtered` stands for filters that do not pass. The Run's own `hitGotos` holds
names of checks and is compared with whole gotos, so it never stops anything:
`InRunGotoHit` records and does not guard.

### Bots, Guests, WebClient

`Bots` follows two actors, the health loop and the web interface, and the rebuild by the
operator. Building managers is split at its awaits: which are to be removed, which to be
made, and the shared stream that follows. The entity's list of invites and their table
are apart, as in the code, since deleting from one is awaited and from the other is not.

`Guests` has one entity for each manager: `addGuest` and `removeGuest` change it and save
it afterwards; a save may fail, or be one that was made for another reason and takes the
change along. `cleanup` is the position of `guestModCleanup` in the managers. `agreed` is
what moderators were told, a history.

`WebClient` has rounds of heartbeats over the configured hosts and over the instances that
are known, `addBot` of an instance split at its awaits, the invites of instances, and the
visitors who open an invite and authorise an account.

### Caches

In `ItemCache` an object carries the number of actions of the bot that it reflects, and
the result of a criterion that of the object it was computed from: a cache is stale if its
number is smaller than that of `acts`. Each kind of action does to the caches what the
code of that action does, in the code's order, with the awaits between. `AuthorCache` has
three parts of the same kind (contributors, mod notes, flair), checked one at a time.
`Fragments` counts ticks: how long ago a version was replaced against how long an entry is
kept. In `ResourceCaches` a cache is its options, what it holds, whether it has a timer
and whether it was destroyed; `Configure` is `ResourcesManager.set`. In `UserNotes` what
matters is which objects are shared: the payload in the cache store may be the very one
that a worker changes (memory store, `shouldCloneBeforeSet: false`) or a copy (Redis), and
lists of notes are shared with the map `users`. So payloads and lists live in a `heap` and
the caches hold references. In `Statistics` an instance of the statistics has its own
total and its own timer, since a replaced instance may go on.

### Computations

The operators take the configs and activities as the code does, reduced to what the
decision depends on: an activity is a record of its kind, subreddit, url, age and so on,
likeness of texts is an equality of ids or a given distance, time is a small number. Where
the code may throw, the result is a value of its own. The modules `...Cases` choose one
input of a kind in one step and state what the documentation says of the result in terms
of sets and quantifiers, not by the same computation again.

## Runs

| Run | Question | Bounds |
|---|---|---|
| `aq_single` | Is the queue correct in the default manager, and is everything accepted used at last? | two activities, one of them edited once, one operation in progress, one task waiting in the firehose |
| `aq_two_workers_lost` | *violated*: nothing accepted is lost | two workers |
| `polling` | Are streams correct if ended between polls? | two streams and chains, two items, pages of one |
| `shared` | Is a shared stream correct if the bot acts on it between polls? | two managers, two streams and chains, two items, pages of one; items disappear from the modqueue only |
| `dispatch` | Does a delayed activity keep its promise? | two entries for one activity, one worker, one restart |
| `flow` | Is the documented order kept, and does handling end? | runs of two and of one check, two rules, a goto followed once |
| `flow_goto_limit` | *violated*: gotos are limited | a check that goes back in its run |
| `services` | Are states, managers, invites and instances correct, and does what they wait for come about, if operations do not overlap? | states: finite without bounds; three subreddits, one excluded; one instance, one invite, one visitor |
| `services_rebuild` | *violated*: a rebuild ends | the operator may rebuild at any time |
| `states_hard_limit` | *violated*: the hard limit keeps polling paused | as in `services` |
| `resources` | Do caches, database, wiki page and file agree with what was done? | two workers, two activities, two actions, one report of others, on the comment; three mod notes; three user notes; two readers and three versions of a page; three caches; four counts, two instances of the statistics; two subreddits with one guest and three days; one instance with two invites of bots |
| `computations` | Does each filter, rule, config, action and request mean what is documented? | one input of a kind, from the sets in the modules `...Cases` |

Why the bounds are enough. A duplicate, a refresh and an unrelated activity need two
activities, and stale data two versions. Two items with pages of one reach paging, a
delisted item between others and an item new to one page only. Two entries for one
activity reach skip, replace and cancel-while-scheduled; more restarts repeat the first.
Two runs and three checks reach gotos forward, back, to the same run, to a missing run and
a missing check, with 11, 8 and 6 behaviors in the three places. Two managers reach a
stream that is replaced by one with more or with fewer subreddits, and a second stream is
the replacement. Two subreddits that come and go and one that is excluded reach every way
through the splices of `buildManagers`; of the invites, the first, the last and one that is
gone. Two actions reach one that meets what the other cached, and two workers one that
stores a result computed before the other's reset. Three notes are one that a moderator
wrote and two of the bot, one of them after a failure or after the cache expired. Three
caches are the bot's, a subreddit's and its replacement. Three days are one before, one at
and one after a guest's last. Deadlock is not checked: the queue may be idle, all items may
have been posted, an input has been computed.

Inputs of a computation go past each boundary the code compares with: thresholds with a
value below, at and above; lists of no, one and two criteria, joined by AND and OR;
histories of up to three or four activities with pages smaller, equal and larger. Windows of
four and five over a history of six have a last page that holds more than is wanted. Names
of authors begin with, end in and join others with a hyphen; prefixes are empty, apart from
the names, or one of them.

Some constants switch a hazard off so that the rest is checked without it. `SlowWork`,
`ConfigWorkers`, `MaxOperations` (queue), `EndInFlight`, `FirstFails`, `ConfigUpdates`
(polling), `InFlight`, `FailsAt`, `Unfollowed`, `ReplacesAny` (shared), `Overlap`,
`Panics` (states), `Orderly` (bots), `OneByOne` (web client), `ModeratorsAnyTime`,
`AnswersLost`, a second worker (user notes) and a second worker in `Dispatch` have, in a
passing run, the value that leaves out a hazard which breaks one of its properties; a run
that expects a violation has it on where a document says otherwise.

### What the properties say

* Queue. `MetasMirrorQueue`: the metas are, one by one, the task in progress and the tasks
  that wait. `NoneLost`: what was accepted and not used waits in a task that will see it.
  `StateTellsQueue`, `NoStartUnlessRunning`: the shown state is the queue's.
  `EventuallyUsed`.
* Streams. `OneChain`: a stream has one timer. `NoPollUnlessRunning`. `PushedOnceIfNew`:
  nothing old is pushed, nothing twice, nothing that is due is skipped.
  `EventuallyPushed`; shared streams: `StreamFollows` (the callbacks are those of the
  configs, and one chain), `EventuallyPolled`.
* States and services. `StatesRecover`: what a user stopped stays, what the system stopped
  heals, an invalid config stops the events. `ManagersKept`: memory and table have the same
  invites, no subreddit has two managers, excluded ones have none, the shared stream
  follows. `Proceeds`: managers follow the moderated subreddits, invitations are taken,
  rebuilds of a bot that runs end, invites come to be listed.
* `KeepsPromise`: `Dispatch` implements `DelayedActivity`. `MemoryAndTable`: what is in
  memory is in the table or being deleted, what was scheduled is saved, and an activity is
  scheduled once. `EventuallySettled`.
* `FlowsAsDocumented`: `FlowControl` implements `CheckFlow`, and ends. `RunOnce`,
  `VerdictIsJoin`: a check's verdict is the join of its rules, however they were shared.
* `CachesFollowActions`: cached results and activities are no older than the last action
  of the bot on them; an activity the bot reported is skipped until someone else reports
  it; contributors and mod notes are those of Reddit; no checked mod note repeats the one
  before; and a dry run changes nothing at Reddit but the flair of a submission.
* `StoresKept`: a memory cache in use is pruned, no cache is emptied by what happens to
  another subreddit, own caches are apart, no timer outlives its resources.
* `FragmentsGuarded`, `TotalsSaved`, `GuestsKept`, `UserNotesKept`, `BotsAdded`: a page is
  built from only by those it is shared with and not long after it was replaced; totals
  never sink and go on being saved; guests are those that moderators were told of, until
  their day; no note is lost, none comes from a failure, none is repeated; a bot that is
  added runs once, is in the file, and only then costs the invite.
* The five properties of `computations` are conjunctions of 46 statements in the modules
  `...Cases`. Some of them: every property of a criterion must pass, and exclude is the
  opposite of include; authors whom a default protects stay protected through merging;
  a window gives the newest activities that pass, each once, and equal cache keys stand for
  equal windows; repeats found are runs in the history; shares of an author add up; a
  repost's candidates are not those of another rule; no name means two things; a config
  contains only what is shared with its subreddit; no bot gets half of another's account;
  a dry run foretells what a run does; a failing target does not keep others from being
  reached; nothing is posted twice; retention keeps what it is to keep.

Comments of the properties name each case in which the code does otherwise and which the
property excepts for that reason; they are listed below.

### Fairness

Timers fire and awaits settle (weak fairness of the steps that end them); a call that is
made again and again succeeds at last (strong fairness of `PollAnswered`, `TimerRemoves`),
because the retry handler gives up after a few failures in a row and the five-second timer
never does. Queue workers are strongly fair: `resume()` and the end of a task hand out
tasks in the same call. The health loop runs its heartbeat and the nanny for ever, in turn
with operations in progress: strong fairness. The same loop begins to build managers
(`Heartbeat` of `Bots`), and the client's rounds go on, in both cases for as long as the
loop is on. Nothing is assumed of users, Reddit, moderators or the config; where a property
needs them to leave off it says so (`Calm` in `RunningStates`, `Undisturbed` in `Bots`, an
unpaused queue in `Dispatch`). Shared streams need the heartbeat, `RunSharedStreams`, which
is strongly fair because it waits here for polls in flight. `FlowControl` is sequential:
weak fairness of `Next`. The modules on caches and computations state safety only.

## Proofs

`ActivityQueueProofs`, for any sets of activities and workers and any bounds:

* `TypeCorrect`: `TypeOK`. One lemma for each group of steps.
* `MirrorCorrect`: `Default => []MetasMirrorQueue`, where `Default` says that the operator
  allows one worker and no work outlives a stop. `MetasMirrorQueue` is not inductive
  alone: the queue could be replaced while a worker of the old one runs. `DefaultInv` adds
  the types and `OneQueue` (concurrency one, no detached worker). The heart of the proof is
  about sequences: dropping the head of `queuedItemsMeta` at index one mirrors dropping the
  finished task, and the last meta of an activity tells whether a task of it waits.
* `NoneLostCorrect`: `Default => []NoneLost`. The invariant `FreshInv` adds to `DefaultInv`
  that nothing accepted is newer than what Reddit has (`NoneFromFuture`), so that fetching
  an activity uses all that was accepted of it. That a flag is seen follows from the
  mirror: each queued meta stands for a waiting task (`QueuedHaveTasks`), the meta of the
  task that begins is the first, and the one that a worker removes flags nothing.
* `StateCorrect` and `NoStartCorrect`: with at most one operation in progress the shown
  state is the queue's, and no task starts unless it is RUNNING. `StateInv` adds what an
  operation that waits has done already: it has paused the queue, and one that will replace
  the queue has left RUNNING.

`DispatchProofs`, for any activities, entries, workers and restarts:

* `TypesCorrect`: `TypeOK`.
* `StoresAgree`: `MemoryBacked` and `ScheduledIsSaved`, the two parts of `MemoryAndTable`
  that do not depend on the number of workers. Neither is inductive. `StoresInv` adds what
  the code's awaits leave open between memory and table: a worker that is adding an entry
  has a fresh one of its own (`AddingIsOwn`, `SavesEntity`), what is stored has not come to
  an end (`StoredIsAlive`), what the timer is deleting was pushed to the queue
  (`DeletingIsPushed`), and what a dispatch or cancel holds was given to it before its await
  (`HeldIsGiven`).
* `PromiseKept`: `Spec => KeepsPromise`, the refinement. Whether an entry is due or too late
  is read off its `age` and options; every step of `Dispatch` is shown to be a step of `DelayedActivity` or a
  stutter, from `StoresInv`.
* `MemoryAndTableCorrect`: with one worker all of `MemoryAndTable`. What is new is
  `OneScheduled`: `OneInv` says that a row without a copy in memory is being added or went
  astray, and that a worker which is about to add an entry that does not ignore others has
  found none, or removes all of them first. A second worker looks for
  existing entries while the first awaits its save, which is why `OneWorker` is needed.

`PollingProofs`, for any items, pages, streams, chains and subreddits:

* `PollingTypes`: `TypeOK`, without a proviso.
* `PolledByOneChain`: `~EndInFlight => []OneChain`, and `PollsOnlyRunning`:
  `NoPollUnlessRunning`. `ChainInv` says that whatever chain is active is that of the current
  stream and the one its `interval` names, and that it is active while events are RUNNING.
  It is kept by `end()` only if the timer that is cleared is all there is of the chain: hence
  `~EndInFlight`.
* `PushesOnceIfNew`: with `~FirstFails` too, `PushedOnceIfNew` as a whole. `PushInv` is the
  invariant: what was pushed or is old is processed or older than the cutoff (`KnownInv`);
  what is due is not processed and is not (`DueInv`); a stream has a cutoff exactly when its
  first poll is over, and events that are not RUNNING leave a stream that begins afresh
  (`StreamInv`); the listing is in the order of the posts where there is a cutoff
  (`ListingInv`), so that the newest item of the first page is the newest of all.

`SharedStreamsProofs`, for any managers, items, pages, streams and chains:

* `SharedTypes`: `TypeOK`, whatever the bot does during a poll. It needs `HasStream`: the
  error listener starts the stream that `modStreams` has by then, so there must be one while
  a chain is active.
* `FollowsConfigs`: `~InFlight /\ ~Unfollowed => []StreamFollows`. `ChainInv` says that an
  active chain is the last timer of the stream in use, and that the stream runs unless that
  chain is to be retried; `parseSharedStreams`, `runSharedStreams`, the heartbeat and the hard
  limit then find no chain left after `end()`. `FollowInv` says that a manager that is paused
  has the callback of its config too, since starting it again does not build its polling, and
  that there is a stream as soon as a config asks for one.
* `SharedPushesOnceIfNew`: `PushedOnceIfNew` as a whole, under the two provisos and two more:
  `~ReplacesAny` (a stream is replaced while it watches all that its managers share) and
  `FailsAt \subseteq {"get"}` (the first poll of a fresh stream does not fail, nor does the
  fetch of a further page). `PushInv` relates four places an item can be in: the stream's
  `processed`, the new items of a poll that reads on, `doling` and `pushed`. They are
  apart (`OnceInv`: nothing twice); what was listed when the stream took up its subreddit is
  processed or older than the cutoff (`KnownInv`: nothing old); what is due is in one of them
  and the cutoff lets it through (`DueInv`: nothing passed over); a stream at its first poll
  has no cutoff and no pages (`StreamInv`). `DoleOut` is summed up by `Doles`, an answer by
  `Answered`, and a replacement of the stream by `SameStream`, `NewlyStarted` and `Replaced`.
  The proof found one thing that two managers and two items had not shown: when a
  subreddit is taken up, what is still being doled out of the previous stream's poll is not
  old, as its managers will get it; `existing` leaves it out.

`EndInFlight`, `InFlight` and `FirstFails` are facts of timing that the code does not enforce: without
them the properties are false, as listed below, and so they are without `~Unfollowed`. TLC
checks `polling` and `shared` under the same provisos, and each `PushInv` was
checked with it before it was proved: that of `Polling` with three items and
pages of two (8,055,275 states), that of `SharedStreams` with three streams (616,703), with
three items (3,244,233), and with items that disappear from every source (1,787,629).

`StreamProofs` holds what both kinds of streams need: what `Only` returns (`OnlyKept`: the
items that are kept, in their order), pages, unseen and valid items, the cutoff, and
`ReceiveFields`, `ReceiveRemembers`, `ReceiveUpdates`, `ReceiveChains`, which say what one
answer does to a stream and to its chain without the definitions behind it. No induction
theorem of the library can be used with these provers, since it takes a predicate.
`InductionUpTo` and `LeastNat` state induction for sets of numbers instead, from the
well-foundedness of `<`: the set of lengths at which a given recursive function does what it
should.

`FlowControlProofs`, for any runs, checks, rules and rule sets of any length, any gotos
between them, and whatever fails:

* `FlowTypes`: `TypeOK`. `TypesInv` adds that the config is one of `Configs`.
* `VerdictCorrect`: `VerdictIsJoin`. `Facts` says what kept results are worth: each is "none"
  or what the rule finds. `JoinsUp` is the shape of the loops of `RunSet` and `RunRules`, and
  `JoinsAll` says what they have reached after `n` entries: either none so far decides and
  the verdict is open, or one does and the verdict is clear. It is shown for every `n` by
  `InductionUpTo`. A rule that is left out, or whose kept result is used, therefore changes
  no verdict.
* `OrderDocumented`: `DisabledValid /\ Spec => FollowsDocumentation`, the refinement of
  `CheckFlow`. `OrderInv` relates the place that the two loops have reached to the last
  check's post behavior, and to the runs passed over since: what the Manager comes to is what
  the behavior names, or the first run after it that is not passed over. `DisabledValid` is
  needed: a disabled check with a `postFail` that is no behavior is come to again and again,
  as listed below.
* `RunOnceCorrect`: `RunOnce`, which is inductive; the one lemma shows it for a check that
  ends, wherever it goes on.

`ResourcesProofs`, of the specification `Spec` of `MCResources`. `StepsOfParts` says that a
step of the whole is a step of each part or leaves it as it is, so each theorem needs the
invariant of one part only:

* `GuestsCorrect`, for any subreddits, users and days: `GuestsKept`. What moderators were
  told must hold in memory. `GuestsInv` demands it of the table too, since a restart reads
  it, and says of a clean up in progress that the managers it has done have nobody whose day
  was over when it began, which is what `ExpiredStayOut` needs when it ends.
* `FragmentsCorrect`, for any subreddits, ttls and versions: `FragmentsGuarded`. `NotOutdated`
  bounds what is left of an entry by how long its version has been replaced. `FragmentInv`
  adds that no version from the present one on was replaced, so that a page that is put into
  the cache is as good as new.
* `TotalsCorrect`, for any frequencies and bounds: `TotalsSaved`. That a saved total does not
  sink, unless a replaced instance goes on saving (`Replaces`), is a fact of who saves: the
  instance in use has at least what is saved once it has read it, and so has what it is about
  to read (`SavesMore`). For this nothing may be saved in between: while a total is read,
  the timer of the instance is unset, or cleared for good (`TimerWaits`).
* `StoresCorrect`, for any subreddits and bounds: `StoresKept`. `OneOwnerEach` says that each
  cache but the bot's has been used by one subreddit, and only that one has put
  anything in it. A cache that is emptied with its subreddit is then nobody else's.
  `OwnPrefix` gives `OwnApart`: a cache with the bot's provider has a prefix of its own.
* `BotsCorrect`: `OneByOne /\ Spec => BotsAdded`, for any instances, invites, accounts and
  visitors, and wherever instances stop and start. `ClientInv` says of who goes through the
  client's list, between asking an instance and using its answer, that the entry found for
  its host is still the one. `ServersInv` says of a request to add a bot, at each of its
  awaits, what it has done (`DoneOf`): there is a bot to destroy or there is none, the
  file has the account, and it has it with the invite that is deleted next. An invite
  that is being made is nowhere yet (`NewInvite`).
* `CachesCorrect`, for any workers, kinds of actions and bounds: `CachesFollowActions`, with
  any number of handlings that go on at a time. That what is kept of an activity is
  up to date holds only while nobody is between the call of Reddit and the reset
  (`Acting`). `FollowsActions` says what holds meanwhile: the object of the one that acts
  lacks exactly that action (`LacksOne`), so its reset makes everything up to date again.
  `UpToDate` is about all that is kept: the cached result, the cached activity, the object of
  who handles it, a result that is computed and not yet stored, a parent that was fetched.
  `OwnReportsInv` relates the numbers of reports that an object has to those of Reddit.
  `AuthorsInv` says of who awaits something about an author that what it has read is still
  true, and of what is cached that it lacks at most what is still to be put in.
* `NotesCorrect`: `(\E n : NoteWorkers = {n}) /\ Spec => UserNotesKept`, for any types, ttl,
  store, objects and number of notes. One worker, as in the run: two write the page one
  over the other, as described below. `NotesInv` says
  that the list in the map of users is an object of its own, never the payload that is about
  to be saved; that this payload has all that the page has; that no two notes are of one time,
  so that a list sorted by time is one list; that what is cached is what the page holds, but
  for the note that is to be saved, which the memory store has in its object already; and that
  a check that passed would pass again until the page is edited.
* `TypesCorrect`: `TypesOK`, of all parts. For the web client it needs neither `OneByOne` nor
  what `BotsCorrect` says: `WebTyped` has the entry that a round or an invite holds in the
  client's list, which never shrinks. For the totals it needs that nothing is counted twice
  (`CountedInv`: no total is above what was counted). `NotesTyped` is shown for any number of
  workers: a new object always has a name, as the objects in use are no more than two for each
  worker and two caches, and there are more names than that (`ManyRefs`, `NotesAssumption`).

`ServicesProofs`, of the specification `Services`, for any subreddits:

* `ServicesTypes`: `TypesOK`, whichever operations overlap. Of the bots it needs `BotsInv`:
  what a process awaits names a subreddit where it must (`Awaits`), an index into the managers
  is not zero, and the table of invites is finite, as the bot that is constructed anew lists it.
* `ManagersAlways`: `Orderly /\ Services => []ManagersKept`. None of its parts is inductive.
  `OrderlyInv` says of a build between two awaits what it relies on: what it is about to make
  has no manager and is not excluded (`MakesNew`), and it knows whether it has changed the
  managers and so has to share the stream anew (`TellsChange`, `SharedInv`). Of the invites it
  says that a process at one finds it in memory and table, unless onboarding deleted it
  before, and then Reddit will not accept it (`InviteHeld`): this keeps
  `removeSubredditInvite` from taking the last invite for one that is not found. `Alone` (one
  process awaits something) is what `Orderly` gives; each step is shown for the process that
  acts, and `OtherRests` has the rest. The lemmas on arrays without duplicates say what
  `splice`, `push` and a new listing of the table leave of them.
* `StopStaysAlways`: `~Overlap /\ ~Panics /\ Services => StopStays`. `StopInv` adds that
  all three states of a manager that a user stopped say so, as a restart and the heartbeat
  look at them, and that nothing is in progress but the start of the application; and that a
  user who waits for a stop to end has stopped the events already (`Stopping`). `Heals` and
  `InvalidConfigStopsEvents`, the other parts of `StatesRecover`, are liveness.

The assumptions are those of the modules (`ConstAssumption`, `IdleAssumption`,
`StreamAssumption`, `SharedAssumption`, `GuestsAssumption`, `BotsAssumption`,
`FragmentsAssumption`: one ttl is the longest; `BotStoresAssumption`; `WebClientAssumption`;
`ItemCacheAssumption`; `AuthorCacheAssumption`; `StatisticsAssumption`; `NotesAssumption`: the
workers are finitely many and there are names for their objects), which TLC evaluates in every
run that uses these modules.

Only model-checked is what is out of the prover's reach: liveness (`EventuallyUsed`,
`EventuallyPushed`, `EventuallySettled`, `Proceeds` and the like), and the five properties of
`computations`, which are about recursive functions and folds: what these compute for every
input is a matter of induction over data.

## Where code and documents differ

Four runs expect a violation and PROJECT.json quotes the document for each:

1. With two workers the index and the meta of another worker's copy are used
   (`Manager.ts:569`, `581`), and an activity is dropped or handled with old data.
2. A bot whose first build failed has no health loop, and a rebuild waits for ever for the
   end of it (`Bot/index.ts:792`).
3. The heartbeat starts what the nanny paused for the hard limit (`Bot/index.ts:1043`).
4. A goto inside a run is never counted (`Run/index.ts:185`).

More were met while modelling, without a run of their own. Where a constant is named,
setting it makes TLC show the case; the others are cases that a property excepts, or that
the inputs of a run leave out.

Streams and queue:

* A stream ended during a poll arms its timer again (`Streams.ts:170`): `EndInFlight`
  violates `NoPollUnlessRunning`.
* The retry of a failed first poll pushes old items (`Manager.ts:1500`, against the comment
  at `Streams.ts:33`): `FirstFails` violates `NothingOld`, and so does `"first"` in
  `FailsAt` for shared streams (`Bot/index.ts:323`).
* A config update gives the new dedicated stream nothing of the old one's processed items
  (`Manager.ts:1483`, against the comment at `Streams.ts:67`): what is due and was not
  polled is skipped, which `NothingSkipped` excepts for streams that were updated.
* A failure on a further page of a shared stream loses the items of the pages before,
  which are marked as processed (`Streams.ts:97`): `"more"` in `FailsAt` violates
  `NothingSkipped`.
* A shared stream that replaces another has no cutoff date and does not start afresh
  (`Streams.ts:69`). Items of a subreddit that is added, older items that move into its
  page when a subreddit is taken away, and items posted while an ended stream was not
  polled are pushed as new: `ReplacesAny` violates `NothingOld`.
* A running manager that begins to share a source whose stream does not exist gets no
  callback, since it builds its polling before the bot makes the stream
  (`Bot/index.ts:774`). Nor does a paused one whose config changes. The source is then not
  polled for it until its events are stopped and started: `Unfollowed` violates
  `CallbacksFollowConfigs` and `EventuallyPolled`.
* A heartbeat or a config change during a poll or a retry of a shared stream leaves it with
  two chains: `InFlight` violates `OneChain`, `NothingOld` and `NothingSkipped`.
* The condition that ends the shared modqueue stream is the reverse of the others
  (`Bot/index.ts:663`): every change of a config ends it, and it begins afresh, so that what
  was reported since its last poll is skipped; when nobody shares it, it goes on.
* Two waiting operations on the queue (`MaxOperations = 2`) can leave a state that is not
  the queue's: a start during the wait of a stop is overwritten.
* A forced stop (`SlowWork`) leaves a worker whose stored index then removes the meta of
  another activity. Another number of workers (`ConfigWorkers` with
  `GlobalMaxWorkers = 2`) makes a new queue, and the waiting tasks stay behind while their
  metas block the activity.
* A reload that fails after pausing leaves the queue PAUSED by the user, and a reload that
  succeeds later does not start it (`action.ts:58`).

States, bots, guests, web client:

* With `Overlap` or `Panics` a stop by a user is undone by a heartbeat that had passed its
  check, or by the failsafe of the whole bot.
* With `Orderly` FALSE, builds that overlap give a subreddit two managers; the splice while
  the array is iterated over passes over a manager (`Bot/index.ts:525`); and an invite that
  is gone already is looked up at index -1, so that the last one is removed
  (`Common/Entities/Bot.ts:82`). Finishing the onboarding of a subreddit that is moderated
  already deletes the invite and then throws. Invites never expire.
* Accepting an invitation never sends an answer when it succeeds.
* A clean up of guests or a health check that fails ends the health loop for good: neither
  is inside a `try` (`Bot/index.ts:897`). A guest's day is looked at by the clean up only.
  `removeGuestById` and `removeGuestByUser` of the bot's entity keep exactly the guests
  they are to remove, but nothing calls them. `apiHealthCheck` divides by ten while its
  loop sleeps for five seconds.
* With `OneByOne` FALSE, two first visits to the client list an instance twice, each with
  a loop of heartbeats (`Web/Client/index.ts:1722`). Requests to add a bot that overlap may
  make two bots of an account, and `splice(-1, 1)` then removes the last bot. The friendly
  names of others are never passed, so that duplicates are not noticed; the error of an
  instance is never cleared.
* An invite opened by two visitors makes a second bot without the subreddits of the invite,
  since a missing invite does not stop `addBot`. A new bot whose start fails leaves the
  request unanswered and an unnamed bot in the list. The config file is truncated when it is
  opened and written afterwards (`addBot.ts:54`).
* The search for a subreddit's invite leaves only the inner of two loops
  (`Web/Client/index.ts:1137`, `1206`).

Handling:

* A check that is not enabled and whose `postFail` is no behavior makes `Run.handle` come
  to it for ever (`Check/index.ts:338`, `Run/index.ts:235`): `Terminates` is violated by a
  config with such a check, which the configs of `flow` leave out.
* A rule with filters that do not pass *fails* when it is run and is *skipped* when its
  result is used again (`Rule/index.ts:102`), while `in-depth/author/README.md:36` knows
  only skipping.
* `maxGotoDepth` above one does little: the second pass through a run ends at the first
  check that was run before (`Run/index.ts:208`).
* With `cacheUserResult.runActions` off, a cached result that triggered still runs its
  actions (`Check/index.ts:398`); the key of a cached result names no rules
  (`CommentCheck.ts:30`, `62`).

Caches and storage:

* Two workers that add user notes with an empty cache write the page one over the other; so
  do a bot with cached notes and a moderator (`UserNotes.ts:162`): a second worker and
  `ModeratorsAnyTime` violate `NothingLost`. An edit that took effect but was answered by an
  error (`AnswersLost`) is undone by the next. With the memory store `addUserNote` changes
  the cached payload before the write: the list in `users` then has the new note twice, and
  a note whose write failed is written with the next one, which `NoTraces` excepts.
* `userNotesTTL` of 0 or true is documented to cache for ever (`Common/interfaces.ts:404`),
  but nothing is read from the cache then (`UserNotes.ts:177`). The map `users` has no time
  to live of its own. `configure()` keeps the user notes made with the old cache.
* `existingNoteCheck` looks at the type of the current note only, not for a note on this
  activity (`docs/subreddit-configuration/README.md:777`); that of the modnote action at the
  newest note only.
* The memory store hands out references, and testing a criterion changes what is cached.
  What another worker
  holds during a reset, and a parent that is not cached, escape it (`missed` in
  `ItemCache`). The key of a
  result on an author leaves out the item (`SubredditResources.ts:1764`), and contributor,
  modnote and usernote actions do not reset these results; the permissions of a moderator
  come from a cached list of names.
* The flair of a submission is set in a dry run too: `FlairAction.ts:44` looks at the
  action's own option instead of the one of the run.
* A cache that a subreddit replaces is never destroyed, and its timer goes on; the interval
  of pruning is that of the first times to live; the key `migrations` has no prefix; an
  explicit provider without prefix gets an empty one.
* The pattern that resets an author's results has a wildcard before the name
  (`SubredditResources.ts:492`): a reset of `bob` takes the results of `alice-bob` too, those of
  a subreddit `u_alice-bob`, and those whose hash begins with `bob`. A pattern in which the
  prefix of the cache occurs anywhere gets none (`Cache/index.ts:118`): with a prefix that is
  part of the name nothing of the cache is reset, and redis, which is asked for the pattern
  alone, deletes results of a cache without prefix. `ResetTakesOwnOnly` excepts these cases; the
  models of cached results take names that do not contain each other.
* When the frequency of time series changes, the timer of the totals is cleared but not
  unset, so that none is set again (`SubredditResources.ts:275-290`): `TimerRuns` excepts
  it. A replaced instance with a timer overwrites the totals. The counts of the time series
  are never assigned. If the first read fails the totals are not saved.
* Retention before the config is parsed uses what the bot says; a duration that cannot be
  parsed turns it off.
* Fragments: a ttl that is left out is 60 seconds whatever `wikiTTL` says; the pattern
  `'/no-(cache|store)/i'` is a string that no header has; an entry is read even with a ttl
  of false.

Filters and windows:

* `excludeCondition` "Defaults to OR" (`FilterShapes.ts:25-31`), but to AND in the code; a
  filter merged from a plain list gets OR. Excludes are ignored when there are includes.
  Excluding a comment criterion with `submissionState` still includes submission states.
* A criterion `shadowBanned` that passes ends the tests of the properties after it. One on
  mod actions with `activityType` throws. A search for consecutive actions compares the
  current run and not the longest. A search of the `current` note has a count, and its
  percentage is of all notes; the duration of a count of user notes is not used.
* `createdOn`, `approved` and `removed` by name ignore whether they include or exclude; an
  item that is not approved writes `removed`; `upvoteRatio` of a comment writes `depth`. The
  full loop of `batchTestSubredditCriteria` never sets `matched`.
* The `exclude` of a window's subreddits is not applied (`util.ts:2572`,
  `SubredditResources.ts:1369`, against `FilterShapes.ts:54-60` and
  `activitiesWindow.md:231`); a window with `any` may hold more than its count where one page
  reaches the count and then the duration, as the page is cut to the duration only
  (`SubredditResources.ts:1252-1258`, against "whichever occurs first",
  `activitiesWindow.md:179`: a count of 150 may give 199), which `AnyGivesTheNewest` excepts
  and bounds by a page; a window of `all` uses an array that is shadowed and
  empty; its first page has `chunkSize` 100 whatever the count; a filter for posts at the
  top is ignored if `filterOn.post` is set; the key of a cached window leaves out
  activities that were fetched before.

Rules:

* Repeat activity: `gapAllowance` never joins two repeats (`RepeatActivityRule.ts:240`,
  against `repeatActivity/README.md:29`, `49`); the default threshold is `> 5`, documented
  as `>= 5`; `minWordCount` compares characters.
* Regex: a threshold with `<` is met by the activity alone; a percentage leaves it out.
* History: with AND, criteria that all lack activities throw. Attribution: include and
  exclude at the top do nothing (`AttributionRule.ts:264`), and line 261 takes the excluded
  for the included; `minActivityCount` is 10, documented as 5; the default threshold of
  `10%` throws.
* Recent activity: `subredditThreshold` compares an array with a number (`543-559`); pixels
  are not compared if hashing is off.
* Repost: a facet with a list of kinds is lost (`RepostRule.ts:200`); the filter of words of
  comments is dropped (`515`); the hash of candidates leaves out their options (`291`); a
  failed set and one test that passed count as an occurrence under OR (`679`); a condition
  on times is true if no repost has one; a missing key for YouTube throws.
* Sentiment: "is neutral" passes for every known score (`LangaugeProcessing.ts:487`, against
  `sentiment/README.md:104`); "Neutral" with a capital and "very neutral" are mishandled; the
  rule passes on only `testOn` (`SentimentRule.ts:159`). MHS: with a history the result on
  the activity itself is ignored; an empty history throws.

Configs:

* Named criteria in `filterCriteriaDefaults` are always in conflict
  (`ConfigBuilder.ts:567-624`, against `filters/README.md:145-180`); filters of rules and
  actions are not searched for names; an include drops the exclude (`640-683`); names of
  rules are normalised in two ways (`692`); the `postFail` of a run or bot overrides that of
  the check (`428-437`).
* Operator: the ttl and size of an explicit caching provider are dropped
  (`docs/operator/caching.md:102`, `119`), the operator's own ttls are not used, and bots
  inherit the prefix of a provider of the file even if arguments take its place, and then
  share their keys, which `PrefixesAreUnique` excepts. Arguments misspell `dirName` (`docs/operator/configuration.md:113`). Credentials
  of arguments are flat and those of the environment nested; a YouTube key alone makes a bot
  whose build throws; settings of a bot in the file win over
  arguments, against the comment at `ConfigBuilder.ts:978`. `shared: true` with a list of shared sources adds to the list of
  all bots.
* Whom a page of another subreddit is shared with is asked of a full config only; one that
  holds checks or runs alone is used by anyone (`ConfigBuilder.ts:234`).

Actions and requests:

* A link submission with content uses `linkOpts`, which is not declared
  (`SubmissionAction.ts:149`). `tryPost` raises an earlier rate limit after a later success
  (`217-245`). A reply or lock that throws loses the other targets of a comment, and a parent
  that cannot be fetched throws outside the `try` (`CommentAction.ts:82`).
* The window of the retry handler is renewed by each error, rate limits too; network errors
  without a response count as others. A gist without the named file returns its page; the
  raw answer of a truncated gist is not looked at for success.

## Not modelled

* Notifications: messages to Discord that nothing waits for and nothing reads again.
* Queries, schema and migrations of the database: generated SQL. What is stored of states,
  delayed activities, guests, invites and totals is modelled as it is read again.
* Sessions, permissions, views, logs and the statistics shown by the web interface: I/O and
  layout. The handlers that change managers, guests, invites and bots are modelled.
* Text, image and language comparison: numerical, and out of TLC's reach. Rules take their
  results as given.
* `apiHealthCheck`: an estimate in floating point; that the limit is hit is a choice in
  `RunningStates`.
* Connecting the client of Reddit, Influx and OAuth tokens: I/O.
* Caches of subreddits, removal reasons and modmail: read through and never changed.
* In what is modelled: identifiers of dispatches, logging, the templates of texts, what is
  recorded of a handled activity, and the JSON schema that configs are validated with.

## Plan

Done, in this order because activities flow in it: the queue with its proofs, streams,
running states, delayed activities, the handling of an activity, user notes, shared
streams; then bots, caches, statistics, guests, the web client; then all that is computed.

Next:

1. Composition of `Polling`, `ActivityQueue` and `RunningStates`: a paused manager neither
   polls nor handles.
2. Check results kept by `cacheUserResult`, composed with `FlowControl`.
3. `apiHealthCheck` with integers in place of floating point.
