------------------------------ MODULE Fragments ------------------------------
(***************************************************************************)
(* Config fragments: pages that several subreddits of a bot build their    *)
(* configs from and take content from, cached under one key for all of     *)
(* them, and built from only as far as they are shared.                    *)
(*                                                                         *)
(* One page is followed.  It is a config that says whom it is shared with; *)
(* its owner may change both at any time.                                  *)
(***************************************************************************)
EXTENDS CacheUsers

CONSTANTS
    Readers,       \* subreddits that build configs from the page
    Uncached,      \* those of them that cache no pages (wikiTTL: false)
    PageTTL,       \* for how long the others do
    FragmentTTLs,  \* what includes ask for: numbers, None, Unsaid: what the response says
    Lifetimes,     \* what a response says: a number, None: it is outdated, Unsaid
    Unsaid,        \* a model value
    MaxVersions    \* bound: versions of the page

Numbers == ((FragmentTTLs \cup Lifetimes) \ {None, Unsaid}) \cup {PageTTL}

\* A ttl is a number of ticks, 0 is "forever"; one of them is the longest.
ASSUME FragmentsAssumption ==
    /\ Uncached \subseteq Readers
    /\ Numbers \subseteq Nat /\ \E n \in Numbers : \A m \in Numbers : m <= n
    /\ MaxVersions \in Nat \ {0}

VARIABLES
    sharedPage,  \* the page: which version it is and whom it is shared with
    replaced,    \* replaced[v]: ticks since version v was replaced; None: it was not
    fragment,    \* the entry of the shared cache, or None
    reader,      \* reader[s]: what s fetches the page for, or NoRequest
    used         \* the config built last: by whom, and from which page; or None

fragmentVars == <<sharedPage, replaced, fragment, reader, used>>

Longest == CHOOSE n \in Numbers : \A m \in Numbers : m <= n

NoRequest == [for |-> "nothing"]

Versions == 1 .. MaxVersions

FragmentPage == [version : Versions, shared : SUBSET Readers]

FragmentTypeOK ==
    /\ sharedPage \in FragmentPage
    /\ DOMAIN replaced = Versions
    /\ fragment # None => fragment.page \in FragmentPage /\ fragment.left \in 0 .. Longest
    /\ DOMAIN reader = Readers
    /\ used # None => used \in [by : Readers, page : FragmentPage]

FragmentsInit ==
    /\ sharedPage \in [version : {1}, shared : SUBSET Readers]
    /\ replaced = [v \in Versions |-> None]
    /\ fragment = None
    /\ reader = [s \in Readers |-> NoRequest]
    /\ used = None

\* The owner changes the page, or whom it is shared with.
EditPage ==
    /\ sharedPage.version < MaxVersions
    /\ \E shared \in SUBSET Readers :
          sharedPage' = [version |-> sharedPage.version + 1, shared |-> shared]
    /\ replaced' = [replaced EXCEPT ![sharedPage.version] = 0]
    /\ UNCHANGED <<fragment, reader, used>>

\* Mutant: what comes from the cache was checked when it was fetched.
SharedWhenFetched(p, s, fromCache) == fromCache \/ s \in p.shared

\* The parse function of runs: a config that is not shared with this subreddit
\* is refused, wherever it comes from.
Accepted(p, s, fromCache) == s \in p.shared

\* A fragment that is refused ends the building of the config.
Parsed(s, p, fromCache) ==
    used' = IF Accepted(p, s, fromCache) THEN [by |-> s, page |-> p] ELSE None

\* An entry that is used stays as it is.
AfterHit(entry) == entry

\* The cache is asked, unless this subreddit caches no pages.
Read(s, request) ==
    IF s \notin Uncached /\ fragment # None
    THEN /\ fragment' = AfterHit(fragment)
         /\ IF request.for = "config" THEN Parsed(s, fragment.page, TRUE) ELSE UNCHANGED used
         /\ UNCHANGED reader
    ELSE reader' = [reader EXCEPT ![s] = request] /\ UNCHANGED <<used, fragment>>

\* getConfigFragment, for the include of a config
ReadFragment(s) ==
    /\ reader[s] = NoRequest
    /\ \E ttl \in FragmentTTLs : Read(s, [for |-> "config", ttl |-> ttl])
    /\ UNCHANGED <<sharedPage, replaced>>

\* getContent, for the text of an action: the subreddits have the cache of the
\* bot, where keys with and without "shared" are the same.
ReadContent(s) ==
    /\ reader[s] = NoRequest
    /\ Read(s, [for |-> "content"])
    /\ UNCHANGED <<sharedPage, replaced>>

WikiTTL(s) == IF s \in Uncached THEN None ELSE PageTTL

\* For how long a fragment is cached, if at all: as the include says, as the
\* response says, or as other pages.
StoredFor(s, ttl, lifetime) ==
    IF ttl # Unsaid THEN ttl ELSE IF lifetime # Unsaid THEN lifetime ELSE WikiTTL(s)

\* What is left in the cache after s fetched the page.
Stored(s, ttl) == fragment' = IF ttl = None THEN fragment ELSE [page |-> sharedPage, left |-> ttl]

\* A fragment that is refused is not cached.
FetchFragment(s) ==
    /\ reader[s].for = "config"
    /\ Parsed(s, sharedPage, FALSE)
    /\ \E lifetime \in Lifetimes :
          Stored(s, IF Accepted(sharedPage, s, FALSE) THEN StoredFor(s, reader[s].ttl, lifetime) ELSE None)
    /\ reader' = [reader EXCEPT ![s] = NoRequest]
    /\ UNCHANGED <<sharedPage, replaced>>

FetchContent(s) ==
    /\ reader[s].for = "content"
    /\ Stored(s, WikiTTL(s))
    /\ reader' = [reader EXCEPT ![s] = NoRequest]
    /\ UNCHANGED <<sharedPage, replaced, used>>

\* A page that cannot be fetched ends the building of the config.
FetchFails(s) ==
    /\ reader[s] # NoRequest
    /\ reader' = [reader EXCEPT ![s] = NoRequest]
    /\ UNCHANGED <<sharedPage, replaced, fragment, used>>

\* Time passes and entries expire.
TickFragments ==
    /\ replaced' = [v \in Versions |->
                        IF replaced[v] = None \/ replaced[v] > Longest THEN replaced[v] ELSE replaced[v] + 1]
    /\ fragment' = IF fragment = None \/ fragment.left = 0 THEN fragment
                   ELSE IF fragment.left = 1 THEN None ELSE [fragment EXCEPT !.left = @ - 1]
    /\ UNCHANGED <<sharedPage, reader, used>>

FragmentsNext ==
    \/ EditPage
    \/ TickFragments
    \/ \E s \in Readers :
          \/ ReadFragment(s)
          \/ ReadContent(s)
          \/ FetchFragment(s)
          \/ FetchContent(s)
          \/ FetchFails(s)

-----------------------------------------------------------------------------

\* A config is built only from a page that is shared with its subreddit, even
\* if it comes from the cache, where another subreddit or the text of an action
\* has put it (ConfigBuilder.ts:233-249).
SharedWithReader == used # None => used.by \in used.page.shared

\* Unless an include asked to keep it forever, a page is in use for no longer
\* than the longest ttl after it was replaced, or no longer shared, however
\* often and by however many subreddits (SubredditResources.ts:1616).
NotOutdated ==
    fragment # None /\ fragment.left # 0 /\ replaced[fragment.page.version] # None =>
        replaced[fragment.page.version] + fragment.left <= Longest
=============================================================================
