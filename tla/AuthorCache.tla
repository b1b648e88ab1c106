----------------------------- MODULE AuthorCache -----------------------------
(***************************************************************************)
(* What a subreddit's resources cache about an author: the subreddit's     *)
(* contributors, the author's mod notes and the results of authorIs        *)
(* criteria; and the contributor, modnote and userflair actions.           *)
(***************************************************************************)
EXTENDS CacheUsers

CONSTANTS
    Labels,     \* labels of mod notes
    Posts,      \* activities of the author that are handled
    MaxNotes,   \* bound: mod notes ever added
    MaxFlairs,  \* bound: changes of the author's flair
    Moderators  \* whether moderators add notes too

ASSUME AuthorCacheAssumption ==
    /\ MaxNotes \in Nat /\ MaxFlairs \in Nat
    /\ Moderators \in BOOLEAN

VARIABLES
    member,         \* whether the author is a contributor
    notes,          \* the author's mod notes, newest first
    flair,          \* number of changes of the author's flair
    cachedMembers,  \* the list of contributors: whether the author is in it
    cachedNotes,    \* authorModNotes-
    authorCrit,     \* authorCrit-: results, with the state they were computed from
    busy,           \* busy[w]: what w awaits
    spoiled         \* history: caches that overlapping operations or moderators made untrue

authorVars == <<member, notes, flair, cachedMembers, cachedNotes, authorCrit, busy, spoiled>>

Notes == [label : Labels, on : Posts, checked : BOOLEAN]

\* A criterion on contributors, one on mod notes, one on flair.
CritKinds == {"isContributor", "modActions", "flairText"}

Free == [op |-> "free"]

AuthorTypeOK ==
    /\ member \in BOOLEAN
    /\ notes \in Seq(Notes) /\ Len(notes) <= MaxNotes
    /\ flair \in 0 .. MaxFlairs
    /\ cachedMembers \in BOOLEAN \cup {None}
    /\ cachedNotes # None => cachedNotes \in Seq(Notes)
    /\ DOMAIN authorCrit = CritKinds
    /\ DOMAIN busy = Workers
    /\ spoiled \subseteq CritKinds

AuthorInit ==
    /\ member = FALSE
    /\ notes = <<>>
    /\ flair = 0
    /\ cachedMembers = None /\ cachedNotes = None
    /\ authorCrit = [k \in CritKinds |-> None]
    /\ busy = [w \in Workers |-> Free]
    /\ spoiled = {}

Becomes(w, op) == busy' = [busy EXCEPT ![w] = op]

\* Other workers that are about to touch the data behind criteria of kind k.
Overlapping(w, k) == {v \in Workers \ {w} : busy[v].op # "free" /\ busy[v].about = k}

Spoil(w, k) == spoiled' = IF Overlapping(w, k) # {} THEN spoiled \cup {k} ELSE spoiled

\* A worker that reads is disturbed by those only that are about to write.
SpoilRead(w, k) ==
    spoiled' = IF \E v \in Overlapping(w, k) : busy[v].op \notin {"members", "notes", "store"}
               THEN spoiled \cup {k} ELSE spoiled

-----------------------------------------------------------------------------
(* Contributors *)

\* What a worker does once it knows whether the author is a contributor: it
\* has the result of a criterion, or calls Reddit, or finds nothing to do.
WithMembers(w, isMember, goal) ==
    CASE goal = "test" -> Becomes(w, [op |-> "store", about |-> "isContributor", value |-> isMember])
      [] goal \in {"add", "remove"} ->
            IF isMember = (goal = "add") THEN Becomes(w, Free)
            ELSE Becomes(w, [op |-> goal, about |-> "isContributor"])

GetContributors(w, goal) ==
    /\ busy[w].op = "free"
    /\ IF cachedMembers # None THEN WithMembers(w, cachedMembers, goal)
       ELSE Becomes(w, [op |-> "members", about |-> "isContributor", value |-> member, goal |-> goal])
    /\ UNCHANGED <<member, notes, flair, cachedMembers, cachedNotes, authorCrit, spoiled>>

ContributorsFetched(w) ==
    /\ busy[w].op = "members"
    /\ cachedMembers' = busy[w].value
    /\ WithMembers(w, busy[w].value, busy[w].goal)
    /\ SpoilRead(w, "isContributor")
    /\ UNCHANGED <<member, notes, flair, cachedNotes, authorCrit>>

\* The contributor action: the call of Reddit.
ChangeContributor(w) ==
    /\ busy[w].op \in {"add", "remove"}
    /\ member' = (busy[w].op = "add")
    /\ Becomes(w, [op |-> "membersCache", about |-> "isContributor", value |-> busy[w].op = "add"])
    /\ Spoil(w, "isContributor")
    /\ UNCHANGED <<notes, flair, cachedMembers, cachedNotes, authorCrit>>

\* addUserToSubredditContributorsCache and its counterpart change a list that
\* is cached, and cache none.
InContributorsCache(isMember) == IF cachedMembers # None THEN isMember ELSE None

ContributorsCacheUpdated(w) ==
    /\ busy[w].op = "membersCache"
    /\ cachedMembers' = InContributorsCache(busy[w].value)
    /\ Becomes(w, Free)
    /\ Spoil(w, "isContributor")
    /\ UNCHANGED <<member, notes, flair, cachedNotes, authorCrit>>

-----------------------------------------------------------------------------
(* Mod notes *)

\* The criterion that existingNoteCheck stands for: search "current" looks at
\* the newest note only, for the label and the activity, and wants none.
ExistingNoteCheck(list, label, post) ==
    list # <<>> => ~(list[1].label = label /\ list[1].on = post)

\* What a worker does with the list of notes: it tests a criterion, or checks
\* the existing notes and adds one.
WithNotes(w, list, goal) ==
    IF goal.does = "test"
    THEN Becomes(w, [op |-> "store", about |-> "modActions", value |-> list])
    ELSE IF ExistingNoteCheck(list, goal.label, goal.on)
    THEN Becomes(w, [op |-> "note", about |-> "modActions",
                     value |-> [label |-> goal.label, on |-> goal.on, checked |-> TRUE]])
    ELSE Becomes(w, Free)

GetAuthorModNotes(w, goal) ==
    /\ busy[w].op = "free"
    /\ IF cachedNotes # None THEN WithNotes(w, cachedNotes, goal)
       ELSE Becomes(w, [op |-> "notes", about |-> "modActions", value |-> notes, goal |-> goal])
    /\ UNCHANGED <<member, notes, flair, cachedMembers, cachedNotes, authorCrit, spoiled>>

NotesFetched(w) ==
    /\ busy[w].op = "notes"
    /\ cachedNotes' = busy[w].value
    /\ WithNotes(w, busy[w].value, busy[w].goal)
    /\ SpoilRead(w, "modActions")
    /\ UNCHANGED <<member, notes, flair, cachedMembers, authorCrit>>

\* The modnote action with existingNoteCheck false.
AddUnchecked(w, label, post) ==
    /\ busy[w].op = "free"
    /\ Becomes(w, [op |-> "note", about |-> "modActions",
                   value |-> [label |-> label, on |-> post, checked |-> FALSE]])
    /\ UNCHANGED <<member, notes, flair, cachedMembers, cachedNotes, authorCrit, spoiled>>

AddModNote(w) ==
    /\ busy[w].op = "note"
    /\ Len(notes) < MaxNotes
    /\ notes' = <<busy[w].value>> \o notes
    /\ Becomes(w, [op |-> "notesCache", about |-> "modActions", value |-> busy[w].value])
    /\ Spoil(w, "modActions")
    /\ UNCHANGED <<member, flair, cachedMembers, cachedNotes, authorCrit>>

\* A cached list gets the note at its head; no list is cached for it.
PrependedNote(note) == IF cachedNotes # None THEN <<note>> \o cachedNotes ELSE None

NotesCacheUpdated(w) ==
    /\ busy[w].op = "notesCache"
    /\ cachedNotes' = PrependedNote(busy[w].value)
    /\ Becomes(w, Free)
    /\ Spoil(w, "modActions")
    /\ UNCHANGED <<member, notes, flair, cachedMembers, authorCrit>>

-----------------------------------------------------------------------------
(* Criteria and flair *)

\* testAuthorCriteria finds no result and tests the flair; an activity that
\* the worker holds has the flair that Reddit had when it was taken.
TestFlair(w) ==
    /\ busy[w].op = "free" /\ authorCrit["flairText"] = None
    /\ Becomes(w, [op |-> "store", about |-> "flairText", value |-> flair])
    /\ UNCHANGED <<member, notes, flair, cachedMembers, cachedNotes, authorCrit, spoiled>>

StoreCriteria(w) ==
    /\ busy[w].op = "store"
    /\ authorCrit' = [authorCrit EXCEPT ![busy[w].about] = <<busy[w].value>>]
    /\ Becomes(w, Free)
    /\ UNCHANGED <<member, notes, flair, cachedMembers, cachedNotes, spoiled>>

\* The userflair action: the call of Reddit ...
AssignFlair(w) ==
    /\ busy[w].op = "free"
    /\ flair < MaxFlairs
    /\ flair' = flair + 1
    /\ Becomes(w, [op |-> "flairCache", about |-> "flairText"])
    /\ Spoil(w, "flairText")
    /\ UNCHANGED <<member, notes, cachedMembers, cachedNotes, authorCrit>>

\* resetCacheForItem of a user deletes the results of all criteria.
WithoutResults == [k \in CritKinds |-> None]

\* ... and the reset of the author's results.
FlairReset(w) ==
    /\ busy[w].op = "flairCache"
    /\ authorCrit' = WithoutResults
    /\ Becomes(w, Free)
    /\ Spoil(w, "flairText")
    /\ UNCHANGED <<member, notes, flair, cachedMembers, cachedNotes>>

-----------------------------------------------------------------------------
(* Others *)

ExpireAuthor ==
    /\ \/ cachedMembers # None /\ cachedMembers' = None /\ UNCHANGED <<cachedNotes, authorCrit>>
       \/ cachedNotes # None /\ cachedNotes' = None /\ UNCHANGED <<cachedMembers, authorCrit>>
       \/ \E k \in CritKinds :
             /\ authorCrit[k] # None
             /\ authorCrit' = [authorCrit EXCEPT ![k] = None]
             /\ UNCHANGED <<cachedMembers, cachedNotes>>
    /\ UNCHANGED <<member, notes, flair, busy, spoiled>>

\* A moderator adds a note, which a cached list does not show.
ModeratorNote(label, post) ==
    /\ Moderators
    /\ Len(notes) < MaxNotes
    /\ notes' = <<[label |-> label, on |-> post, checked |-> FALSE]>> \o notes
    /\ spoiled' = IF cachedNotes # None \/ \E w \in Workers : busy[w].op # "free" /\ busy[w].about = "modActions"
                  THEN spoiled \cup {"modActions"} ELSE spoiled
    /\ UNCHANGED <<member, flair, cachedMembers, cachedNotes, authorCrit, busy>>

ContributorsNext ==
    \E w \in Workers :
        \/ /\ authorCrit["isContributor"] = None
           /\ GetContributors(w, "test")
        \/ \E goal \in {"add", "remove"} : GetContributors(w, goal)
        \/ ContributorsFetched(w) \/ ChangeContributor(w) \/ ContributorsCacheUpdated(w)

NotesNext ==
    \/ \E w \in Workers :
          \/ /\ authorCrit["modActions"] = None
             /\ GetAuthorModNotes(w, [does |-> "test"])
          \/ \E label \in Labels, post \in Posts :
                \/ GetAuthorModNotes(w, [does |-> "note", label |-> label, on |-> post])
                \/ AddUnchecked(w, label, post)
          \/ NotesFetched(w) \/ AddModNote(w) \/ NotesCacheUpdated(w)
    \/ \E label \in Labels, post \in Posts : ModeratorNote(label, post)

FlairNext == \E w \in Workers : TestFlair(w) \/ AssignFlair(w) \/ FlairReset(w)

\* What happens to each of them.
ResultsNext == ExpireAuthor \/ \E w \in Workers : StoreCriteria(w)

AuthorNext == ContributorsNext \/ NotesNext \/ FlairNext \/ ResultsNext

AuthorSpec == AuthorInit /\ [][AuthorNext]_authorVars

-----------------------------------------------------------------------------
(* Properties *)

Calm(k) == k \notin spoiled /\ \A w \in Workers : busy[w].op # "free" => busy[w].about # k

\* The cached contributors and mod notes tell what Reddit knows, as long as no
\* two workers were at them at once and moderators changed nothing unseen:
\* what is cached is read, used and written at different times, and may expire
\* between.
ContributorsKnown == Calm("isContributor") /\ cachedMembers # None => cachedMembers = member

ModNotesKnown == Calm("modActions") /\ cachedNotes # None => cachedNotes = notes

\* Under the same conditions a checked note never repeats the note before it
\* (existingNoteCheck: it passes only if no existing note matches).
NoModNoteTwiceInARow ==
    "modActions" \notin spoiled =>
        \A i \in 1 .. Len(notes) - 1 :
            notes[i].checked => notes[i].label # notes[i + 1].label \/ notes[i].on # notes[i + 1].on

\* A result on the author's flair was computed after the bot last changed it.
FlairResultsFollow ==
    Calm("flairText") /\ authorCrit["flairText"] # None => authorCrit["flairText"] = <<flair>>
=============================================================================
