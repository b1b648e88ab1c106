------------------------------- MODULE UserNotes -------------------------------
(***************************************************************************)
(* Toolbox user notes: one wiki page that moderators edit too, read and    *)
(* written as a whole by the usernote action, behind two caches.           *)
(*                                                                         *)
(* The module follows the notes of one author.  What the code keeps is     *)
(* objects that may be shared: the payload in the cache store is the one   *)
(* that a worker modifies if the store hands out references (the memory    *)
(* store does, Redis does not), and a list of notes may be that of the map *)
(* users.  They live in a heap here.                                       *)
(***************************************************************************)
EXTENDS Naturals, Sequences, FiniteSets, Functions

CONSTANTS
    Workers,            \* queue workers
    Types,              \* types of notes
    Refs,               \* names of objects in the heap
    Nothing,            \* "none": a model value
    MaxNotes,           \* bound: notes ever written
    TTLs,               \* values of userNotesTTL: "none" is false
    Stores,             \* cache stores
    ModeratorsAnyTime,  \* whether moderators add notes while the bot remembers some
    EditsFail,          \* whether the edit of the page may fail
    AnswersLost         \* whether an edit that took effect may be answered by an error

NotesAssumption ==
    /\ Nothing \notin Refs
    /\ IsFiniteSet(Workers)
    /\ IsFiniteSet(Refs) /\ Cardinality(Refs) > 2 * Cardinality(Workers) + 2
    /\ MaxNotes \in Nat
    /\ TTLs \subseteq {"none", "zero", "positive"}
    /\ Stores \subseteq {"memory", "redis"}
    /\ {ModeratorsAnyTime, EditsFail, AnswersLost} \subseteq BOOLEAN

VARIABLES
    ttl, store,  \* the configuration
    page,        \* the author's notes on the wiki page
    clock,       \* number of notes written so far
    heap,        \* the objects: payloads and lists of notes
    cached,      \* the payload in the cache store
    users,       \* the list in the map users
    worker,      \* worker[w]: what w is doing
    failed       \* history: notes whose action failed

vars == <<ttl, store, page, clock, heap, cached, users, worker, failed>>

\* A note: its time, its type, and whether it was written by an action that
\* checks the existing notes.
Notes == [time : 1 .. MaxNotes, type : Types, checked : BOOLEAN]

Optional(S) == S \cup {Nothing}

\* A worker in an action: what it awaits, whether it has checked the existing
\* notes, the type of its note, its objects, and the text it sends to the page.
Worker == [pc : {"idle", "otherFetch", "checkFetch", "add", "addFetch", "existingFetch", "edit"},
           checks : BOOLEAN, type : Optional(Types), note : Optional(Notes),
           payload : Optional(Refs), existing : Optional(Refs), text : Seq(Notes)]

Idle == [pc |-> "idle", checks |-> FALSE, type |-> Nothing, note |-> Nothing,
         payload |-> Nothing, existing |-> Nothing, text |-> <<>>]

TypeOK ==
    /\ ttl \in TTLs /\ store \in Stores
    /\ page \in Seq(Notes)
    /\ clock \in 0 .. MaxNotes
    /\ heap \in [Refs -> Seq(Notes)]
    /\ {cached, users} \subseteq Optional(Refs)
    /\ worker \in [Workers -> Worker]
    /\ failed \subseteq Notes

Init ==
    /\ ttl \in TTLs /\ store \in Stores
    /\ page = <<>>
    /\ clock = 0
    /\ heap = [r \in Refs |-> <<>>]
    /\ cached = Nothing /\ users = Nothing
    /\ worker = [w \in Workers |-> Idle]
    /\ failed = {}

-----------------------------------------------------------------------------
(* Objects *)

Caching == ttl = "positive"

InUse == {cached, users} \cup UNION {{worker[w].payload, worker[w].existing} : w \in Workers}

\* A new object: the first name that no one uses, and that is not in taken.
Fresh(taken) == CHOOSE r \in Refs : r \notin InUse \cup taken

\* The heap is h, without the objects that no one can reach any more.
HeapIs(h) ==
    \E reachable \in {InUse'} : heap' = [r \in Refs |-> IF r \in reachable THEN h[r] ELSE <<>>]

\* The notes of a payload in ascending order of time.
Sorted(notes) ==
    LET order == CHOOSE p \in Bijection(DOMAIN notes, DOMAIN notes) :
                    \A i, j \in DOMAIN notes : i < j => notes[p[i]].time <= notes[p[j]].time
    IN [i \in DOMAIN notes |-> notes[order[i]]]

\* retrieveData: the payload is taken from the cache store.
CacheHit == Caching /\ cached # Nothing

\* What cache.get returns: the stored object, or a copy of it in r.
Handed(r) == IF store = "memory" THEN cached ELSE r

\* getUserNotes found no list in users; it keeps the one it built, r, unless
\* the author has no notes.
Kept(r, notes) == IF Caching /\ notes # <<>> THEN r ELSE Nothing

\* A fetched page, and an edited one, clear the map.
UsersAfterFetch == IF ttl = "none" THEN users ELSE Nothing

\* The list that worker w pushes its note to.
WithNote(w) ==
    IF worker[w].existing = Nothing THEN heap
    ELSE [heap EXCEPT ![worker[w].existing] = Append(@, worker[w].note)]

\* A fetched payload p goes into the cache store, whatever the time to live is.
StoredAs(p) == IF ttl = "none" THEN cached ELSE p

-----------------------------------------------------------------------------
(* Readers of other authors' notes *)

\* retrieveData for another author, or for warningExists, asks for the page.
ReadOther(w) ==
    /\ worker[w].pc = "idle"
    /\ ~CacheHit
    /\ worker' = [worker EXCEPT ![w].pc = "otherFetch"]
    /\ UNCHANGED <<ttl, store, page, clock, heap, cached, users, failed>>

OtherFetched(w) ==
    /\ worker[w].pc = "otherFetch"
    /\ worker' = [worker EXCEPT ![w] = Idle]
    /\ LET p == Fresh({})
       IN /\ cached' = StoredAs(p)
          /\ users' = UsersAfterFetch
          /\ HeapIs([heap EXCEPT ![p] = page])
    /\ UNCHANGED <<ttl, store, page, clock, failed>>

-----------------------------------------------------------------------------
(* The usernote action *)

\* Mutant: the current note is taken from the wrong end.
OldestPasses(notes, type) == notes = <<>> \/ Head(notes).type # type

\* existingNoteCheck: the criteria is that the current note has another type.
CheckPasses(notes, type) == notes = <<>> \/ notes[Len(notes)].type # type

\* The check's result: the action ends, or goes on to addUserNote.
Checked(w, notes, type) ==
    worker' = [worker EXCEPT ![w] =
        IF CheckPasses(notes, type)
        THEN [Idle EXCEPT !.pc = "add", !.type = type, !.checks = TRUE] ELSE Idle]

\* process: getUserNotes finds the notes in users, in the cache store, or
\* asks for the page.
Check(w, type) ==
    /\ worker[w].pc = "idle"
    /\ clock < MaxNotes
    /\ UNCHANGED <<ttl, store, page, clock, cached, failed>>
    /\ IF users # Nothing
       THEN Checked(w, heap[users], type) /\ UNCHANGED <<users, heap>>
       ELSE IF CacheHit
       THEN LET r == Fresh({})
                notes == Sorted(heap[cached])
            IN /\ Checked(w, notes, type)
               /\ users' = Kept(r, notes)
               /\ HeapIs([heap EXCEPT ![r] = notes])
       ELSE /\ worker' = [worker EXCEPT ![w] = [Idle EXCEPT !.pc = "checkFetch", !.type = type]]
            /\ UNCHANGED <<users, heap>>

\* The page arrives.
CheckFetched(w) ==
    /\ worker[w].pc = "checkFetch"
    /\ LET p == Fresh({})
           r == Fresh({p})
           notes == Sorted(page)
       IN /\ Checked(w, notes, worker[w].type)
          /\ cached' = StoredAs(p)
          /\ users' = Kept(r, notes)
          /\ HeapIs([heap EXCEPT ![p] = page, ![r] = notes])
    /\ UNCHANGED <<ttl, store, page, clock, failed>>

\* existingNoteCheck is false: nothing is checked.
AddUnchecked(w, type) ==
    /\ worker[w].pc = "idle"
    /\ clock < MaxNotes
    /\ worker' = [worker EXCEPT ![w] = [Idle EXCEPT !.pc = "add", !.type = type]]
    /\ UNCHANGED <<ttl, store, page, clock, heap, cached, users, failed>>

\* The note that is added.
NewNote(w) == [time |-> clock + 1, type |-> worker[w].type, checked |-> worker[w].checks]

\* saveData sends the payload p of the heap h as it is now.
Edits(w, h, p, existing) ==
    [worker[w] EXCEPT !.pc = "edit", !.payload = p, !.existing = existing, !.text = h[p]]

\* addUserNote has its payload p in the heap h while the store holds c and the
\* map u: it adds the note, and calls getUserNotes before it saves.
AddTo(w, h, p, c, u) ==
    LET added == [h EXCEPT ![p] = Append(@, NewNote(w))]
        r == Fresh({p, c})
        adding == [Edits(w, added, p, u) EXCEPT !.note = NewNote(w)]
    IN /\ clock < MaxNotes
       /\ clock' = clock + 1
       /\ cached' = c
       /\ IF u # Nothing
          THEN /\ worker' = [worker EXCEPT ![w] = adding]
               /\ users' = u
               /\ HeapIs(added)
          ELSE IF Caching /\ c # Nothing
          THEN LET notes == Sorted(added[c])
               IN /\ worker' = [worker EXCEPT ![w] = [adding EXCEPT !.existing = r]]
                  /\ users' = Kept(r, notes)
                  /\ HeapIs([added EXCEPT ![r] = notes])
          ELSE /\ worker' = [worker EXCEPT ![w] = [adding EXCEPT !.pc = "existingFetch"]]
               /\ users' = u
               /\ HeapIs(added)

\* addUserNote finds the payload in the cache store, or asks for the page.
Add(w) ==
    /\ worker[w].pc = "add"
    /\ IF CacheHit
       THEN LET p == Handed(Fresh({}))
            IN AddTo(w, [heap EXCEPT ![p] = heap[cached]], p, cached, users)
       ELSE /\ worker' = [worker EXCEPT ![w].pc = "addFetch"]
            /\ UNCHANGED <<clock, heap, cached, users>>
    /\ UNCHANGED <<ttl, store, page, failed>>

\* The page arrives; only the memory store keeps the very object.
AddFetched(w) ==
    /\ worker[w].pc = "addFetch"
    /\ LET p == Fresh({})
           q == IF store = "memory" THEN p ELSE Fresh({p})
       IN AddTo(w, [heap EXCEPT ![p] = page, ![q] = page], p, StoredAs(q), UsersAfterFetch)
    /\ UNCHANGED <<ttl, store, page, failed>>

\* The page arrives a second time, for getUserNotes: the payload that will be
\* saved stays what it was.
ExistingFetched(w) ==
    /\ worker[w].pc = "existingFetch"
    /\ LET q == Fresh({})
           r == Fresh({q})
           notes == Sorted(page)
           h == [heap EXCEPT ![q] = page, ![r] = notes]
       IN /\ worker' = [worker EXCEPT ![w] = Edits(w, heap, @.payload, r)]
          /\ cached' = StoredAs(q)
          /\ users' = Kept(r, notes)
          /\ HeapIs(h)
    /\ UNCHANGED <<ttl, store, page, clock, failed>>

\* The page is edited: the payload is cached, and the list, with the note
\* appended, becomes the author's.
Edited(w) ==
    /\ worker[w].pc = "edit"
    /\ page' = worker[w].text
    /\ worker' = [worker EXCEPT ![w] = Idle]
    /\ cached' = StoredAs(worker[w].payload)
    /\ users' = IF Caching THEN worker[w].existing ELSE UsersAfterFetch
    /\ HeapIs(WithNote(w))
    /\ UNCHANGED <<ttl, store, clock, failed>>

\* The edit fails, as far as its answer tells; no cache is changed.
EditFails(w) ==
    /\ EditsFail
    /\ worker[w].pc = "edit"
    /\ \/ page' = page
       \/ AnswersLost /\ page' = worker[w].text
    /\ worker' = [worker EXCEPT ![w] = Idle]
    /\ failed' = failed \cup {worker[w].note}
    /\ UNCHANGED <<cached, users>>
    /\ HeapIs(heap)
    /\ UNCHANGED <<ttl, store, clock>>

-----------------------------------------------------------------------------
(* The environment *)

\* The cache store drops the payload; nothing drops the list in users.
Expire ==
    /\ cached # Nothing
    /\ cached' = Nothing
    /\ UNCHANGED <<users, worker>>
    /\ HeapIs(heap)
    /\ UNCHANGED <<ttl, store, page, clock, failed>>

\* A moderator adds a note with Toolbox, which puts it before the others: as a
\* rule while the bot neither remembers notes nor is about to.
ModeratorAdds(type) ==
    /\ clock < MaxNotes
    /\ ModeratorsAnyTime
           \/ /\ ~Caching \/ (cached = Nothing /\ users = Nothing)
              /\ \A w \in Workers : worker[w].pc = "idle"
    /\ clock' = clock + 1
    /\ page' = <<[time |-> clock + 1, type |-> type, checked |-> FALSE]>> \o page
    /\ UNCHANGED <<ttl, store, heap, cached, users, worker, failed>>

-----------------------------------------------------------------------------
(* The specification *)

Action(w) ==
    \/ \E type \in Types : Check(w, type) \/ AddUnchecked(w, type)
    \/ CheckFetched(w)
    \/ Add(w) \/ AddFetched(w) \/ ExistingFetched(w)
    \/ Edited(w) \/ EditFails(w)

Next ==
    \/ \E w \in Workers : Action(w) \/ ReadOther(w) \/ OtherFetched(w)
    \/ Expire
    \/ \E type \in Types : ModeratorAdds(type)

Spec == Init /\ [][Next]_vars

-----------------------------------------------------------------------------
(* Properties *)

Quiet == \A w \in Workers : worker[w].pc = "idle"

\* Notes of failed actions stay in what the memory store holds.
NoTraces == store = "redis" \/ failed = {}

\* No edit drops a note from the page: addUserNote writes the whole page from a
\* payload that it may have read long before.
NothingLost == [][Range(page) \subseteq Range(page')]_vars

\* The page gets no note whose action failed, not even with a later edit
\* (saveData writes whatever the payload holds).
NothingFromFailures == NoTraces => \A n \in failed : n \notin Range(page)

\* The list in users tells what the page holds: all of it, and with a store
\* that copies each note once and in order.
KnowsPage ==
    NoTraces /\ Quiet /\ users # Nothing =>
        /\ Range(page) \subseteq Range(heap[users])
        /\ store = "redis" => heap[users] = Sorted(page)

\* A checked note never follows a note of its type, although the check and the
\* edit read the notes at different times and from different caches (comment on
\* existingNoteCheck: only if there is no existing note matching).
NeverTwiceInARow ==
    LET notes == Sorted(page)
    IN NoTraces => \A i \in 2 .. Len(notes) :
           notes[i].checked => notes[i].type # notes[i - 1].type
=============================================================================
