-------------------------------- MODULE Guests --------------------------------
(***************************************************************************)
(* Guests of subreddits: users whom a moderator lets in until some day.    *)
(*                                                                         *)
(* Each manager has its guests in memory, in an entity that is also saved  *)
(* for other reasons.  Requests of moderators and the clean up of expired  *)
(* guests in the health loop change them there first and save them         *)
(* afterwards; saves may fail, and the process may be started again.       *)
(***************************************************************************)
EXTENDS Naturals, Functions

CONSTANTS
    Guested,  \* subreddits with a manager
    Users,
    LastDay   \* bound: days that pass

ASSUME GuestsAssumption == LastDay \in Nat \ {0}

VARIABLES
    guests,      \* guests of each manager's entity, with the day they expire
    guestTable,  \* the same in the database
    today,
    cleanup,     \* where the health loop is in guestModCleanup
    agreed       \* what moderators were told last of a guest; no part of the program

guestVars == <<guests, guestTable, today, cleanup, agreed>>

Days == 1 .. LastDay

GuestLists == UNION {[S -> Days] : S \in SUBSET Users}

\* Only an answered request tells; a failed one leaves it open.
Out == [kind |-> "out"]
Open == [kind |-> "open"]
In(day) == [kind |-> "in", until |-> day]

Paused(cleaned) == [step |-> "paused", cleaned |-> cleaned]
Ended == [step |-> "ended"]

GuestsTypeOK ==
    /\ {guests, guestTable} \subseteq [Guested -> GuestLists]
    /\ today \in Days
    /\ cleanup \in {Paused(TRUE), Paused(FALSE), Ended}
                   \cup [step : {"cleaning"}, now : Days, rest : SUBSET Guested]
    /\ agreed \in [Guested -> [Users -> {Out, Open} \cup {In(d) : d \in Days}]]

NoGuests == [u \in {} |-> 1]

GuestsInit ==
    /\ guests = [m \in Guested |-> NoGuests]
    /\ guestTable = guests
    /\ today = 1
    /\ cleanup = Paused(FALSE)
    /\ agreed = [m \in Guested |-> [u \in Users |-> Out]]

\* Mutant: who is a guest already keeps the day.
KeepsDay(list, us, day) == [u \in DOMAIN list \cup us |-> IF u \in DOMAIN list THEN list[u] ELSE day]

\* addGuest of the entity: one who is a guest already gets the new day.
WithGuests(list, us, day) == [u \in DOMAIN list \cup us |-> IF u \in us THEN day ELSE list[u]]

\* removeGuestByUser
WithoutGuests(list, us) == Restrict(list, DOMAIN list \ us)

\* managerRepo.save of some entities, in one transaction.
Saved(ms, fails) ==
    guestTable' = IF fails THEN guestTable ELSE [m \in Guested |-> IF m \in ms THEN guests'[m] ELSE guestTable[m]]

Agreed(us, ms, answer) ==
    agreed' = [m \in Guested |-> [u \in Users |-> IF m \in ms /\ u \in us THEN answer ELSE agreed[m][u]]]

AddGuests(us, ms, day, fails) ==
    /\ day >= today
    /\ guests' = [m \in Guested |-> IF m \in ms THEN WithGuests(guests[m], us, day) ELSE guests[m]]
    /\ Saved(ms, fails)
    /\ Agreed(us, ms, IF fails THEN Open ELSE In(day))
    /\ UNCHANGED <<today, cleanup>>

RemoveGuests(us, ms, fails) ==
    /\ guests' = [m \in Guested |-> IF m \in ms THEN WithoutGuests(guests[m], us) ELSE guests[m]]
    /\ Saved(ms, fails)
    /\ Agreed(us, ms, IF fails THEN Open ELSE Out)
    /\ UNCHANGED <<today, cleanup>>

\* A manager saves its entity whenever one of its running states changes.
SyncRunningState(m) ==
    /\ guestTable' = [guestTable EXCEPT ![m] = guests[m]]
    /\ UNCHANGED <<guests, today, cleanup, agreed>>

-----------------------------------------------------------------------------
(* The clean up *)

Expired(m, now) == {u \in DOMAIN guests[m] : guests[m][u] < now}

BeginCleanup ==
    /\ cleanup.step = "paused"
    /\ cleanup' = [step |-> "cleaning", now |-> today, rest |-> Guested]
    /\ UNCHANGED <<guests, guestTable, today, agreed>>

\* A save that fails is caught by nobody: the health loop ends.
CleanUp(m, fails) ==
    /\ cleanup.step = "cleaning" /\ m \in cleanup.rest
    /\ Expired(m, cleanup.now) # {}
    /\ guests' = [guests EXCEPT ![m] = WithoutGuests(@, Expired(m, cleanup.now))]
    /\ Saved({m}, fails)
    /\ cleanup' = IF fails THEN Ended ELSE [cleanup EXCEPT !.rest = @ \ {m}]
    /\ UNCHANGED <<today, agreed>>

EndCleanup ==
    /\ cleanup.step = "cleaning"
    /\ \A m \in cleanup.rest : Expired(m, cleanup.now) = {}
    /\ cleanup' = Paused(today = cleanup.now)
    /\ UNCHANGED <<guests, guestTable, today, agreed>>

\* The loop cleans up every few seconds: a day does not pass without it, while
\* a day may begin in the midst of a clean up.
NextDay ==
    /\ today < LastDay
    /\ cleanup.step = "paused" => cleanup.cleaned
    /\ today' = today + 1
    /\ cleanup' = IF cleanup.step = "paused" THEN Paused(FALSE) ELSE cleanup
    /\ UNCHANGED <<guests, guestTable, agreed>>

\* The process is started again and reads the entities.
RestartGuests ==
    /\ guests' = guestTable
    /\ cleanup' = Paused(FALSE)
    /\ UNCHANGED <<guestTable, today, agreed>>

GuestsNext ==
    \/ \E us \in SUBSET Users \ {{}}, ms \in SUBSET Guested \ {{}}, day \in Days, fails \in BOOLEAN :
           AddGuests(us, ms, day, fails)
    \/ \E us \in SUBSET Users \ {{}}, ms \in SUBSET Guested \ {{}}, fails \in BOOLEAN :
           RemoveGuests(us, ms, fails)
    \/ \E m \in Guested : SyncRunningState(m)
    \/ BeginCleanup
    \/ \E m \in Guested, fails \in BOOLEAN : CleanUp(m, fails)
    \/ EndCleanup
    \/ NextDay
    \/ RestartGuests

-----------------------------------------------------------------------------
(* Properties *)

\* getAccessibleSubreddits, by guest status; the day is not looked at.
AsGuest(u) == {m \in Guested : u \in DOMAIN guests[m]}

\* What a moderator was told stays true across failed requests of others, clean
\* ups, saves for other reasons and restarts: one removed stays out, and one
\* added may come in until the day given (addGuest, removeGuest of the bot).
AgreementsKept ==
    \A m \in Guested, u \in Users :
        LET a == agreed[m][u]
        IN /\ a = Out => m \notin AsGuest(u)
           /\ a.kind = "in" /\ a.until >= today => m \in AsGuest(u) /\ guests[m][u] = a.until

\* While the health loop is on, nobody comes in with an expired day once it has
\* cleaned up that day, whatever was added, removed or failed meanwhile
\* (guestModCleanup); nothing else looks at the day.
ExpiredStayOut ==
    cleanup = Paused(TRUE) => \A m \in Guested, u \in Users : m \in AsGuest(u) => guests[m][u] >= today

\* Guests are those a moderator was told of, until their day (addGuest,
\* removeGuest, guestModCleanup).
GuestsKept == AgreementsKept /\ ExpiredStayOut
=============================================================================
