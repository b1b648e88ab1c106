---------------------------- MODULE ResourcesProofs ----------------------------
(***************************************************************************)
(* Theorems about what is kept in more than one place: guests, config      *)
(* fragments, statistics, the caches of subreddits, the bots the web client *)
(* adds, what is cached of activities, contributors, mod notes and flairs, *)
(* and user notes.  Each is about one part of MCResources, for any         *)
(* subreddits, instances, workers, ttls and bounds, and the last about the *)
(* types of all of them.                                                   *)
(***************************************************************************)
EXTENDS MCResources, FiniteSetTheorems, TLAPS

\* A step of the whole is a step of each part, or leaves the part as it is.
LEMMA StepsOfParts ==
    [Next]_allVars => /\ [GuestsNext]_guestVars
                      /\ [FragmentsNext]_fragmentVars
                      /\ [StatsNext]_statVars
                      /\ [CachesNext]_cacheVars
                      /\ [WebNext]_webVars
                      /\ [ItemNext]_itemVars
                      /\ [AuthorNext]_authorVars
                      /\ [Wiki!Next]_noteVars
  BY DEF Next, allVars, restVars, cachedVars, AuthorNext

-----------------------------------------------------------------------------
(* Guests *)

\* A list of guests gives some users a day each.
LEMMA GuestListsMembers ==
    ASSUME NEW list
    PROVE  list \in GuestLists <=> /\ list = [u \in DOMAIN list |-> list[u]]
                                   /\ DOMAIN list \subseteq Users
                                   /\ \A u \in DOMAIN list : list[u] \in Days
  BY DEF GuestLists

\* The operations on a list of guests give a list of guests.
LEMMA GuestListsClosed ==
    ASSUME NEW list \in GuestLists, NEW us \in SUBSET Users, NEW day \in Days
    PROVE  WithGuests(list, us, day) \in GuestLists /\ WithoutGuests(list, us) \in GuestLists
<1>1. WithGuests(list, us, day) \in GuestLists
  BY GuestListsMembers DEF WithGuests
<1>2. WithoutGuests(list, us) \in GuestLists
  BY GuestListsMembers DEF WithoutGuests, Restrict
<1> QED
  BY <1>1, <1>2

\* What is expired is out of a list that was cleaned, and who is out of it was
\* expired.
LEMMA CleanedList ==
    ASSUME NEW m \in Guested, NEW now \in Days, guests \in [Guested -> GuestLists]
    PROVE  LET cleaned == WithoutGuests(guests[m], Expired(m, now))
           IN /\ cleaned \in GuestLists
              /\ DOMAIN cleaned \subseteq DOMAIN guests[m]
              /\ \A u \in DOMAIN cleaned : cleaned[u] = guests[m][u] /\ cleaned[u] >= now
              /\ \A u \in DOMAIN guests[m] \ DOMAIN cleaned : guests[m][u] < now
<1> DEFINE us == Expired(m, now)
<1>1. guests[m] \in GuestLists
  OBVIOUS
<1>2. us \in SUBSET Users
  BY <1>1, GuestListsMembers DEF Expired
<1>3. \A u \in DOMAIN guests[m] : guests[m][u] \in Int /\ now \in Int
  BY <1>1, GuestListsMembers DEF Days
<1>4. WithoutGuests(guests[m], us) \in GuestLists
  BY <1>1, <1>2, GuestListsMembers DEF WithoutGuests, Restrict
<1> QED
  BY <1>3, <1>4 DEF WithoutGuests, Restrict, Expired

-----------------------------------------------------------------------------

\* A list agrees with what moderators were told of the guests of m.
ListAgrees(list, m) ==
    \A u \in Users :
        /\ agreed[m][u] = Out => u \notin DOMAIN list
        /\ agreed[m][u].kind = "in" /\ agreed[m][u].until >= today =>
               u \in DOMAIN list /\ list[u] = agreed[m][u].until

\* During a clean up, who is left over in the managers that it has done with has
\* not expired before the clean up began.
DoneAreClean ==
    cleanup.step = "cleaning" =>
        /\ cleanup.now <= today
        /\ \A m \in Guested \ cleanup.rest : \A u \in DOMAIN guests[m] : guests[m][u] >= cleanup.now

\* The agreements hold in memory and in the database, which a restart reads.
GuestsInv ==
    /\ GuestsTypeOK
    /\ \A m \in Guested : ListAgrees(guests[m], m) /\ ListAgrees(guestTable[m], m)
    /\ DoneAreClean
    /\ ExpiredStayOut

\* The invariant implies the property.
LEMMA GuestsInvImplies == GuestsInv => GuestsKept
<1> SUFFICES ASSUME GuestsInv PROVE AgreementsKept
  BY DEF GuestsKept, GuestsInv
<1> QED
  BY DEF GuestsInv, ListAgrees, AgreementsKept, AsGuest

\* At first nobody is a guest, and nobody was told of any.
LEMMA GuestsInvInit == GuestsInit => GuestsInv
<1> SUFFICES ASSUME GuestsInit PROVE GuestsInv
  OBVIOUS
<1>1. NoGuests \in GuestLists /\ DOMAIN NoGuests = {}
  BY GuestListsMembers DEF NoGuests
<1>2. GuestsTypeOK
  <2>1. 1 \in Days
    BY GuestsAssumption DEF Days
  <2> QED
    BY <1>1, <2>1 DEF GuestsInit, GuestsTypeOK
<1>3. ASSUME NEW m \in Guested, NEW list, list = NoGuests PROVE ListAgrees(list, m)
  <2>1. ASSUME NEW u \in Users PROVE agreed[m][u] = Out
    BY DEF GuestsInit
  <2> QED
    BY <1>1, <1>3, <2>1 DEF ListAgrees, Out
<1>4. DoneAreClean /\ ExpiredStayOut
  BY DEF GuestsInit, DoneAreClean, ExpiredStayOut, Paused
<1> QED
  BY <1>2, <1>3, <1>4 DEF GuestsInv, GuestsInit

\* A save puts the lists of memory into the table, or changes nothing there.
LEMMA SavedTypes ==
    ASSUME GuestsTypeOK, NEW ms \in SUBSET Guested, NEW fails \in BOOLEAN, Saved(ms, fails),
           guests' \in [Guested -> GuestLists]
    PROVE  /\ guestTable' \in [Guested -> GuestLists]
           /\ \A m \in Guested : guestTable'[m] = IF ~fails /\ m \in ms THEN guests'[m] ELSE guestTable[m]
  BY DEF GuestsTypeOK, Saved

\* An agreement is replaced for the users and subreddits of a request.
LEMMA AgreedTypes ==
    ASSUME GuestsTypeOK, NEW ms, NEW us, NEW answer \in {Out, Open} \cup {In(d) : d \in Days},
           Agreed(us, ms, answer)
    PROVE  /\ agreed' \in [Guested -> [Users -> {Out, Open} \cup {In(d) : d \in Days}]]
           /\ \A m \in Guested, u \in Users :
                  agreed'[m][u] = IF m \in ms /\ u \in us THEN answer ELSE agreed[m][u]
  BY DEF GuestsTypeOK, Agreed

-----------------------------------------------------------------------------

\* Who is added has the day that the moderators are told; a failed request
\* leaves it open, and the table as it was.
LEMMA AddGuestsKeeps ==
    ASSUME GuestsInv, NEW us \in SUBSET Users, NEW ms \in SUBSET Guested, NEW day \in Days,
           NEW fails \in BOOLEAN, AddGuests(us, ms, day, fails)
    PROVE  GuestsInv'
<1> DEFINE answer == IF fails THEN Open ELSE In(day)
<1>1. \A m \in Guested : guests[m] \in GuestLists /\ WithGuests(guests[m], us, day) \in GuestLists
  BY GuestListsClosed DEF GuestsInv, GuestsTypeOK
<1>2. /\ guests' \in [Guested -> GuestLists]
      /\ \A m \in Guested : guests'[m] = IF m \in ms THEN WithGuests(guests[m], us, day) ELSE guests[m]
  BY <1>1 DEF AddGuests
<1>3. /\ guestTable' \in [Guested -> GuestLists]
      /\ \A m \in Guested : guestTable'[m] = IF ~fails /\ m \in ms THEN guests'[m] ELSE guestTable[m]
  BY <1>2, SavedTypes DEF AddGuests, GuestsInv
<1>4. /\ agreed' \in [Guested -> [Users -> {Out, Open} \cup {In(d) : d \in Days}]]
      /\ \A m \in Guested, u \in Users :
             agreed'[m][u] = IF m \in ms /\ u \in us THEN answer ELSE agreed[m][u]
  <2>1. answer \in {Out, Open} \cup {In(d) : d \in Days}
    OBVIOUS
  <2>2. Agreed(us, ms, answer)
    BY DEF AddGuests
  <2> QED
    BY <2>1, <2>2, AgreedTypes DEF GuestsInv
<1>5. GuestsTypeOK'
  BY <1>2, <1>3, <1>4 DEF GuestsTypeOK, GuestsInv, AddGuests
<1>6. ASSUME NEW m \in Guested PROVE ListAgrees(guests[m], m)' /\ ListAgrees(guestTable[m], m)'
  <2>1. ListAgrees(guests[m], m) /\ ListAgrees(guestTable[m], m)
    BY DEF GuestsInv
  <2>2. ASSUME NEW u \in Users, ~(m \in ms /\ u \in us)
        PROVE  /\ u \in DOMAIN guests'[m] <=> u \in DOMAIN guests[m]
               /\ u \in DOMAIN guests[m] => guests'[m][u] = guests[m][u]
    BY <1>2, <2>2 DEF WithGuests
  <2>3. ASSUME m \in ms, NEW u \in us PROVE u \in DOMAIN guests'[m] /\ guests'[m][u] = day
    BY <1>2, <2>3 DEF WithGuests
  <2>4. answer # Out /\ (answer.kind = "in" => ~fails /\ answer.until = day)
    BY DEF Out, Open, In
  <2>5. UNCHANGED today
    BY DEF AddGuests
  <2> HIDE DEF answer
  <2>6. ListAgrees(guests[m], m)'
    BY <1>4, <2>1, <2>2, <2>3, <2>4, <2>5 DEF ListAgrees
  <2>7. ListAgrees(guestTable[m], m)'
    BY <1>3, <1>4, <2>1, <2>4, <2>5, <2>6 DEF ListAgrees
  <2> QED
    BY <2>6, <2>7
<1>7. DoneAreClean' /\ ExpiredStayOut'
  <2>1. ASSUME NEW m \in Guested, NEW u \in DOMAIN guests'[m]
        PROVE  guests'[m][u] = day \/ (u \in DOMAIN guests[m] /\ guests'[m][u] = guests[m][u])
    BY <1>2, <2>1 DEF WithGuests
  <2>2. day >= today /\ today \in Int /\ day \in Int /\ UNCHANGED <<today, cleanup>>
    BY DEF AddGuests, GuestsInv, GuestsTypeOK, Days
  <2>3. cleanup.step = "cleaning" => cleanup.now \in Int
    BY DEF GuestsInv, GuestsTypeOK, Days, Paused, Ended
  <2>4. DoneAreClean'
    BY <2>1, <2>2, <2>3 DEF DoneAreClean, GuestsInv
  <2>5. ExpiredStayOut'
    <3>1. \A m \in Guested : DOMAIN guests'[m] \subseteq Users
      BY <1>2, GuestListsMembers
    <3> QED
      BY <2>1, <2>2, <3>1, <1>1, GuestListsMembers DEF ExpiredStayOut, GuestsInv, AsGuest, Paused
  <2> QED
    BY <2>4, <2>5
<1> QED
  BY <1>5, <1>6, <1>7 DEF GuestsInv

\* Who is removed is out, in memory at once and in the table if the save succeeds.
LEMMA RemoveGuestsKeeps ==
    ASSUME GuestsInv, NEW us \in SUBSET Users, NEW ms \in SUBSET Guested,
           NEW fails \in BOOLEAN, RemoveGuests(us, ms, fails)
    PROVE  GuestsInv'
<1> DEFINE answer == IF fails THEN Open ELSE Out
<1>1. \A m \in Guested : guests[m] \in GuestLists /\ WithoutGuests(guests[m], us) \in GuestLists
  <2>1. ASSUME NEW m \in Guested, NEW d \in Days PROVE WithoutGuests(guests[m], us) \in GuestLists
    BY GuestListsClosed DEF GuestsInv, GuestsTypeOK
  <2> QED
    BY <2>1 DEF GuestsInv, GuestsTypeOK
<1>2. /\ guests' \in [Guested -> GuestLists]
      /\ \A m \in Guested : guests'[m] = IF m \in ms THEN WithoutGuests(guests[m], us) ELSE guests[m]
  BY <1>1 DEF RemoveGuests
<1>3. /\ guestTable' \in [Guested -> GuestLists]
      /\ \A m \in Guested : guestTable'[m] = IF ~fails /\ m \in ms THEN guests'[m] ELSE guestTable[m]
  BY <1>2, SavedTypes DEF RemoveGuests, GuestsInv
<1>4. /\ agreed' \in [Guested -> [Users -> {Out, Open} \cup {In(d) : d \in Days}]]
      /\ \A m \in Guested, u \in Users :
             agreed'[m][u] = IF m \in ms /\ u \in us THEN answer ELSE agreed[m][u]
  <2>1. Agreed(us, ms, answer)
    BY DEF RemoveGuests
  <2> QED
    BY <2>1, AgreedTypes DEF GuestsInv
<1>5. GuestsTypeOK'
  BY <1>2, <1>3, <1>4 DEF GuestsTypeOK, GuestsInv, RemoveGuests
<1>6. \A m \in Guested : \A u \in DOMAIN guests'[m] : u \in DOMAIN guests[m] /\ guests'[m][u] = guests[m][u]
  BY <1>2 DEF WithoutGuests, Restrict
<1>7. ASSUME NEW m \in Guested PROVE ListAgrees(guests[m], m)' /\ ListAgrees(guestTable[m], m)'
  <2>1. ListAgrees(guests[m], m) /\ ListAgrees(guestTable[m], m)
    BY DEF GuestsInv
  <2>2. ASSUME NEW u \in Users, ~(m \in ms /\ u \in us)
        PROVE  u \in DOMAIN guests'[m] <=> u \in DOMAIN guests[m]
    BY <1>2, <2>2 DEF WithoutGuests, Restrict
  <2>3. ASSUME m \in ms, NEW u \in us PROVE u \notin DOMAIN guests'[m]
    BY <1>2, <2>3 DEF WithoutGuests, Restrict
  <2>4. (fails => answer # Out) /\ answer.kind # "in" /\ UNCHANGED today
    BY DEF Out, Open, RemoveGuests
  <2> HIDE DEF answer
  <2>5. ListAgrees(guests[m], m)'
    BY <1>4, <1>6, <2>1, <2>2, <2>3, <2>4 DEF ListAgrees
  <2>6. ListAgrees(guestTable[m], m)'
    BY <1>3, <1>4, <2>1, <2>4, <2>5 DEF ListAgrees
  <2> QED
    BY <2>5, <2>6
<1>8. DoneAreClean' /\ ExpiredStayOut'
  BY <1>6 DEF DoneAreClean, ExpiredStayOut, AsGuest, GuestsInv, RemoveGuests
<1> QED
  BY <1>5, <1>7, <1>8 DEF GuestsInv

\* The clean up takes nobody out who may still come in, whether or not it saves.
LEMMA CleanUpKeeps ==
    ASSUME GuestsInv, NEW m \in Guested, NEW fails \in BOOLEAN, CleanUp(m, fails)
    PROVE  GuestsInv'
<1> DEFINE cleaned == WithoutGuests(guests[m], Expired(m, cleanup.now))
<1>1. cleanup.step = "cleaning" /\ cleanup.now \in Days /\ today \in Days /\ cleanup.now <= today
  BY DEF CleanUp, GuestsInv, GuestsTypeOK, Paused, Ended, DoneAreClean
<1>2. /\ cleaned \in GuestLists
      /\ DOMAIN cleaned \subseteq DOMAIN guests[m]
      /\ \A u \in DOMAIN cleaned : cleaned[u] = guests[m][u] /\ cleaned[u] >= cleanup.now
      /\ \A u \in DOMAIN guests[m] \ DOMAIN cleaned : guests[m][u] < cleanup.now
  BY <1>1, CleanedList DEF GuestsInv, GuestsTypeOK
<1>3. /\ guests' \in [Guested -> GuestLists]
      /\ \A k \in Guested : guests'[k] = IF k = m THEN cleaned ELSE guests[k]
  BY <1>2 DEF CleanUp, GuestsInv, GuestsTypeOK
<1>4. /\ guestTable' \in [Guested -> GuestLists]
      /\ \A k \in Guested : guestTable'[k] = IF ~fails /\ k \in {m} THEN guests'[k] ELSE guestTable[k]
  <2>1. Saved({m}, fails) /\ {m} \in SUBSET Guested
    BY DEF CleanUp
  <2> QED
    BY <1>3, <2>1, SavedTypes DEF GuestsInv
<1>5. cleanup' = IF fails THEN Ended ELSE [cleanup EXCEPT !.rest = @ \ {m}]
  BY DEF CleanUp
<1>6. cleanup \in [step : {"cleaning"}, now : Days, rest : SUBSET Guested]
  BY <1>1 DEF GuestsInv, GuestsTypeOK, Paused, Ended
<1>7. GuestsTypeOK'
  <2>1. cleanup' = Ended \/ cleanup' \in [step : {"cleaning"}, now : Days, rest : SUBSET Guested]
    BY <1>5, <1>6
  <2>2. UNCHANGED <<today, agreed>>
    BY DEF CleanUp
  <2> HIDE DEF cleaned
  <2> QED
    BY <1>3, <1>4, <2>1, <2>2 DEF GuestsTypeOK, GuestsInv
<1>8. ASSUME NEW k \in Guested PROVE ListAgrees(guests[k], k)' /\ ListAgrees(guestTable[k], k)'
  <2>1. ListAgrees(guests[k], k) /\ ListAgrees(guestTable[k], k) /\ UNCHANGED <<today, agreed>>
    BY DEF GuestsInv, CleanUp
  <2>2. \A u \in Users : agreed[k][u].kind = "in" => agreed[k][u].until \in Days
    BY DEF GuestsInv, GuestsTypeOK, Out, Open, In
  <2>3. ListAgrees(guests[k], k)'
    <3> HIDE DEF cleaned
    <3>1. CASE k # m
      BY <1>3, <2>1, <3>1 DEF ListAgrees
    <3>2. CASE k = m
      <4>1. \A u \in Users : agreed[m][u] = Out => u \notin DOMAIN cleaned
        BY <1>2, <2>1, <3>2 DEF ListAgrees
      <4>2. ASSUME NEW u \in Users, agreed[m][u].kind = "in", agreed[m][u].until >= today
            PROVE  u \in DOMAIN cleaned /\ cleaned[u] = agreed[m][u].until
        <5>1. u \in DOMAIN guests[m] /\ guests[m][u] = agreed[m][u].until
          BY <2>1, <3>2, <4>2 DEF ListAgrees
        <5>2. ~(guests[m][u] < cleanup.now)
          BY <1>1, <2>2, <3>2, <4>2, <5>1 DEF Days
        <5> QED
          BY <1>2, <5>1, <5>2
      <4> QED
        BY <1>3, <2>1, <3>2, <4>1, <4>2 DEF ListAgrees
    <3> QED
      BY <3>1, <3>2
  <2>4. ListAgrees(guestTable[k], k)'
    BY <1>4, <2>1, <2>3 DEF ListAgrees
  <2> QED
    BY <2>3, <2>4
<1>9. DoneAreClean'
  <2>1. CASE fails
    BY <1>5, <2>1 DEF DoneAreClean, Ended
  <2>2. CASE ~fails
    <3>1. cleanup'.now = cleanup.now /\ cleanup'.rest = cleanup.rest \ {m} /\ UNCHANGED today
      BY <1>5, <1>6, <2>2 DEF CleanUp
    <3> HIDE DEF cleaned
    <3> QED
      BY <1>1, <1>2, <1>3, <3>1 DEF DoneAreClean, GuestsInv
  <2> QED
    BY <2>1, <2>2
<1>10. ExpiredStayOut'
  BY <1>5, <1>6 DEF ExpiredStayOut, Paused, Ended
<1> QED
  BY <1>7, <1>8, <1>9, <1>10 DEF GuestsInv

\* A manager saves its guests for another reason: the table gets what memory has.
LEMMA SyncKeeps ==
    ASSUME GuestsInv, NEW m \in Guested, SyncRunningState(m)
    PROVE  GuestsInv'
<1>1. /\ guestTable' \in [Guested -> GuestLists]
      /\ \A k \in Guested : guestTable'[k] = IF k = m THEN guests[k] ELSE guestTable[k]
  BY DEF GuestsInv, GuestsTypeOK, SyncRunningState
<1>2. UNCHANGED <<guests, today, cleanup, agreed>>
  BY DEF SyncRunningState
<1>3. GuestsTypeOK'
  BY <1>1, <1>2 DEF GuestsTypeOK, GuestsInv
<1>4. ASSUME NEW k \in Guested PROVE ListAgrees(guests[k], k)' /\ ListAgrees(guestTable[k], k)'
  BY <1>1, <1>2 DEF ListAgrees, GuestsInv
<1> QED
  BY <1>2, <1>3, <1>4 DEF GuestsInv, DoneAreClean, ExpiredStayOut, AsGuest

\* The clean up begins with every manager still to do, and ends when none has
\* anyone who had expired when it began.
LEMMA CleanupRunsKeep ==
    ASSUME GuestsInv, BeginCleanup \/ EndCleanup
    PROVE  GuestsInv'
<1>1. CASE BeginCleanup
  <2>1. /\ cleanup' = [step |-> "cleaning", now |-> today, rest |-> Guested]
        /\ UNCHANGED <<guests, guestTable, today, agreed>>
    BY <1>1 DEF BeginCleanup
  <2>2. GuestsTypeOK'
    BY <2>1 DEF GuestsTypeOK, GuestsInv
  <2>3. DoneAreClean' /\ ExpiredStayOut'
    BY <2>1 DEF DoneAreClean, ExpiredStayOut, Paused, GuestsInv, GuestsTypeOK, Days
  <2> QED
    BY <2>1, <2>2, <2>3 DEF GuestsInv, ListAgrees
<1>2. CASE EndCleanup
  <2>1. /\ cleanup.step = "cleaning"
        /\ cleanup' = Paused(today = cleanup.now)
        /\ UNCHANGED <<guests, guestTable, today, agreed>>
    BY <1>2 DEF EndCleanup
  <2>2. GuestsTypeOK'
    <3>1. (today = cleanup.now) \in BOOLEAN
      OBVIOUS
    <3>2. cleanup' \in {Paused(TRUE), Paused(FALSE)}
      BY <2>1, <3>1
    <3> QED
      BY <2>1, <3>2 DEF GuestsTypeOK, GuestsInv
  <2>3. DoneAreClean'
    BY <2>1 DEF DoneAreClean, Paused
  <2>4. ASSUME today = cleanup.now, NEW m \in Guested, NEW u \in DOMAIN guests[m]
        PROVE  guests[m][u] >= today
    <3>1. CASE m \in cleanup.rest
      <4>1. u \notin Expired(m, cleanup.now)
        BY <1>2, <3>1 DEF EndCleanup
      <4>2. guests[m][u] \in Days /\ today \in Days
        BY GuestListsMembers DEF GuestsInv, GuestsTypeOK
      <4> QED
        BY <2>4, <4>1, <4>2 DEF Expired, Days
    <3>2. CASE m \notin cleanup.rest
      BY <2>1, <2>4, <3>2 DEF GuestsInv, DoneAreClean
    <3> QED
      BY <3>1, <3>2
  <2>5. cleanup' = Paused(TRUE) => today = cleanup.now
    BY <2>1 DEF Paused
  <2>6. ExpiredStayOut'
    BY <2>1, <2>4, <2>5 DEF ExpiredStayOut, AsGuest
  <2> QED
    BY <2>1, <2>2, <2>3, <2>6 DEF GuestsInv, ListAgrees
<1> QED
  BY <1>1, <1>2

\* A day passes: fewer agreements are in force, and the clean up is to be done.
LEMMA NextDayKeeps ==
    ASSUME GuestsInv, NextDay
    PROVE  GuestsInv'
<1>1. /\ today' = today + 1 /\ today < LastDay
      /\ cleanup' = IF cleanup.step = "paused" THEN Paused(FALSE) ELSE cleanup
      /\ UNCHANGED <<guests, guestTable, agreed>>
  BY DEF NextDay
<1>2. today \in Days /\ today' \in Days /\ today' = today + 1
  BY <1>1, GuestsAssumption DEF GuestsInv, GuestsTypeOK, Days
<1>3. GuestsTypeOK'
  BY <1>1, <1>2 DEF GuestsTypeOK, GuestsInv
<1>4. ASSUME NEW m \in Guested PROVE ListAgrees(guests[m], m)' /\ ListAgrees(guestTable[m], m)'
  <2>1. \A u \in Users : agreed[m][u].kind = "in" => agreed[m][u].until \in Days
    BY DEF GuestsInv, GuestsTypeOK, Out, Open, In
  <2>2. \A u \in Users : agreed[m][u].kind = "in" /\ agreed[m][u].until >= today' => agreed[m][u].until >= today
    BY <1>2, <2>1 DEF Days
  <2> QED
    BY <1>1, <2>2 DEF ListAgrees, GuestsInv
<1>5. DoneAreClean'
  <2>1. cleanup.step = "cleaning" => cleanup.now \in Days
    BY DEF GuestsInv, GuestsTypeOK, Paused, Ended
  <2> QED
    BY <1>1, <1>2, <2>1 DEF DoneAreClean, GuestsInv, Paused, Days
<1>6. ExpiredStayOut'
  BY <1>1 DEF ExpiredStayOut, Paused, Ended, GuestsInv, GuestsTypeOK
<1> QED
  BY <1>3, <1>4, <1>5, <1>6 DEF GuestsInv

\* A restart reads the table, which agrees with what moderators were told.
LEMMA RestartKeeps ==
    ASSUME GuestsInv, RestartGuests
    PROVE  GuestsInv'
<1>1. guests' = guestTable /\ cleanup' = Paused(FALSE) /\ UNCHANGED <<guestTable, today, agreed>>
  BY DEF RestartGuests
<1>2. GuestsTypeOK'
  BY <1>1 DEF GuestsTypeOK, GuestsInv
<1>3. DoneAreClean' /\ ExpiredStayOut'
  BY <1>1 DEF DoneAreClean, ExpiredStayOut, Paused
<1> QED
  BY <1>1, <1>2, <1>3 DEF GuestsInv, ListAgrees

-----------------------------------------------------------------------------

\* Every step keeps the invariant.
LEMMA GuestsInvNext == GuestsInv /\ [GuestsNext]_guestVars => GuestsInv'
<1> SUFFICES ASSUME GuestsInv, [GuestsNext]_guestVars PROVE GuestsInv'
  OBVIOUS
<1>1. ASSUME NEW us \in SUBSET Users, NEW ms \in SUBSET Guested, NEW day \in Days, NEW fails \in BOOLEAN,
             AddGuests(us, ms, day, fails)
      PROVE  GuestsInv'
  BY <1>1, AddGuestsKeeps
<1>2. ASSUME NEW us \in SUBSET Users, NEW ms \in SUBSET Guested, NEW fails \in BOOLEAN,
             RemoveGuests(us, ms, fails)
      PROVE  GuestsInv'
  BY <1>2, RemoveGuestsKeeps
<1>3. ASSUME NEW m \in Guested, SyncRunningState(m) PROVE GuestsInv'
  BY <1>3, SyncKeeps
<1>4. ASSUME NEW m \in Guested, NEW fails \in BOOLEAN, CleanUp(m, fails) PROVE GuestsInv'
  BY <1>4, CleanUpKeeps
<1>5. CASE BeginCleanup \/ EndCleanup
  BY <1>5, CleanupRunsKeep
<1>6. CASE NextDay
  BY <1>6, NextDayKeeps
<1>7. CASE RestartGuests
  BY <1>7, RestartKeeps
<1>8. CASE UNCHANGED guestVars
  BY <1>8 DEF guestVars, GuestsInv, GuestsTypeOK, ListAgrees, DoneAreClean, ExpiredStayOut, AsGuest
<1> QED
  BY <1>1, <1>2, <1>3, <1>4, <1>5, <1>6, <1>7, <1>8 DEF GuestsNext

\* One who was removed stays out, one who was added may come in until the day that
\* moderators were told, and nobody comes in with an expired day once it was
\* cleaned up: for any subreddits, users and days (addGuest, removeGuest,
\* guestModCleanup).
THEOREM GuestsCorrect == Spec => []GuestsKept
<1>1. Init => GuestsInv
  BY GuestsInvInit DEF Init
<1>2. GuestsInv /\ [Next]_allVars => GuestsInv'
  BY GuestsInvNext, StepsOfParts
<1>3. GuestsInv => GuestsKept
  BY GuestsInvImplies
<1> QED
  BY <1>1, <1>2, <1>3, PTL DEF Spec

-----------------------------------------------------------------------------
(* Config fragments *)

\* The longest ttl is the longest.
LEMMA LongestIs == Longest \in Nat /\ \A n \in Numbers : n \in Nat /\ n <= Longest
<1>1. Longest \in Numbers /\ \A n \in Numbers : n <= Longest
  BY FragmentsAssumption DEF Longest
<1> QED
  BY <1>1, FragmentsAssumption

Readings == {NoRequest, [for |-> "content"]} \cup [for : {"config"}, ttl : FragmentTTLs]

Entries == [page : FragmentPage, left : 0 .. Longest]

\* What the client of a page relies on: a version that is older than the page has
\* been replaced, and what is cached was a version of the page.
FragmentInv ==
    /\ sharedPage \in FragmentPage
    /\ replaced \in [Versions -> Nat \cup {None}]
    /\ fragment # None => fragment \in Entries
    /\ DOMAIN reader = Readers /\ \A s \in Readers : reader[s] \in Readings
    /\ used # None => used \in [by : Readers, page : FragmentPage]
    /\ \A v \in Versions : v >= sharedPage.version => replaced[v] = None
    /\ SharedWithReader
    /\ NotOutdated

LEMMA FragmentInvInit == FragmentsInit => FragmentInv
<1> SUFFICES ASSUME FragmentsInit PROVE FragmentInv
  OBVIOUS
<1>1. 1 \in Versions
  BY FragmentsAssumption DEF Versions
<1> QED
  BY <1>1 DEF FragmentsInit, FragmentInv, FragmentPage, Readings, SharedWithReader, NotOutdated

\* The page is changed: what is cached of it is in use for as long as its entry
\* has left.
LEMMA EditPageKeeps == ASSUME FragmentInv, EditPage PROVE FragmentInv'
<1> DEFINE old == sharedPage.version
<1>0. old \in Versions /\ old \in Nat /\ old < MaxVersions
  BY FragmentsAssumption DEF EditPage, FragmentInv, FragmentPage, Versions
<1>1. /\ sharedPage' \in FragmentPage /\ sharedPage'.version = old + 1
      /\ replaced' = [replaced EXCEPT ![old] = 0]
      /\ UNCHANGED <<fragment, reader, used>>
  <2>1. PICK shared \in SUBSET Readers : sharedPage' = [version |-> old + 1, shared |-> shared]
    BY DEF EditPage
  <2>2. old + 1 \in Versions
    BY <1>0, FragmentsAssumption DEF Versions
  <2> QED
    BY <2>1, <2>2 DEF EditPage, FragmentPage
<1> HIDE DEF old
<1>2. replaced' \in [Versions -> Nat \cup {None}]
  BY <1>1 DEF FragmentInv
<1>3. \A v \in Versions : v >= sharedPage'.version => replaced'[v] = None
  BY <1>0, <1>1 DEF FragmentInv, Versions, old
<1>4. NotOutdated'
  <2> SUFFICES ASSUME fragment # None, fragment.left # 0, replaced'[fragment.page.version] # None
               PROVE  replaced'[fragment.page.version] + fragment.left <= Longest
    BY <1>1 DEF NotOutdated
  <2>1. fragment \in Entries
    BY DEF FragmentInv
  <2>2. fragment.page.version \in Versions /\ fragment.left \in 0 .. Longest
    BY <2>1 DEF Entries, FragmentPage
  <2>3. CASE fragment.page.version = old
    BY <1>0, <1>1, <2>2, <2>3, LongestIs DEF FragmentInv
  <2>4. CASE fragment.page.version # old
    BY <1>0, <1>1, <2>2, <2>4 DEF FragmentInv, NotOutdated
  <2> QED
    BY <2>3, <2>4
<1> QED
  BY <1>1, <1>2, <1>3, <1>4 DEF FragmentInv, SharedWithReader

\* Time passes for what is cached as it does for what was replaced.
LEMMA TickKeeps == ASSUME FragmentInv, TickFragments PROVE FragmentInv'
<1>1. /\ replaced' = [v \in Versions |-> IF replaced[v] = None \/ replaced[v] > Longest
                                         THEN replaced[v] ELSE replaced[v] + 1]
      /\ fragment' = IF fragment = None \/ fragment.left = 0 THEN fragment
                     ELSE IF fragment.left = 1 THEN None ELSE [fragment EXCEPT !.left = @ - 1]
      /\ UNCHANGED <<sharedPage, reader, used>>
  BY DEF TickFragments
<1>2. replaced' \in [Versions -> Nat \cup {None}]
  <2>1. \A v \in Versions : replaced[v] \in Nat \cup {None}
    BY DEF FragmentInv
  <2>2. \A v \in Versions : replaced'[v] \in Nat \cup {None}
    BY <1>1, <2>1
  <2> QED
    BY <1>1, <2>2
<1>3. \A v \in Versions : v >= sharedPage'.version => replaced'[v] = None
  BY <1>1 DEF FragmentInv
<1>4. ASSUME fragment' # None
      PROVE  /\ fragment' \in Entries /\ fragment # None /\ fragment'.page = fragment.page
             /\ fragment'.left # 0 => fragment.left = fragment'.left + 1
  <2>1. fragment # None /\ fragment \in Entries
    BY <1>1, <1>4 DEF FragmentInv
  <2>2. fragment.page \in FragmentPage /\ fragment.left \in 0 .. Longest
    BY <2>1 DEF Entries
  <2>3. CASE fragment.left = 0
    BY <1>1, <2>1, <2>3
  <2>4. CASE fragment.left # 0
    <3>1. fragment' = [fragment EXCEPT !.left = @ - 1]
      BY <1>1, <1>4, <2>1, <2>4
    <3>2. fragment' = [page |-> fragment.page, left |-> fragment.left - 1]
      BY <2>1, <3>1 DEF Entries
    <3>3. fragment.left - 1 \in 0 .. Longest
      BY <2>2, <2>4, LongestIs
    <3> QED
      BY <2>1, <2>2, <3>2, <3>3, LongestIs DEF Entries
  <2> QED
    BY <2>3, <2>4
<1>5. NotOutdated'
  <2> SUFFICES ASSUME fragment' # None, fragment'.left # 0, replaced'[fragment'.page.version] # None
               PROVE  replaced'[fragment'.page.version] + fragment'.left <= Longest
    BY DEF NotOutdated
  <2> DEFINE v == fragment.page.version
  <2>1. /\ fragment \in Entries /\ fragment # None /\ fragment'.page.version = v
        /\ fragment.left = fragment'.left + 1 /\ fragment'.left \in 0 .. Longest
    <3>1. /\ fragment' \in Entries /\ fragment # None /\ fragment'.page = fragment.page
          /\ fragment.left = fragment'.left + 1
      BY <1>4
    <3>2. fragment \in Entries
      BY <3>1 DEF FragmentInv
    <3> QED
      BY <3>1, <3>2 DEF Entries
  <2>2. v \in Versions
    BY <2>1 DEF Entries, FragmentPage
  <2> HIDE DEF v
  <2>3. replaced[v] \in Nat \cup {None}
    BY <2>2 DEF FragmentInv
  <2>4. replaced[v] # None /\ fragment.left # 0
    BY <1>1, <2>1, <2>2, LongestIs
  <2>5. replaced[v] + fragment.left <= Longest
    BY <2>1, <2>4 DEF FragmentInv, NotOutdated, v
  <2>6. replaced'[v] = replaced[v] + 1
    BY <1>1, <2>1, <2>2, <2>3, <2>4, <2>5, LongestIs
  <2> QED
    BY <2>1, <2>3, <2>4, <2>5, <2>6, LongestIs
<1>6. fragment' # None => fragment' \in Entries
  BY <1>4
<1> QED
  BY <1>1, <1>2, <1>3, <1>5, <1>6 DEF FragmentInv, SharedWithReader

\* What comes from the cache is read as what was fetched is: a config that is not
\* shared with the subreddit is refused.
LEMMA ParsedKeeps ==
    ASSUME NEW s \in Readers, NEW p \in FragmentPage, NEW fromCache, Parsed(s, p, fromCache)
    PROVE  SharedWithReader' /\ (used' # None => used' \in [by : Readers, page : FragmentPage])
  BY DEF Parsed, Accepted, SharedWithReader

LEMMA ReadKeeps ==
    ASSUME FragmentInv, NEW s \in Readers, NEW request \in Readings, Read(s, request),
           UNCHANGED <<sharedPage, replaced>>
    PROVE  FragmentInv'
<1>1. CASE s \notin Uncached /\ fragment # None
  <2>1. fragment' = fragment /\ UNCHANGED reader
    BY <1>1 DEF Read, AfterHit
  <2>2. fragment.page \in FragmentPage
    BY <1>1 DEF FragmentInv, Entries
  <2>3. SharedWithReader' /\ (used' # None => used' \in [by : Readers, page : FragmentPage])
    <3>1. CASE request.for = "config"
      BY <1>1, <2>2, <3>1, ParsedKeeps DEF Read
    <3>2. CASE request.for # "config"
      BY <1>1, <3>2 DEF Read, FragmentInv, SharedWithReader
    <3> QED
      BY <3>1, <3>2
  <2> QED
    BY <2>1, <2>3 DEF FragmentInv, NotOutdated
<1>2. CASE ~(s \notin Uncached /\ fragment # None)
  BY <1>2 DEF Read, FragmentInv, SharedWithReader, NotOutdated, Readings
<1> QED
  BY <1>1, <1>2

\* What is stored is the page as it is, for no longer than the longest ttl.
LEMMA StoredKeeps ==
    ASSUME FragmentInv, NEW s \in Readers, NEW time, time # None => time \in Numbers,
           Stored(s, time), UNCHANGED <<sharedPage, replaced>>
    PROVE  NotOutdated' /\ (fragment' # None => fragment' \in Entries)
<1>1. CASE time = None
  BY <1>1 DEF Stored, FragmentInv, NotOutdated
<1>2. CASE time # None
  <2>1. fragment' = [page |-> sharedPage, left |-> time] /\ time \in 0 .. Longest
    BY <1>2, LongestIs DEF Stored
  <2>2. fragment' \in Entries
    BY <2>1 DEF Entries, FragmentInv
  <2>3. sharedPage.version \in Versions /\ sharedPage.version \in Nat
    BY DEF FragmentInv, FragmentPage, Versions
  <2>4. replaced[sharedPage.version] = None
    BY <2>3 DEF FragmentInv
  <2> QED
    BY <2>1, <2>2, <2>4 DEF NotOutdated
<1> QED
  BY <1>1, <1>2

LEMMA FetchFragmentKeeps == ASSUME FragmentInv, NEW s \in Readers, FetchFragment(s) PROVE FragmentInv'
<1>1. reader[s].for = "config" /\ reader[s] \in Readings
  BY DEF FetchFragment, FragmentInv
<1>2. reader[s].ttl \in FragmentTTLs
  BY <1>1 DEF Readings, NoRequest
<1>3. PICK lifetime \in Lifetimes :
        Stored(s, IF Accepted(sharedPage, s, FALSE) THEN StoredFor(s, reader[s].ttl, lifetime) ELSE None)
  BY DEF FetchFragment
<1> DEFINE time == IF Accepted(sharedPage, s, FALSE) THEN StoredFor(s, reader[s].ttl, lifetime) ELSE None
<1>4. time # None => time \in Numbers
  BY <1>2 DEF StoredFor, WikiTTL, Numbers
<1>5. Stored(s, time)
  BY <1>3
<1>6. UNCHANGED <<sharedPage, replaced>> /\ reader' = [reader EXCEPT ![s] = NoRequest]
  BY DEF FetchFragment
<1> HIDE DEF time
<1>7. NotOutdated' /\ (fragment' # None => fragment' \in Entries)
  BY <1>4, <1>5, <1>6, StoredKeeps
<1>8. SharedWithReader' /\ (used' # None => used' \in [by : Readers, page : FragmentPage])
  BY ParsedKeeps DEF FetchFragment, FragmentInv
<1> QED
  BY <1>6, <1>7, <1>8 DEF FragmentInv, Readings

LEMMA FetchContentKeeps == ASSUME FragmentInv, NEW s \in Readers, FetchContent(s) PROVE FragmentInv'
<1>1. WikiTTL(s) # None => WikiTTL(s) \in Numbers
  BY DEF WikiTTL, Numbers
<1>2. Stored(s, WikiTTL(s)) /\ UNCHANGED <<sharedPage, replaced, used>> /\ reader' = [reader EXCEPT ![s] = NoRequest]
  BY DEF FetchContent
<1>3. NotOutdated' /\ (fragment' # None => fragment' \in Entries)
  BY <1>1, <1>2, StoredKeeps
<1> QED
  BY <1>2, <1>3 DEF FragmentInv, Readings, SharedWithReader

LEMMA FragmentInvNext == FragmentInv /\ [FragmentsNext]_fragmentVars => FragmentInv'
<1> SUFFICES ASSUME FragmentInv, [FragmentsNext]_fragmentVars PROVE FragmentInv'
  OBVIOUS
<1>1. CASE EditPage
  BY <1>1, EditPageKeeps
<1>2. CASE TickFragments
  BY <1>2, TickKeeps
<1>3. ASSUME NEW s \in Readers, ReadFragment(s) PROVE FragmentInv'
  BY <1>3, ReadKeeps DEF ReadFragment, Readings
<1>4. ASSUME NEW s \in Readers, ReadContent(s) PROVE FragmentInv'
  BY <1>4, ReadKeeps DEF ReadContent, Readings
<1>5. ASSUME NEW s \in Readers, FetchFragment(s) PROVE FragmentInv'
  BY <1>5, FetchFragmentKeeps
<1>6. ASSUME NEW s \in Readers, FetchContent(s) PROVE FragmentInv'
  BY <1>6, FetchContentKeeps
<1>7. ASSUME NEW s \in Readers, FetchFails(s) PROVE FragmentInv'
  BY <1>7 DEF FetchFails, FragmentInv, SharedWithReader, NotOutdated, Readings
<1>8. CASE UNCHANGED fragmentVars
  BY <1>8 DEF fragmentVars, FragmentInv, SharedWithReader, NotOutdated
<1> QED
  BY <1>1, <1>2, <1>3, <1>4, <1>5, <1>6, <1>7, <1>8 DEF FragmentsNext

\* A config is built only from a page that is shared with its subreddit, and not
\* from one that was replaced longer ago than the longest ttl: for any
\* subreddits, any that cache no pages, any ttls and lifetimes
\* (SubredditResources.getConfigFragment, ConfigBuilder.ts).
THEOREM FragmentsCorrect == Spec => []FragmentsGuarded
<1>1. Init => FragmentInv
  BY FragmentInvInit DEF Init
<1>2. FragmentInv /\ [Next]_allVars => FragmentInv'
  BY FragmentInvNext, StepsOfParts
<1>3. FragmentInv => FragmentsGuarded
  BY DEF FragmentInv, FragmentsGuarded
<1> QED
  BY <1>1, <1>2, <1>3, PTL DEF Spec

-----------------------------------------------------------------------------
(* Statistics *)

Instances == [freq : Frequencies, total : Nat, loaded : BOOLEAN,
              timer : {"unset", "running", "cleared"}, renewed : BOOLEAN]

Settings == {Absent, SettingDone} \cup [step : {"making", "loading"}, total : Nat]

StatsTyped ==
    /\ instances \in Seq(Instances)
    /\ setting \in Settings
    /\ saved \in Nat
    /\ setting # Absent => Len(instances) # 0

Loading == setting.step \in {"making", "loading"}

\* While a total is being read no timer of the instance in use saves, unless its
\* timer has ended for good.
TimerWaits == Loading => LET now == instances[Current]
                         IN \/ now.timer = "unset"
                            \/ now.timer = "cleared" /\ now.renewed

\* What the instance in use would save is no less than what is saved, and neither
\* is what it is about to read; timers are set when the total is read.
SavesMore ==
    ~Replaces =>
        /\ Loading => setting.total >= saved
        /\ Len(instances) # 0 /\ instances[Current].loaded => instances[Current].total >= saved

LoadedHasTimer == \A i \in 1 .. Current : instances[i].loaded => instances[i].timer # "unset"

StatsInv == StatsTyped /\ TimerWaits /\ SavesMore /\ LoadedHasTimer /\ TimerRuns

\* The instance in use is one, and what others there are do not change with it.
LEMMA InUse ==
    ASSUME StatsTyped, Len(instances) # 0
    PROVE  /\ Current \in Nat \ {0} /\ instances[Current] \in Instances
           /\ \A i \in 1 .. Current : instances[i] \in Instances
           /\ \A now \in Instances :
                 LET new == [instances EXCEPT ![Current] = now]
                 IN /\ new \in Seq(Instances) /\ Len(new) = Current /\ new[Current] = now
                    /\ \A i \in 1 .. Current - 1 : new[i] = instances[i]
<1>1. instances \in Seq(Instances) /\ Len(instances) \in Nat
  BY DEF StatsTyped
<1>2. Current \in Nat \ {0}
  BY <1>1 DEF Current
<1>3. \A i \in 1 .. Current : instances[i] \in Instances
  BY <1>1 DEF Current
<1>4. ASSUME NEW now \in Instances
      PROVE  LET new == [instances EXCEPT ![Current] = now]
             IN /\ new \in Seq(Instances) /\ Len(new) = Current /\ new[Current] = now
                /\ \A i \in 1 .. Current - 1 : new[i] = instances[i]
  BY <1>1, <1>2 DEF Current
<1> QED
  BY <1>2, <1>3, <1>4

\* One more instance is the one in use.
LEMMA OneMore ==
    ASSUME NEW list \in Seq(Instances), NEW now \in Instances
    PROVE  LET new == Append(list, now)
           IN /\ new \in Seq(Instances) /\ Len(new) = Len(list) + 1 /\ new[Len(new)] = now
              /\ Len(list) \in Nat /\ \A i \in 1 .. Len(list) : new[i] = list[i]
  OBVIOUS

LEMMA StatsInvInit == StatsInit => StatsInv
<1> SUFFICES ASSUME StatsInit PROVE StatsInv
  OBVIOUS
<1>1. instances = <<>> /\ setting = Absent /\ saved = 0
  BY DEF StatsInit
<1>2. Len(instances) = 0 /\ setting.step = "absent" /\ setting # SettingDone
  BY <1>1 DEF Absent, SettingDone
<1>3. StatsTyped
  BY <1>1 DEF StatsTyped, Settings
<1> QED
  BY <1>1, <1>2, <1>3 DEF StatsInv, TimerWaits, Loading, SavesMore, LoadedHasTimer, Current, TimerRuns

\* What one more count changes.
LEMMA CountKeeps == ASSUME StatsInv, CountStat PROVE StatsInv'
<1> DEFINE now == instances[Current]
           new == [freq |-> now.freq, total |-> now.total + 1, loaded |-> now.loaded,
                   timer |-> now.timer, renewed |-> now.renewed]
<1>1. /\ instances # <<>> /\ UNCHANGED <<setting, saved>>
      /\ instances' = [instances EXCEPT ![Current].total = @ + 1]
  BY DEF CountStat
<1>2. Len(instances) # 0
  BY <1>1 DEF StatsInv, StatsTyped
<1>3. now \in Instances /\ Current \in Nat \ {0}
  BY <1>2, InUse DEF StatsInv
<1>4. new \in Instances
  BY <1>3 DEF Instances
<1>5. instances' = [instances EXCEPT ![Current] = new]
  <2>1. [now EXCEPT !.total = @ + 1] = new
    BY <1>3 DEF Instances
  <2> QED
    BY <1>1, <2>1
<1> HIDE DEF new
<1>6. /\ instances' \in Seq(Instances) /\ Len(instances') = Current /\ instances'[Current] = new
      /\ \A i \in 1 .. Current - 1 : instances'[i] = instances[i]
  BY <1>2, <1>4, <1>5, InUse DEF StatsInv
<1>7. StatsTyped'
  BY <1>1, <1>3, <1>6 DEF StatsInv, StatsTyped
<1>8. Replaces' = Replaces
  BY <1>3, <1>6 DEF Replaces, Current
<1>9. /\ new.timer = now.timer /\ new.renewed = now.renewed /\ new.loaded = now.loaded
      /\ new.total = now.total + 1 /\ now.total \in Nat /\ saved \in Nat
  BY <1>3 DEF new, Instances, StatsInv, StatsTyped
<1>10. TimerWaits' /\ TimerRuns'
  BY <1>1, <1>6, <1>9 DEF StatsInv, TimerWaits, Loading, TimerRuns, Current
<1>11. SavesMore'
  BY <1>1, <1>2, <1>6, <1>8, <1>9 DEF StatsInv, SavesMore, Loading, Current
<1>12. LoadedHasTimer'
  BY <1>3, <1>6, <1>9 DEF StatsInv, LoadedHasTimer, Current
<1> QED
  BY <1>7, <1>10, <1>11, <1>12 DEF StatsInv

\* A timer saves; what is saved then is what it has, or what was saved.
LEMMA SaveKeeps ==
    ASSUME StatsInv, NEW i \in 1 .. Current, SaveInterval(i)
    PROVE  StatsInv' /\ (~Replaces => saved' >= saved)
<1>1. instances[i].timer = "running" /\ saved' = SavedBy(i) /\ UNCHANGED <<instances, setting>>
  BY DEF SaveInterval
<1>2. instances \in Seq(Instances) /\ saved \in Nat /\ Current \in Nat /\ i \in Nat /\ i >= 1 /\ i <= Current
  BY DEF StatsInv, StatsTyped, Current
<1>3. instances[i] \in Instances
  BY <1>2 DEF Current
<1>4. saved' \in Nat /\ saved' \in {saved, instances[i].total} /\ (saved' # saved => instances[i].loaded)
  BY <1>1, <1>2, <1>3 DEF SavedBy, Instances
<1>5. StatsTyped' /\ TimerWaits' /\ LoadedHasTimer' /\ TimerRuns'
  BY <1>1, <1>4 DEF StatsInv, StatsTyped, TimerWaits, Loading, LoadedHasTimer, TimerRuns, Current
<1>6. CASE Replaces
  <2>1. Replaces'
    BY <1>1, <1>6 DEF Replaces, Current
  <2> QED
    BY <1>5, <1>6, <2>1 DEF StatsInv, SavesMore
<1>7. CASE ~Replaces
  <2>1. i = Current
    BY <1>1, <1>2, <1>7 DEF Replaces
  <2>2. ~Loading
    BY <1>1, <2>1 DEF StatsInv, TimerWaits
  <2>3. instances[Current].loaded => instances[Current].total >= saved
    BY <1>2, <1>7, <2>1 DEF StatsInv, SavesMore, Current
  <2>4. saved' >= saved
    BY <1>2, <1>3, <1>4, <2>1, <2>3 DEF Instances
  <2>5. instances[Current].loaded => saved' = instances[Current].total
    BY <1>1, <2>1 DEF SavedBy
  <2>6. SavesMore'
    BY <1>1, <1>3, <2>1, <2>2, <2>5 DEF SavesMore, Loading, Current, Instances
  <2> QED
    BY <1>5, <2>4, <2>6 DEF StatsInv
<1> QED
  BY <1>6, <1>7

LEMMA NewInstanceIs ==
    ASSUME NEW freq \in Frequencies
    PROVE  LET new == NewInstance(freq)
           IN new \in Instances /\ new.timer = "unset" /\ ~new.loaded /\ ~new.renewed
  BY DEF NewInstance, Instances

LEMMA MakeKeeps == ASSUME StatsInv, NEW freq \in Frequencies, MakeResources(freq) PROVE StatsInv'
<1> DEFINE new == NewInstance(freq)
<1>1. /\ setting = Absent /\ instances' = Append(instances, new)
      /\ setting' = [step |-> "making", total |-> saved] /\ UNCHANGED saved
  BY DEF MakeResources
<1>2. new \in Instances /\ new.timer = "unset" /\ ~new.loaded
  BY NewInstanceIs
<1>3. instances \in Seq(Instances) /\ saved \in Nat
  BY DEF StatsInv, StatsTyped
<1> HIDE DEF new
<1>4. /\ instances' \in Seq(Instances) /\ Len(instances') = Current + 1 /\ instances'[Current + 1] = new
      /\ Current \in Nat /\ \A i \in 1 .. Current : instances'[i] = instances[i]
  BY <1>1, <1>2, <1>3, OneMore DEF Current
<1>5. StatsTyped'
  BY <1>1, <1>3, <1>4 DEF StatsTyped, Settings
<1>6. Current' = Current + 1 /\ setting'.total = saved' /\ setting' # SettingDone
  BY <1>1, <1>4 DEF Current, SettingDone
<1>7. TimerWaits' /\ TimerRuns'
  BY <1>2, <1>4, <1>6 DEF TimerWaits, TimerRuns
<1>8. SavesMore'
  BY <1>1, <1>2, <1>3, <1>4, <1>6 DEF SavesMore
<1>9. LoadedHasTimer'
  BY <1>2, <1>4 DEF LoadedHasTimer, Current, StatsInv
<1> QED
  BY <1>5, <1>7, <1>8, <1>9 DEF StatsInv

\* What is left of an instance whose timer has ended.
LEMMA ClearedIs ==
    ASSUME NEW now \in Instances
    PROVE  LET end == Cleared(now)
           IN /\ end \in Instances /\ end.timer # "running"
              /\ end.timer = "unset" <=> now.timer = "unset"
              /\ end.loaded = now.loaded /\ end.total = now.total /\ end.renewed = now.renewed
  BY DEF Cleared, Instances

\* The last save of the instance in use: unless it has never read the total, it
\* saves what it has.
LEMMA SavedAtEndIs ==
    ASSUME StatsInv, Len(instances) # 0
    PROVE  /\ SavedAtEnd \in Nat
           /\ instances[Current].loaded => SavedAtEnd = instances[Current].total
           /\ ~instances[Current].loaded => SavedAtEnd = saved
           /\ ~Replaces => SavedAtEnd >= saved
<1>1. instances[Current] \in Instances /\ Current \in Nat \ {0} /\ saved \in Nat
  BY InUse DEF StatsInv, StatsTyped
<1>2. instances[Current].loaded => instances[Current].timer # "unset"
  BY <1>1 DEF StatsInv, LoadedHasTimer
<1>3. ~Replaces /\ instances[Current].loaded => instances[Current].total >= saved
  BY DEF StatsInv, SavesMore
<1> QED
  BY <1>1, <1>2, <1>3 DEF SavedAtEnd, SavedBy, Instances

LEMMA ConfigureKeeps ==
    ASSUME StatsInv, NEW freq \in Frequencies, NEW otherCache \in BOOLEAN, Configure(freq, otherCache)
    PROVE  StatsInv' /\ (~Replaces => saved' >= saved)
<1> DEFINE now == instances[Current]
           renew == now.freq # freq
           ended == [Cleared(now) EXCEPT !.freq = freq, !.renewed = TRUE]
           kept == IF renew THEN [instances EXCEPT ![Current] = ended] ELSE instances
           new == NewInstance(freq)
<1>1. /\ setting = SettingDone /\ (~renew => otherCache)
      /\ saved' = IF renew THEN SavedAtEnd ELSE saved
      /\ instances' = IF otherCache THEN Append(kept, new) ELSE kept
      /\ setting' = [step |-> "loading", total |-> saved']
  BY DEF Configure
<1>2. Len(instances) # 0 /\ instances \in Seq(Instances) /\ saved \in Nat
  BY <1>1 DEF StatsInv, StatsTyped, SettingDone, Absent
<1>3. now \in Instances /\ Current \in Nat \ {0} /\ Current = Len(instances)
  BY <1>2, InUse DEF StatsInv, Current
<1>4. /\ ended \in Instances /\ ended.renewed /\ ended.timer # "running"
      /\ ended.timer = "unset" <=> now.timer = "unset"
      /\ ended.loaded = now.loaded /\ ended.total = now.total
  <2>1. /\ Cleared(now) \in Instances /\ Cleared(now).timer # "running"
        /\ Cleared(now).timer = "unset" <=> now.timer = "unset"
        /\ Cleared(now).loaded = now.loaded /\ Cleared(now).total = now.total
    BY <1>3, ClearedIs
  <2> HIDE DEF now
  <2> QED
    BY <2>1 DEF Instances
<1>5. saved' \in Nat /\ (~Replaces => saved' >= saved)
      /\ (renew /\ now.loaded => saved' = now.total) /\ (~renew => saved' = saved)
      /\ (renew /\ ~now.loaded => saved' = saved)
  <2>1. CASE renew
    BY <1>1, <1>2, <2>1, SavedAtEndIs
  <2>2. CASE ~renew
    BY <1>1, <1>2, <2>2
  <2> QED
    BY <2>1, <2>2
<1>6. new \in Instances /\ new.timer = "unset" /\ ~new.loaded
  BY NewInstanceIs
<1> HIDE DEF new, ended, now
<1>7. /\ kept \in Seq(Instances) /\ Len(kept) = Current /\ kept[Current] = (IF renew THEN ended ELSE now)
      /\ \A i \in 1 .. Current - 1 : kept[i] = instances[i]
  <2>1. CASE renew
    BY <1>2, <1>4, <2>1, InUse DEF StatsInv
  <2>2. CASE ~renew
    BY <1>2, <1>3, <2>2 DEF now
  <2> QED
    BY <2>1, <2>2
<1>8. \A i \in 1 .. Current : kept[i].loaded => kept[i].timer # "unset"
  <2>1. ASSUME NEW i \in 1 .. Current, kept[i].loaded PROVE kept[i].timer # "unset"
    <3>1. instances[i].loaded => instances[i].timer # "unset"
      BY DEF StatsInv, LoadedHasTimer
    <3>2. CASE i = Current
      BY <1>4, <1>7, <2>1, <3>1, <3>2 DEF now
    <3>3. CASE i # Current
      BY <1>3, <1>7, <2>1, <3>1, <3>3
    <3> QED
      BY <3>2, <3>3
  <2> QED
    BY <2>1
<1> HIDE DEF kept
<1>9. ~Loading /\ Loading' /\ setting'.total = saved' /\ setting' # SettingDone /\ setting' \in Settings
  BY <1>1, <1>5 DEF Loading, SettingDone, Settings
<1>10. TimerRuns'
  BY <1>9 DEF TimerRuns
<1>11. CASE otherCache
  <2>1. /\ instances' \in Seq(Instances) /\ Len(instances') = Current + 1 /\ instances'[Current + 1] = new
        /\ \A i \in 1 .. Current : instances'[i] = kept[i]
    BY <1>1, <1>6, <1>7, <1>11, OneMore
  <2>2. Current' = Current + 1
    BY <2>1 DEF Current
  <2>3. StatsTyped'
    BY <1>3, <1>5, <1>9, <2>1 DEF StatsTyped
  <2>4. TimerWaits'
    BY <1>6, <2>1, <2>2 DEF TimerWaits
  <2>5. SavesMore'
    BY <1>5, <1>6, <1>9, <2>1, <2>2 DEF SavesMore
  <2>6. LoadedHasTimer'
    BY <1>3, <1>6, <1>8, <2>1, <2>2 DEF LoadedHasTimer
  <2> QED
    BY <1>5, <1>10, <2>3, <2>4, <2>5, <2>6 DEF StatsInv
<1>12. CASE ~otherCache
  <2>1. renew /\ instances' = kept
    BY <1>1, <1>12
  <2>2. Current' = Current /\ Len(instances') = Current
    BY <1>7, <2>1 DEF Current
  <2>3. StatsTyped'
    BY <1>3, <1>5, <1>7, <1>9, <2>1, <2>2 DEF StatsTyped
  <2>4. TimerWaits'
    BY <1>4, <1>7, <2>1, <2>2 DEF TimerWaits, Instances
  <2>5. SavesMore'
    BY <1>4, <1>5, <1>7, <1>9, <2>1, <2>2 DEF SavesMore, Instances
  <2>6. LoadedHasTimer'
    BY <1>8, <2>1, <2>2 DEF LoadedHasTimer
  <2> QED
    BY <1>5, <1>10, <2>3, <2>4, <2>5, <2>6 DEF StatsInv
<1> QED
  BY <1>11, <1>12

\* The read ends: the timer is set, unless it has ended for good.
LEMMA LoadKeeps == ASSUME StatsInv, LoadEnds PROVE StatsInv'
<1> DEFINE now == instances[Current]
           read == Loaded(now, setting.total)
<1>1. /\ Loading /\ setting' = SettingDone /\ UNCHANGED saved
      /\ \/ instances' = [instances EXCEPT ![Current] = WithTimer(read)]
         \/ instances' = [instances EXCEPT ![Current] = WithTimer(now)]
  BY DEF LoadEnds, Loading
<1>2. setting # Absent /\ setting.total \in Nat /\ saved \in Nat
  BY <1>1 DEF StatsInv, StatsTyped, Settings, Loading, Absent, SettingDone
<1>3. Len(instances) # 0 /\ Current \in Nat \ {0} /\ now \in Instances
  BY <1>2, InUse DEF StatsInv, StatsTyped
<1>4. now.timer = "unset" \/ (now.timer = "cleared" /\ now.renewed)
  BY <1>1 DEF StatsInv, TimerWaits
<1>5. now.loaded => now.timer # "unset"
  BY <1>3 DEF StatsInv, LoadedHasTimer
<1>6. ~Replaces => setting.total >= saved /\ (now.loaded => now.total >= saved)
  BY <1>1, <1>3 DEF StatsInv, SavesMore
<1>7. read \in Instances /\ read.loaded /\ read.total = setting.total /\ read.timer = now.timer /\ read.renewed = now.renewed
  BY <1>2, <1>3 DEF Loaded, Instances
<1> DEFINE Good(x) == /\ x \in Instances /\ x.timer # "unset" /\ (x.timer = "running" \/ x.renewed)
                      /\ ~Replaces => (x.loaded => x.total >= saved)
<1> HIDE DEF now, read
<1>8. Good(WithTimer(read)) /\ Good(WithTimer(now))
  <2>1. ASSUME NEW x \in Instances, x.timer = now.timer, x.renewed = now.renewed,
               ~Replaces => (x.loaded => x.total >= saved)
        PROVE  Good(WithTimer(x))
    BY <1>4, <2>1 DEF WithTimer, Instances
  <2> HIDE DEF Good
  <2>2. Good(WithTimer(read))
    BY <1>6, <1>7, <2>1
  <2> QED
    BY <1>3, <1>6, <2>1, <2>2
<1>9. PICK new : Good(new) /\ instances' = [instances EXCEPT ![Current] = new]
  BY <1>1, <1>8
<1>10. /\ instances' \in Seq(Instances) /\ Len(instances') = Current /\ instances'[Current] = new
       /\ \A i \in 1 .. Current - 1 : instances'[i] = instances[i]
  BY <1>3, <1>9, InUse DEF StatsInv
<1>11. Current' = Current
  BY <1>10 DEF Current
<1>12. StatsTyped'
  BY <1>1, <1>2, <1>3, <1>10 DEF StatsTyped, Settings
<1>13. ~Loading'
  BY <1>1 DEF Loading, SettingDone
<1>14. Replaces' = Replaces
  BY <1>3, <1>10, <1>11 DEF Replaces
<1>15. TimerWaits' /\ TimerRuns' /\ SavesMore'
  BY <1>1, <1>9, <1>10, <1>11, <1>13, <1>14 DEF TimerWaits, TimerRuns, SavesMore
<1>16. LoadedHasTimer'
  BY <1>3, <1>9, <1>10, <1>11 DEF StatsInv, LoadedHasTimer
<1> QED
  BY <1>12, <1>15, <1>16 DEF StatsInv

LEMMA DestroyKeeps ==
    ASSUME StatsInv, DestroyStats
    PROVE  StatsInv' /\ (~Replaces => saved' >= saved)
<1> DEFINE now == instances[Current]
           end == Cleared(now)
<1>1. /\ setting = SettingDone /\ saved' = SavedAtEnd /\ setting' = Absent
      /\ instances' = [instances EXCEPT ![Current] = end]
  BY DEF DestroyStats
<1>2. Len(instances) # 0
  BY <1>1 DEF StatsInv, StatsTyped, SettingDone, Absent
<1>3. now \in Instances /\ Current \in Nat \ {0}
  BY <1>2, InUse DEF StatsInv
<1>4. /\ end \in Instances /\ (end.timer = "unset" <=> now.timer = "unset")
      /\ end.loaded = now.loaded /\ end.total = now.total
  BY <1>3, ClearedIs
<1>5. /\ SavedAtEnd \in Nat /\ (now.loaded => SavedAtEnd = now.total) /\ (~Replaces => SavedAtEnd >= saved)
  BY <1>2, SavedAtEndIs
<1> HIDE DEF now, end
<1>6. /\ instances' \in Seq(Instances) /\ Len(instances') = Current /\ instances'[Current] = end
      /\ \A i \in 1 .. Current - 1 : instances'[i] = instances[i]
  BY <1>1, <1>2, <1>4, InUse DEF StatsInv
<1>7. Current' = Current
  BY <1>6 DEF Current
<1>8. StatsTyped' /\ ~Loading' /\ setting' # SettingDone
  BY <1>1, <1>5, <1>6 DEF StatsTyped, Settings, Loading, Absent, SettingDone
<1>9. SavesMore'
  BY <1>1, <1>4, <1>5, <1>6, <1>7, <1>8 DEF SavesMore, Instances
<1>10. LoadedHasTimer'
  <2>1. now.loaded => now.timer # "unset"
    BY <1>3 DEF StatsInv, LoadedHasTimer, now
  <2> QED
    BY <1>3, <1>4, <1>6, <1>7, <2>1 DEF StatsInv, LoadedHasTimer
<1> QED
  BY <1>1, <1>5, <1>8, <1>9, <1>10 DEF StatsInv, TimerWaits, TimerRuns

LEMMA CrashKeeps == ASSUME StatsInv, CrashStats PROVE StatsInv'
<1>1. instances' = <<>> /\ setting' = Absent /\ UNCHANGED saved
  BY DEF CrashStats
<1>2. Len(instances') = 0 /\ setting'.step = "absent" /\ setting' # SettingDone
  BY <1>1 DEF Absent, SettingDone
<1>3. StatsTyped'
  BY <1>1 DEF StatsInv, StatsTyped, Settings
<1> QED
  BY <1>1, <1>2, <1>3 DEF StatsInv, TimerWaits, Loading, SavesMore, LoadedHasTimer, Current, TimerRuns

\* Every step keeps the invariant, and saves no less than was saved unless an
\* instance that was replaced has kept its timer.
LEMMA StatsInvNext ==
    StatsInv /\ [StatsNext]_statVars => StatsInv' /\ (~Replaces => saved' >= saved)
<1> SUFFICES ASSUME StatsInv, [StatsNext]_statVars PROVE StatsInv' /\ (~Replaces => saved' >= saved)
  OBVIOUS
<1>0. saved \in Nat
  BY DEF StatsInv, StatsTyped
<1>1. CASE CountStat
  BY <1>0, <1>1, CountKeeps DEF CountStat
<1>2. ASSUME NEW i \in 1 .. Current, SaveInterval(i)
      PROVE  StatsInv' /\ (~Replaces => saved' >= saved)
  BY <1>2, SaveKeeps
<1>3. ASSUME NEW freq \in Frequencies, MakeResources(freq)
      PROVE  StatsInv' /\ (~Replaces => saved' >= saved)
  BY <1>0, <1>3, MakeKeeps DEF MakeResources
<1>4. ASSUME NEW freq \in Frequencies, NEW otherCache \in BOOLEAN, Configure(freq, otherCache)
      PROVE  StatsInv' /\ (~Replaces => saved' >= saved)
  BY <1>4, ConfigureKeeps
<1>5. CASE LoadEnds
  BY <1>0, <1>5, LoadKeeps DEF LoadEnds
<1>6. CASE DestroyStats
  BY <1>6, DestroyKeeps
<1>7. CASE CrashStats
  BY <1>0, <1>7, CrashKeeps DEF CrashStats
<1>8. CASE UNCHANGED statVars
  BY <1>0, <1>8 DEF statVars, StatsInv, StatsTyped, TimerWaits, Loading, SavesMore, Replaces, LoadedHasTimer,
                    Current, TimerRuns
<1> QED
  BY <1>1, <1>2, <1>3, <1>4, <1>5, <1>6, <1>7, <1>8 DEF StatsNext

\* What is counted is saved from time to time, and the saved total never sinks
\* unless a replaced instance has kept its timer: for any frequencies, any number
\* of instances and counts, and any reads that fail and crashes
\* (setHistoricalSaveInterval, saveHistoricalStats, initStats).
THEOREM TotalsCorrect == Spec => TotalsSaved
<1>1. Init => StatsInv
  BY StatsInvInit DEF Init
<1>2. StatsInv /\ [Next]_allVars => StatsInv' /\ [~Replaces => saved' >= saved]_statVars
  BY StatsInvNext, StepsOfParts
<1>3. StatsInv => TimerRuns
  BY DEF StatsInv
<1> QED
  BY <1>1, <1>2, <1>3, PTL DEF Spec, TotalsSaved, TotalsGrow

-----------------------------------------------------------------------------
(* Caches of subreddits *)

Caches == [options : Options, default : BOOLEAN, pruned : BOOLEAN, replaced : BOOLEAN, entries : SUBSET Subs]

CachesTyped ==
    /\ caches \in Seq(Caches) /\ Len(caches) # 0
    /\ resources \in [Subs -> [caching : Cachings, cache : 0 .. Len(caches), notes : 0 .. Len(caches)]]
    /\ \A s \in Subs : (resources[s].cache = 0) = (resources[s].notes = 0)
    /\ \A s \in Subs : resources[s].cache = 0 => resources[s] = NoResources

\* The first cache is the bot's, and no timer prunes it.
FirstIsTheBots ==
    /\ caches[1].default /\ ~caches[1].pruned
    /\ \A i \in 1 .. Len(caches) : caches[i].default => i = 1

Uses(s, i) == resources[s].cache = i \/ resources[s].notes = i

\* Every other cache is one subreddit's: no other uses it, or has put anything there.
OneOwnerEach ==
    \A i \in 2 .. Len(caches) : \E owner \in Subs :
        /\ caches[i].entries \subseteq {owner}
        /\ \A s \in Subs : Uses(s, i) => s = owner

\* The cache that a subreddit with the bot's provider has is one with its prefix.
OwnPrefix ==
    \A s \in Subs : resources[s].caching = "ttls" =>
        caches[resources[s].cache].options = CandidateProvider(s, "ttls")

CachesInv ==
    /\ CachesTyped /\ FirstIsTheBots /\ OneOwnerEach /\ OwnPrefix
    /\ PrunedWhileUsed /\ NoTimerLeft

\* A new cache is empty, and pruned if it is in memory and not the bot's.
LEMMA NewCache ==
    ASSUME NEW options \in Options, NEW default \in BOOLEAN
    PROVE  LET new == CMCache(options, default)
           IN /\ new \in Caches /\ new.options = options /\ new.default = default
              /\ new.pruned <=> options.store = "memory" /\ ~default
              /\ new.replaced = FALSE /\ new.entries = {}
<1>1. (options.store = "memory" /\ ~default) \in BOOLEAN
  OBVIOUS
<1> QED
  BY <1>1 DEF CMCache, Caches

LEMMA CachesInvInit == CachesInit => CachesInv
<1> SUFFICES ASSUME CachesInit PROVE CachesInv
  OBVIOUS
<1>1. PICK bot \in {"memory", "redis"} : caches = <<CMCache([store |-> bot, prefix |-> "SHARED"], TRUE)>>
  BY BotStoresAssumption DEF CachesInit
<1>2. resources = [s \in Subs |-> NoResources]
  BY DEF CachesInit
<1> DEFINE first == CMCache([store |-> bot, prefix |-> "SHARED"], TRUE)
<1>3. [store |-> bot, prefix |-> "SHARED"] \in Options
  BY DEF Options
<1>4. first \in Caches /\ first.default /\ ~first.pruned /\ first.entries = {}
  BY <1>3, NewCache
<1> HIDE DEF first
<1>5. caches = <<first>> /\ Len(caches) = 1 /\ caches[1] = first /\ caches \in Seq(Caches)
  <2>1. caches = <<first>>
    BY <1>1 DEF first
  <2> QED
    BY <1>4, <2>1
<1>6. \A s \in Subs : resources[s] = NoResources
  BY <1>2
<1>7. CachesTyped
  BY <1>2, <1>5 DEF CachesTyped, NoResources, Cachings
<1>8. FirstIsTheBots /\ OneOwnerEach /\ NoTimerLeft
  BY <1>4, <1>5 DEF FirstIsTheBots, OneOwnerEach, NoTimerLeft
<1>9. OwnPrefix /\ PrunedWhileUsed
  BY <1>6 DEF OwnPrefix, PrunedWhileUsed, NoResources
<1> QED
  BY <1>7, <1>8, <1>9 DEF CachesInv

-----------------------------------------------------------------------------

\* A subreddit that has the bot's provider to itself has a place of its own.
LEMMA ApartByPrefix == ASSUME CachesInv PROVE OwnApart
<1> SUFFICES ASSUME NEW s \in Subs, NEW t \in Subs, s # t,
                    resources[s].caching = "ttls", resources[t].caching = "ttls"
             PROVE  Place(resources[s].cache) # Place(resources[t].cache)
  BY DEF OwnApart
<1> DEFINE i == resources[s].cache
           j == resources[t].cache
<1>1. /\ caches[i].options = [store |-> BotStore, prefix |-> s]
      /\ caches[j].options = [store |-> BotStore, prefix |-> t]
  BY DEF CachesInv, OwnPrefix, CandidateProvider
<1>2. /\ caches[i].options.store = BotStore /\ caches[i].options.prefix = s
      /\ caches[j].options.store = BotStore /\ caches[j].options.prefix = t
  BY <1>1
<1> HIDE DEF i, j
<1>3. i # j
  BY <1>2
<1>4. Place(i) # Place(j)
  BY <1>2, <1>3 DEF Place
<1> QED
  BY <1>4 DEF i, j

\* What is known of the caches in general.
LEMMA CachesKnown ==
    ASSUME CachesInv
    PROVE  /\ caches \in Seq(Caches) /\ Len(caches) \in Nat \ {0}
           /\ \A i \in 1 .. Len(caches) : caches[i] \in Caches
           /\ \A s \in Subs : /\ resources[s].cache \in 0 .. Len(caches)
                              /\ resources[s].notes \in 0 .. Len(caches)
                              /\ resources[s].caching \in Cachings
<1>1. caches \in Seq(Caches) /\ Len(caches) # 0
  BY DEF CachesInv, CachesTyped
<1>2. Len(caches) \in Nat
  BY <1>1
<1>3. \A i \in 1 .. Len(caches) : caches[i] \in Caches
  BY <1>1
<1>4. \A s \in Subs : resources[s] \in [caching : Cachings, cache : 0 .. Len(caches), notes : 0 .. Len(caches)]
  BY DEF CachesInv, CachesTyped
<1> QED
  BY <1>1, <1>2, <1>3, <1>4

\* s puts something into a cache that it uses.
LEMMA PutKeeps ==
    ASSUME CachesInv, NEW s \in Subs, Put(s)
    PROVE  /\ CachesInv' /\ Len(caches') = Len(caches)
           /\ \A k \in 1 .. Len(caches) : caches[k].entries \subseteq caches'[k].entries
<1>1. PICK i \in {resources[s].cache, resources[s].notes} :
        caches' = [caches EXCEPT ![i].entries = @ \cup {s}]
  BY DEF Put
<1>2. UNCHANGED resources /\ Uses(s, i)
  BY DEF Put, Uses
<1>3. i \in 1 .. Len(caches)
  <2>1. resources[s].cache # 0 /\ resources[s].notes # 0
    BY DEF Put, Has, CachesInv, CachesTyped
  <2> QED
    BY <2>1, CachesKnown
<1> DEFINE c == caches[i]
           new == [c EXCEPT !.entries = @ \cup {s}]
<1>4. c \in Caches /\ Len(caches) \in Nat \ {0} /\ caches \in Seq(Caches)
  BY <1>3, CachesKnown
<1> HIDE DEF c
<1>5. /\ new \in Caches
      /\ new.options = c.options /\ new.default = c.default /\ new.pruned = c.pruned /\ new.replaced = c.replaced
      /\ new.entries = c.entries \cup {s}
  BY <1>4 DEF Caches
<1> HIDE DEF new
<1>7. caches' = [caches EXCEPT ![i] = new]
  BY <1>1 DEF new, c
<1>6. /\ caches' \in Seq(Caches) /\ Len(caches') = Len(caches)
      /\ caches'[i] = new /\ \A k \in 1 .. Len(caches) : k # i => caches'[k] = caches[k]
  BY <1>3, <1>4, <1>5, <1>7
<1>8. \A k \in 1 .. Len(caches) :
         /\ caches'[k].options = caches[k].options /\ caches'[k].default = caches[k].default
         /\ caches'[k].pruned = caches[k].pruned /\ caches'[k].replaced = caches[k].replaced
         /\ caches[k].entries \subseteq caches'[k].entries
         /\ caches'[k].entries \subseteq caches[k].entries \cup {s}
         /\ caches'[k].entries # caches[k].entries => k = i
  BY <1>5, <1>6 DEF c
<1>9. CachesTyped' /\ FirstIsTheBots'
  <2>1. CachesTyped'
    BY <1>2, <1>4, <1>6 DEF CachesInv, CachesTyped
  <2>2. 1 \in 1 .. Len(caches)
    BY <1>4
  <2>3. FirstIsTheBots'
    BY <1>6, <1>8, <2>2 DEF CachesInv, FirstIsTheBots
  <2> QED
    BY <2>1, <2>3
<1>10. OneOwnerEach'
  <2>1. ASSUME NEW k \in 2 .. Len(caches)
        PROVE  \E owner \in Subs : caches'[k].entries \subseteq {owner} /\ \A t \in Subs : Uses(t, k) => t = owner
    <3>1. PICK owner \in Subs : caches[k].entries \subseteq {owner} /\ \A t \in Subs : Uses(t, k) => t = owner
      BY DEF CachesInv, OneOwnerEach
    <3>2. k \in 1 .. Len(caches)
      OBVIOUS
    <3>3. caches'[k].entries \subseteq {owner}
      BY <1>2, <1>8, <3>1, <3>2
    <3> QED
      BY <3>1, <3>3
  <2> QED
    BY <1>2, <1>6, <2>1 DEF OneOwnerEach, Uses
<1>11. OwnPrefix'
  <2>1. ASSUME NEW t \in Subs, resources[t].caching = "ttls"
        PROVE  caches'[resources[t].cache].options = [store |-> caches'[1].options.store, prefix |-> t]
    <3>1. caches[resources[t].cache].options = [store |-> caches[1].options.store, prefix |-> t]
      BY <2>1 DEF CachesInv, OwnPrefix, CandidateProvider, BotStore
    <3>2. resources[t].cache \in 1 .. Len(caches)
      BY <2>1, CachesKnown DEF CachesInv, CachesTyped, NoResources
    <3> QED
      BY <1>4, <1>8, <3>1, <3>2
  <2> QED
    BY <1>2, <2>1 DEF OwnPrefix, CandidateProvider, BotStore
<1>12. PrunedWhileUsed'
  <2>1. \A t \in Subs : \A k \in {resources[t].cache, resources[t].notes} \ {0} : k \in 1 .. Len(caches)
    BY CachesKnown
  <2> QED
    BY <1>2, <1>8, <2>1 DEF CachesInv, PrunedWhileUsed
<1>13. NoTimerLeft'
  BY <1>2, <1>6, <1>8 DEF CachesInv, NoTimerLeft
<1> QED
  BY <1>6, <1>8, <1>9, <1>10, <1>11, <1>12, <1>13 DEF CachesInv

\* What is destroyed with the resources of s is used by nobody else.
LEMMA DestroyResourcesKeeps ==
    ASSUME CachesInv, NEW s \in Subs, DestroyResources(s)
    PROVE  /\ CachesInv' /\ Len(caches') = Len(caches)
           /\ \A k \in 1 .. Len(caches), t \in Subs :
                 t # s /\ t \in caches[k].entries => t \in caches'[k].entries
<1> DEFINE i == resources[s].cache
           c == caches[i]
           new == Destroyed(c)
<1>1. /\ caches' = [caches EXCEPT ![i] = new]
      /\ resources' = [resources EXCEPT ![s] = NoResources]
  BY DEF DestroyResources, Removed
<1>2. i \in 1 .. Len(caches) /\ Len(caches) \in Nat \ {0} /\ caches \in Seq(Caches)
  <2>1. i # 0
    BY DEF DestroyResources, Has
  <2> QED
    BY <2>1, CachesKnown
<1>3. c \in Caches
  BY <1>2
<1> HIDE DEF c
<1>4. /\ new \in Caches /\ new.options = c.options /\ new.default = c.default /\ new.replaced = c.replaced
      /\ new.pruned = FALSE
      /\ new.entries \subseteq c.entries
      /\ ~c.pruned => new.entries = c.entries
  BY <1>3 DEF Destroyed, Caches
<1> HIDE DEF new
<1>5. /\ caches' \in Seq(Caches) /\ Len(caches') = Len(caches)
      /\ caches'[i] = new /\ \A k \in 1 .. Len(caches) : k # i => caches'[k] = caches[k]
  BY <1>1, <1>2, <1>4
<1>6. \A k \in 1 .. Len(caches) :
         /\ caches'[k].options = caches[k].options /\ caches'[k].default = caches[k].default
         /\ caches'[k].replaced = caches[k].replaced
         /\ caches'[k].entries \subseteq caches[k].entries
         /\ caches'[k].pruned => caches[k].pruned
         /\ caches'[k].pruned => k # i
         /\ ~caches[k].pruned => caches'[k].entries = caches[k].entries
         /\ k # i => caches'[k] = caches[k]
  <2>1. ASSUME NEW k \in 1 .. Len(caches), k = i
        PROVE  /\ caches'[k].options = caches[k].options /\ caches'[k].default = caches[k].default
               /\ caches'[k].replaced = caches[k].replaced
               /\ caches'[k].entries \subseteq caches[k].entries
               /\ ~caches'[k].pruned
               /\ ~caches[k].pruned => caches'[k].entries = caches[k].entries
    BY <1>4, <1>5, <2>1 DEF c
  <2> HIDE DEF i
  <2> QED
    BY <1>5, <2>1
<1>7. resources'[s] = NoResources /\ \A t \in Subs : t # s => resources'[t] = resources[t]
  BY <1>1 DEF CachesInv, CachesTyped
<1>8. NoResources.cache = 0 /\ NoResources.notes = 0 /\ NoResources.caching = "nothing"
  BY DEF NoResources
<1>9. 1 \in 1 .. Len(caches)
  BY <1>2
<1> HIDE DEF i
<1>10. CachesTyped'
  <2>1. NoResources \in [caching : Cachings, cache : 0 .. Len(caches), notes : 0 .. Len(caches)]
    BY <1>2 DEF NoResources, Cachings
  <2>2. resources' \in [Subs -> [caching : Cachings, cache : 0 .. Len(caches), notes : 0 .. Len(caches)]]
    BY <1>1, <2>1 DEF CachesInv, CachesTyped
  <2>3. \A t \in Subs : /\ (resources'[t].cache = 0) = (resources'[t].notes = 0)
                        /\ resources'[t].cache = 0 => resources'[t] = NoResources
    BY <1>7, <1>8 DEF CachesInv, CachesTyped
  <2> QED
    BY <1>2, <1>5, <2>2, <2>3 DEF CachesTyped
<1>11. FirstIsTheBots'
  <2>1. caches'[1].default /\ ~caches'[1].pruned
    BY <1>6, <1>9 DEF CachesInv, FirstIsTheBots
  <2> QED
    BY <1>5, <1>6, <2>1 DEF CachesInv, FirstIsTheBots
<1>12. \A t \in Subs, k \in 1 .. Len(caches) : Uses(t, k)' => t # s /\ Uses(t, k)
  BY <1>7, <1>8 DEF Uses
<1>13. ASSUME NEW k \in 2 .. Len(caches)
       PROVE  \E owner \in Subs : /\ caches'[k].entries \subseteq {owner}
                                  /\ \A t \in Subs : Uses(t, k)' => t = owner
  <2>1. PICK owner \in Subs : caches[k].entries \subseteq {owner} /\ \A t \in Subs : Uses(t, k) => t = owner
    BY DEF CachesInv, OneOwnerEach
  <2>2. k \in 1 .. Len(caches)
    OBVIOUS
  <2> QED
    BY <1>6, <1>12, <2>1, <2>2
<1>14. OneOwnerEach'
  BY <1>5, <1>13 DEF OneOwnerEach
<1>15. OwnPrefix'
  <2>1. ASSUME NEW t \in Subs, resources'[t].caching = "ttls"
        PROVE  caches'[resources'[t].cache].options = [store |-> caches'[1].options.store, prefix |-> t]
    <3>1. resources'[t] = resources[t]
      BY <1>7, <1>8, <2>1
    <3>2. caches[resources[t].cache].options = [store |-> caches[1].options.store, prefix |-> t]
      BY <2>1, <3>1 DEF CachesInv, OwnPrefix, CandidateProvider, BotStore
    <3>3. resources[t].cache \in 1 .. Len(caches)
      BY <2>1, <3>1, CachesKnown DEF CachesInv, CachesTyped, NoResources
    <3> QED
      BY <1>6, <1>9, <3>1, <3>2, <3>3
  <2> QED
    BY <2>1 DEF OwnPrefix, CandidateProvider, BotStore
<1>16. PrunedWhileUsed'
  <2>1. ASSUME NEW t \in Subs, NEW k \in {resources'[t].cache, resources'[t].notes} \ {0},
               caches'[k].options.store = "memory"
        PROVE  caches'[k].default \/ caches'[k].pruned
    <3>1. t # s /\ resources'[t] = resources[t]
      BY <1>7, <1>8
    <3>2. k \in 1 .. Len(caches) /\ k \in {resources[t].cache, resources[t].notes} \ {0}
      BY <3>1, CachesKnown
    <3>3. caches[k].default \/ caches[k].pruned
      BY <1>6, <2>1, <3>2 DEF CachesInv, PrunedWhileUsed
    <3>4. CASE k = i
      <4>1. Uses(s, k) /\ Uses(t, k)
        BY <3>2, <3>4 DEF Uses, i
      <4>2. k = 1
        BY <1>2, <3>1, <3>2, <4>1 DEF CachesInv, OneOwnerEach
      <4> QED
        BY <1>11, <4>2 DEF FirstIsTheBots
    <3>5. CASE k # i
      BY <1>6, <3>2, <3>3, <3>5
    <3> QED
      BY <3>4, <3>5
  <2> QED
    BY <2>1 DEF PrunedWhileUsed
<1>17. NoTimerLeft'
  <2>1. ASSUME NEW k \in 1 .. Len(caches), caches'[k].pruned
        PROVE  caches'[k].replaced \/ \E t \in Subs : resources'[t].cache = k
    <3>1. k # i /\ caches[k].pruned
      BY <1>6, <2>1
    <3>2. caches[k].replaced \/ \E t \in Subs : resources[t].cache = k
      BY <3>1 DEF CachesInv, NoTimerLeft
    <3> QED
      BY <1>6, <1>7, <3>1, <3>2 DEF i
  <2> QED
    BY <1>5, <2>1 DEF NoTimerLeft
<1>18. ASSUME NEW k \in 1 .. Len(caches), NEW t \in Subs, t # s, t \in caches[k].entries
       PROVE  t \in caches'[k].entries
  <2>1. CASE k # i
    BY <1>6, <1>18, <2>1
  <2>2. CASE k = i
    <3>1. Uses(s, k)
      BY <2>2 DEF Uses, i
    <3>2. k = 1
      BY <1>2, <1>18, <3>1 DEF CachesInv, OneOwnerEach
    <3> QED
      BY <1>6, <1>18, <3>2 DEF CachesInv, FirstIsTheBots
  <2> QED
    BY <2>1, <2>2
<1> QED
  BY <1>5, <1>10, <1>11, <1>14, <1>15, <1>16, <1>17, <1>18 DEF CachesInv

-----------------------------------------------------------------------------

\* The caches before and after s gets a cache: nothing of those there were changes,
\* but that the one s had may be marked as replaced.
OnlyMarks(s, chosen) ==
    \A k \in 1 .. Len(caches) :
        /\ caches'[k].options = caches[k].options /\ caches'[k].default = caches[k].default
        /\ caches'[k].pruned = caches[k].pruned /\ caches'[k].entries = caches[k].entries
        /\ caches[k].replaced => caches'[k].replaced
        /\ k = resources[s].cache /\ k # chosen /\ ~caches[k].default => caches'[k].replaced

\* The cache that was chosen: the bot's, if nothing is asked for or what is asked
\* for equals it; the one s has, if that equals it; or a new one.
LEMMA ChosenIs ==
    ASSUME CachesInv, NEW s \in Subs, NEW caching \in Cachings
    PROVE  LET chosen == Chosen(s, caching)
               candidate == CandidateProvider(s, caching)
           IN /\ chosen \in 1 .. Len(caches) + 1
              /\ chosen \in {1, resources[s].cache, Len(caches) + 1}
              /\ chosen # Len(caches) + 1 /\ caching # "nothing" => caches[chosen].options = candidate
              /\ chosen = Len(caches) + 1 => candidate \in Options /\ caching # "nothing"
<1>1. Len(caches) \in Nat \ {0} /\ resources[s].cache \in 0 .. Len(caches) /\ caches[1] \in Caches
  BY CachesKnown
<1>2. caching # "nothing" => CandidateProvider(s, caching) \in Options
  <2>1. caches[1].options.store \in {"memory", "redis"}
    BY <1>1 DEF Caches, Options
  <2> QED
    BY <2>1 DEF CandidateProvider, Options, Cachings, BotStore
<1> QED
  BY <1>1, <1>2 DEF Chosen, EqualProvider, Has

\* What set does to the caches.
LEMMA SetChanges ==
    ASSUME CachesInv, NEW s \in Subs, NEW caching \in Cachings, SetResources(s, caching)
    PROVE  LET chosen == Chosen(s, caching)
               n == Len(caches)
           IN /\ caches' \in Seq(Caches) /\ OnlyMarks(s, chosen)
              /\ chosen <= n => Len(caches') = n
              /\ chosen = n + 1 =>
                    /\ Len(caches') = n + 1
                    /\ caches'[n + 1].options = CandidateProvider(s, caching)
                    /\ ~caches'[n + 1].default /\ caches'[n + 1].entries = {}
                    /\ caches'[n + 1].options.store = "memory" => caches'[n + 1].pruned
<1> DEFINE chosen == Chosen(s, caching)
           n == Len(caches)
           old == resources[s].cache
           new == CMCache(CandidateProvider(s, caching), FALSE)
           known == IF chosen > n THEN Append(caches, new) ELSE caches
<1>1. caches' = IF Has(s) /\ chosen # old THEN Replaced(known, old) ELSE known
  BY DEF SetResources
<1>2. /\ chosen \in 1 .. n + 1 /\ n \in Nat \ {0} /\ caches \in Seq(Caches) /\ old \in 0 .. n
      /\ chosen = n + 1 => CandidateProvider(s, caching) \in Options
  BY ChosenIs, CachesKnown
<1>3. chosen = n + 1 => /\ new \in Caches /\ new.options = CandidateProvider(s, caching)
                        /\ ~new.default /\ new.entries = {}
                        /\ new.options.store = "memory" => new.pruned
  BY <1>2, NewCache
<1> HIDE DEF new, chosen
<1>4. /\ known \in Seq(Caches) /\ \A k \in 1 .. n : known[k] = caches[k] /\ caches[k] \in Caches
      /\ chosen <= n => Len(known) = n
      /\ chosen = n + 1 => Len(known) = n + 1 /\ known[n + 1] = new
  <2>1. CASE chosen <= n
    BY <1>2, <2>1
  <2>2. CASE chosen = n + 1
    BY <1>2, <1>3, <2>2
  <2> QED
    BY <1>2, <2>1, <2>2
<1> HIDE DEF known
<1>5. CASE ~(Has(s) /\ chosen # old)
  <2>1. caches' = known
    BY <1>1, <1>5
  <2>2. \A k \in 1 .. n : k = old => k = chosen
    BY <1>5 DEF Has, old
  <2>3. OnlyMarks(s, chosen)
    BY <1>4, <2>1, <2>2 DEF OnlyMarks, n, old
  <2> QED
    BY <1>3, <1>4, <2>1, <2>3 DEF chosen, n
<1>6. CASE Has(s) /\ chosen # old
  <2> DEFINE c == known[old]
             marked == [c EXCEPT !.replaced = TRUE]
  <2>1. old \in 1 .. n
    BY <1>2, <1>6 DEF Has, old
  <2>2. c \in Caches /\ c = caches[old]
    BY <1>4, <2>1
  <2>3. caches' = [known EXCEPT ![old] = IF c.default THEN c ELSE marked]
    BY <1>1, <1>6 DEF Replaced
  <2> HIDE DEF c
  <2>4. /\ marked \in Caches /\ marked.options = c.options /\ marked.default = c.default
        /\ marked.pruned = c.pruned /\ marked.entries = c.entries /\ marked.replaced = TRUE
    BY <2>2 DEF Caches
  <2> DEFINE now == IF c.default THEN c ELSE marked
  <2> HIDE DEF marked
  <2>5. /\ now \in Caches /\ now.options = c.options /\ now.default = c.default
        /\ now.pruned = c.pruned /\ now.entries = c.entries
        /\ c.replaced => now.replaced
        /\ ~c.default => now.replaced
    BY <2>2, <2>4
  <2>6. caches' = [known EXCEPT ![old] = now]
    BY <2>3
  <2> HIDE DEF now, old
  <2>7. /\ caches' \in Seq(Caches) /\ Len(caches') = Len(known) /\ caches'[old] = now
        /\ \A k \in 1 .. n : k # old => caches'[k] = caches[k]
        /\ chosen = n + 1 => caches'[n + 1] = new
    <3>1. old \in 1 .. Len(known)
      BY <1>2, <1>4, <2>1 
    <3> QED
      BY <1>2, <1>4, <2>1, <2>5, <2>6, <3>1
  <2>8. OnlyMarks(s, chosen)
    BY <2>2, <2>5, <2>7 DEF OnlyMarks, n, old
  <2> QED
    BY <1>3, <1>4, <2>7, <2>8 DEF chosen, n
<1> QED
  BY <1>5, <1>6

\* What set does to who uses what.
LEMMA SetUses ==
    ASSUME CachesInv, NEW s \in Subs, NEW caching \in Cachings, SetResources(s, caching)
    PROVE  LET chosen == Chosen(s, caching)
           IN /\ resources'[s].cache = chosen /\ resources'[s].caching = caching
              /\ resources'[s].notes = (IF Has(s) THEN resources[s].notes ELSE chosen)
              /\ \A t \in Subs : t # s => resources'[t] = resources[t]
              /\ DOMAIN resources' = Subs
              /\ resources'[s] \in [caching : {caching}, cache : {chosen}, notes : {resources[s].notes, chosen}]
  BY DEF SetResources, CachesInv, CachesTyped

LEMMA SetKeeps ==
    ASSUME CachesInv, NEW s \in Subs, NEW caching \in Cachings, SetResources(s, caching)
    PROVE  /\ CachesInv' /\ Len(caches) \in Nat /\ Len(caches) <= Len(caches')
           /\ \A k \in 1 .. Len(caches) : caches'[k].entries = caches[k].entries
<1> DEFINE chosen == Chosen(s, caching)
           n == Len(caches)
<1>1. /\ chosen \in 1 .. n + 1 /\ chosen \in {1, resources[s].cache, n + 1}
      /\ chosen # n + 1 /\ caching # "nothing" => caches[chosen].options = CandidateProvider(s, caching)
  BY ChosenIs
<1>2. /\ caches' \in Seq(Caches) /\ OnlyMarks(s, chosen)
      /\ chosen <= n => Len(caches') = n
      /\ chosen = n + 1 => /\ Len(caches') = n + 1
                           /\ caches'[n + 1].options = CandidateProvider(s, caching)
                           /\ ~caches'[n + 1].default /\ caches'[n + 1].entries = {}
                           /\ caches'[n + 1].options.store = "memory" => caches'[n + 1].pruned
  BY SetChanges
<1>3. /\ resources'[s].cache = chosen /\ resources'[s].caching = caching
      /\ resources'[s].notes = (IF Has(s) THEN resources[s].notes ELSE chosen)
      /\ \A t \in Subs : t # s => resources'[t] = resources[t]
      /\ DOMAIN resources' = Subs
      /\ resources'[s] \in [caching : {caching}, cache : {chosen}, notes : {resources[s].notes, chosen}]
  BY SetUses
<1>4. /\ n \in Nat \ {0} /\ \A t \in Subs : /\ resources[t].cache \in 0 .. n /\ resources[t].notes \in 0 .. n
                                            /\ resources[t].caching \in Cachings
  BY CachesKnown
<1>5. \A t \in Subs : /\ (resources[t].cache = 0) = (resources[t].notes = 0)
                      /\ resources[t].cache = 0 => resources[t] = NoResources
  BY DEF CachesInv, CachesTyped
<1>6. \A k \in 1 .. n : /\ caches'[k].options = caches[k].options /\ caches'[k].default = caches[k].default
                        /\ caches'[k].pruned = caches[k].pruned /\ caches'[k].entries = caches[k].entries
                        /\ caches[k].replaced => caches'[k].replaced
                        /\ k = resources[s].cache /\ k # chosen /\ ~caches[k].default => caches'[k].replaced
  BY <1>2 DEF OnlyMarks
<1> HIDE DEF chosen, n
<1>7. Len(caches') \in {n, n + 1} /\ n <= Len(caches') /\ (Len(caches') = n + 1 => chosen = n + 1) /\ chosen <= Len(caches')
  BY <1>1, <1>2, <1>4
<1>8. Has(s) <=> resources[s].cache # 0
  BY DEF Has
<1>9. CachesTyped'
  <2>1. resources[s] \in [caching : Cachings, cache : 0 .. n, notes : 0 .. n]
    BY DEF CachesInv, CachesTyped, n
  <2>2. resources' \in [Subs -> [caching : Cachings, cache : 0 .. Len(caches'), notes : 0 .. Len(caches')]]
    <3>1. 0 .. n \subseteq 0 .. Len(caches') /\ chosen \in 0 .. Len(caches')
      BY <1>1, <1>4, <1>7
    <3>2. resources'[s] \in [caching : Cachings, cache : 0 .. Len(caches'), notes : 0 .. Len(caches')]
      BY <1>3, <1>4, <3>1
    <3>3. ASSUME NEW t \in Subs, t # s
          PROVE  resources'[t] \in [caching : Cachings, cache : 0 .. Len(caches'), notes : 0 .. Len(caches')]
      <4>1. resources[t] \in [caching : Cachings, cache : 0 .. n, notes : 0 .. n]
        BY DEF CachesInv, CachesTyped, n
      <4> QED
        BY <1>3, <3>1, <3>3, <4>1
    <3>4. resources' = [t \in Subs |-> resources'[t]]
      BY DEF SetResources, CachesInv, CachesTyped
    <3> QED
      BY <3>2, <3>3, <3>4
  <2>3. \A t \in Subs : /\ (resources'[t].cache = 0) = (resources'[t].notes = 0)
                        /\ resources'[t].cache = 0 => resources'[t] = NoResources
    BY <1>1, <1>3, <1>4, <1>5, <1>8
  <2>4. Len(caches') # 0
    BY <1>4, <1>7
  <2> QED
    BY <1>2, <2>2, <2>3, <2>4 DEF CachesTyped
<1>10. FirstIsTheBots'
  <2>1. caches'[1].default /\ ~caches'[1].pruned
    BY <1>4, <1>6 DEF CachesInv, FirstIsTheBots
  <2>2. \A k \in 1 .. Len(caches') : caches'[k].default => k = 1
    BY <1>2, <1>4, <1>6, <1>7 DEF CachesInv, FirstIsTheBots, n
  <2> QED
    BY <2>1, <2>2 DEF FirstIsTheBots
<1>11. \A t \in Subs, k \in 2 .. n : Uses(t, k)' => Uses(t, k)
  BY <1>1, <1>3, <1>4, <1>8 DEF Uses
<1>12. OneOwnerEach'
  <2>1. ASSUME NEW k \in 2 .. n
        PROVE  \E owner \in Subs : /\ caches'[k].entries \subseteq {owner}
                                   /\ \A t \in Subs : Uses(t, k)' => t = owner
    <3>1. PICK owner \in Subs : caches[k].entries \subseteq {owner} /\ \A t \in Subs : Uses(t, k) => t = owner
      BY DEF CachesInv, OneOwnerEach, n
    <3>2. k \in 1 .. n
      BY <1>4
    <3> QED
      BY <1>6, <1>11, <3>1, <3>2
  <2>2. ASSUME NEW k, k = n + 1, chosen = n + 1
        PROVE  \E owner \in Subs : /\ caches'[k].entries \subseteq {owner}
                                   /\ \A t \in Subs : Uses(t, k)' => t = owner
    <3>1. caches'[k].entries \subseteq {s}
      BY <1>2, <2>2
    <3>2. \A t \in Subs : t # s => resources[t].cache # k /\ resources[t].notes # k
      BY <1>4, <2>2
    <3>3. \A t \in Subs : Uses(t, k)' => t = s
      BY <1>3, <3>2 DEF Uses
    <3> QED
      BY <3>1, <3>3
  <2>3. \A k \in 2 .. Len(caches') : k \in 2 .. n \/ (k = n + 1 /\ chosen = n + 1)
    BY <1>4, <1>7
  <2>4. ASSUME NEW k \in 2 .. Len(caches')
        PROVE  \E owner \in Subs : /\ caches'[k].entries \subseteq {owner}
                                   /\ \A t \in Subs : Uses(t, k)' => t = owner
    <3>1. CASE k \in 2 .. n
      BY <2>1, <3>1
    <3>2. CASE k = n + 1 /\ chosen = n + 1
      BY <2>2, <3>2
    <3> QED
      BY <2>3, <3>1, <3>2
  <2> QED
    BY <2>4 DEF OneOwnerEach
<1>13. BotStore' = BotStore
  BY <1>4, <1>6 DEF BotStore
<1>14. OwnPrefix'
  <2>1. ASSUME NEW t \in Subs, t # s, resources[t].caching = "ttls"
        PROVE  caches'[resources[t].cache].options = CandidateProvider(t, "ttls")
    <3>1. caches[resources[t].cache].options = CandidateProvider(t, "ttls")
      BY <2>1 DEF CachesInv, OwnPrefix
    <3>2. resources[t].cache \in 1 .. n
      BY <1>4, <1>5, <2>1 DEF NoResources
    <3> QED
      BY <1>6, <3>1, <3>2
  <2>2. ASSUME caching = "ttls" PROVE caches'[chosen].options = CandidateProvider(s, "ttls")
    BY <1>1, <1>2, <1>4, <1>6, <2>2
  <2>3. \A t \in Subs : CandidateProvider(t, "ttls")' = CandidateProvider(t, "ttls")
    BY <1>13 DEF CandidateProvider
  <2> QED
    BY <1>3, <2>1, <2>2, <2>3 DEF OwnPrefix
<1>15. PrunedWhileUsed'
  <2>1. ASSUME NEW t \in Subs, NEW k \in 1 .. n, k \in {resources[t].cache, resources[t].notes},
               caches'[k].options.store = "memory"
        PROVE  caches'[k].default \/ caches'[k].pruned
    BY <1>6, <2>1 DEF CachesInv, PrunedWhileUsed
  <2>2. ASSUME caches'[chosen].options.store = "memory" PROVE caches'[chosen].default \/ caches'[chosen].pruned
    <3>1. CASE chosen = n + 1
      BY <1>2, <2>2, <3>1
    <3>2. CASE chosen = 1
      BY <1>10, <3>2 DEF FirstIsTheBots
    <3>3. CASE chosen = resources[s].cache /\ chosen # n + 1
      BY <1>1, <1>4, <2>1, <2>2, <3>3
    <3> QED
      BY <1>1, <3>1, <3>2, <3>3
  <2>3. ASSUME NEW t \in Subs, NEW k \in {resources'[t].cache, resources'[t].notes} \ {0}
        PROVE  (k \in 1 .. n /\ k \in {resources[t].cache, resources[t].notes}) \/ k = chosen
    BY <1>3, <1>4, <2>3
  <2> QED
    BY <2>1, <2>2, <2>3 DEF PrunedWhileUsed
<1>16. NoTimerLeft'
  <2>1. ASSUME NEW k \in 1 .. n, caches'[k].pruned
        PROVE  caches'[k].replaced \/ \E t \in Subs : resources'[t].cache = k
    <3>1. caches[k].replaced \/ \E t \in Subs : resources[t].cache = k
      BY <1>6, <2>1 DEF CachesInv, NoTimerLeft, n
    <3>2. ~caches[k].default
      BY <1>6, <2>1 DEF CachesInv, FirstIsTheBots, n
    <3> QED
      BY <1>3, <1>6, <3>1, <3>2
  <2>2. \A k \in 1 .. Len(caches') : k \in 1 .. n \/ k = chosen
    BY <1>4, <1>7
  <2> QED
    BY <1>3, <2>1, <2>2 DEF NoTimerLeft
<1> QED
  BY <1>4, <1>6, <1>7, <1>9, <1>10, <1>12, <1>14, <1>15, <1>16 DEF CachesInv, n

-----------------------------------------------------------------------------

\* Every step keeps the invariant and what others than its subreddit have cached.
LEMMA CachesInvNext == CachesInv /\ [CachesNext]_cacheVars => CachesInv'
<1> SUFFICES ASSUME CachesInv, [CachesNext]_cacheVars PROVE CachesInv'
  OBVIOUS
<1>1. ASSUME NEW s \in Subs, NEW caching \in Cachings, SetResources(s, caching) PROVE CachesInv'
  BY <1>1, SetKeeps
<1>2. ASSUME NEW s \in Subs, Put(s) PROVE CachesInv'
  BY <1>2, PutKeeps
<1>3. ASSUME NEW s \in Subs, DestroyResources(s) PROVE CachesInv'
  BY <1>3, DestroyResourcesKeeps
<1>4. CASE UNCHANGED cacheVars
  <2>1. caches' = caches /\ resources' = resources
    BY <1>4 DEF cacheVars
  <2> QED
    BY <2>1 DEF CachesInv, CachesTyped, FirstIsTheBots, OneOwnerEach, Uses, OwnPrefix, CandidateProvider,
                BotStore, PrunedWhileUsed, NoTimerLeft
<1> QED
  BY <1>1, <1>2, <1>3, <1>4 DEF CachesNext

OthersKeep ==
    \A s \in Subs : resources'[s] = resources[s] =>
       \A i \in 1 .. Len(caches) : s \in caches[i].entries => s \in caches'[i].entries

LEMMA OthersKeepNext == CachesInv /\ [CachesNext]_cacheVars => [OthersKeep]_cacheVars
<1> SUFFICES ASSUME CachesInv, CachesNext PROVE OthersKeep
  BY DEF cacheVars
<1>1. ASSUME NEW s \in Subs, NEW caching \in Cachings, SetResources(s, caching) PROVE OthersKeep
  BY <1>1, SetKeeps DEF OthersKeep
<1>2. ASSUME NEW s \in Subs, Put(s) PROVE OthersKeep
  BY <1>2, PutKeeps DEF OthersKeep
<1>3. ASSUME NEW s \in Subs, DestroyResources(s) PROVE OthersKeep
  <2>1. resources'[s].cache = 0 /\ resources[s].cache # 0
    BY <1>3 DEF DestroyResources, Removed, Has, CachesInv, CachesTyped, NoResources
  <2> QED
    BY <1>3, <2>1, DestroyResourcesKeeps DEF OthersKeep
<1> QED
  BY <1>1, <1>2, <1>3 DEF CachesNext

\* Each subreddit has the cache it asked for; what it keeps there stays, whatever
\* happens to others, is seen by no other that has the bot's provider to itself,
\* and is pruned for as long as it is in use; and no timer is left behind: for any
\* subreddits and any number of caches (set, setPruneInterval, destroy).
THEOREM StoresCorrect == Spec => StoresKept
<1>1. Init => CachesInv
  BY CachesInvInit DEF Init
<1>2. CachesInv /\ [Next]_allVars => CachesInv' /\ [OthersKeep]_cacheVars
  BY CachesInvNext, OthersKeepNext, StepsOfParts
<1>3. CachesInv => PrunedWhileUsed /\ OwnApart /\ NoTimerLeft
  BY ApartByPrefix DEF CachesInv
<1>4. Spec => [](PrunedWhileUsed /\ OwnApart /\ NoTimerLeft)
  BY <1>1, <1>2, <1>3, PTL DEF Spec
<1>5. Spec => [][OthersKeep]_cacheVars
  BY <1>1, <1>2, PTL DEF Spec
<1> QED
  BY <1>4, <1>5 DEF StoresKept, OthersKept, OthersKeep

-----------------------------------------------------------------------------
(* The web client and the bots that are added through it *)

FirstOf(positions) == IF positions # {} THEN Min(positions) ELSE 0

\* A nonempty set of naturals has a least element.
LEMMA LeastNat ==
    ASSUME NEW I \in SUBSET Nat, I # {}
    PROVE  \E i \in I : \A j \in I : i <= j
<1> DEFINE R == {p \in Nat \X Nat : p[1] < p[2]}
<1>1. OpToRel(<, Nat) = R
  BY DEF OpToRel
<1>2. IsWellFoundedOn(R, Nat)
  BY <1>1, NatLessThanWellFounded
<1>3. PICK i \in I : \A j \in I : ~ (<<j, i>> \in R)
  <2> HIDE DEF R
  <2> QED
    BY <1>2, WFMin
<1>4. \A j \in Nat : j < i => <<j, i>> \in R
  OBVIOUS
<1>5. ASSUME NEW j \in I PROVE i <= j
  <2> HIDE DEF R
  <2>1. i \in Nat /\ j \in Nat /\ ~ (j < i)
    BY <1>3, <1>4
  <2> QED
    BY <2>1
<1> QED
  BY <1>5

\* The first of some positions is one of them, if there is any.
LEMMA FirstIsOne ==
    ASSUME NEW positions \in SUBSET (Nat \ {0})
    PROVE  /\ positions = {} => FirstOf(positions) = 0
           /\ positions # {} => FirstOf(positions) \in positions
<1>1. positions # {} => \E i \in positions : \A j \in positions : i <= j
  BY LeastNat
<1> QED
  BY <1>1 DEF FirstOf, Min

\* splice(k, 1) takes away what is at k.
LEMMA RemovedAt ==
    ASSUME NEW S, NEW list \in Seq(S), NEW k \in 1 .. Len(list)
    PROVE  LET less == RemoveAt(list, k)
               Old(j) == IF j < k THEN j ELSE j + 1
           IN /\ less \in Seq(S) /\ Len(less) = Len(list) - 1 /\ Len(list) \in Nat
              /\ \A j \in 1 .. Len(less) : less[j] = list[Old(j)] /\ Old(j) \in 1 .. Len(list) /\ Old(j) # k
<1> DEFINE front == SubSeq(list, 1, k - 1)
           back == SubSeq(list, k + 1, Len(list))
<1>1. front \in Seq(S) /\ Len(front) = k - 1 /\ \A j \in 1 .. k - 1 : front[j] = list[j]
  OBVIOUS
<1>2. back \in Seq(S) /\ Len(back) = Len(list) - k /\ \A j \in 1 .. Len(list) - k : back[j] = list[j + k]
  OBVIOUS
<1>3. front \in Seq(S) /\ back \in Seq(S)
  BY <1>1, <1>2
<1> HIDE DEF front, back
<1>4. /\ front \o back \in Seq(S) /\ Len(front \o back) = Len(front) + Len(back)
      /\ \A j \in 1 .. Len(front) + Len(back) :
            (front \o back)[j] = IF j <= Len(front) THEN front[j] ELSE back[j - Len(front)]
  BY <1>3
<1>5. Len(front) + Len(back) = Len(list) - 1 /\ Len(list) \in Nat /\ k \in Nat
  BY <1>1, <1>2
<1>6. ASSUME NEW j \in 1 .. Len(list) - 1
      PROVE  (front \o back)[j] = list[IF j < k THEN j ELSE j + 1]
  <2>1. CASE j < k
    BY <1>1, <1>4, <1>5, <2>1
  <2>2. CASE ~ (j < k)
    <3>1. j - (k - 1) \in 1 .. Len(list) - k /\ j - (k - 1) + k = j + 1 /\ ~ (j <= k - 1)
      BY <1>5, <2>2
    <3>2. back[j - (k - 1)] = list[j + 1]
      BY <1>2, <3>1
    <3> QED
      BY <1>1, <1>4, <1>5, <2>2, <3>1, <3>2
  <2> QED
    BY <2>1, <2>2
<1>7. RemoveAt(list, k) = front \o back
  BY DEF RemoveAt, front, back
<1>8. ASSUME NEW j \in 1 .. Len(list) - 1
      PROVE  LET old == IF j < k THEN j ELSE j + 1 IN old \in 1 .. Len(list) /\ old # k
  BY <1>5
<1>9. RemoveAt(list, k) \in Seq(S) /\ Len(RemoveAt(list, k)) = Len(list) - 1
  BY <1>4, <1>5, <1>7
<1> QED
  BY <1>5, <1>6, <1>7, <1>8, <1>9

\* A set as a sequence has each element once.
LEMMA EachOnce ==
    ASSUME NEW S, IsFiniteSet(S)
    PROVE  /\ SetToSeq(S) \in Seq(S)
           /\ \A j, k \in DOMAIN SetToSeq(S) : SetToSeq(S)[j] = SetToSeq(S)[k] => j = k
           /\ \A j \in DOMAIN SetToSeq(S) : SetToSeq(S)[j] \in S
<1> DEFINE n == Cardinality(S)
           f == SetToSeq(S)
<1>1. n \in Nat /\ \E g \in [1 .. n -> S] : IsInjective(g)
  BY FS_CardinalityType DEF ExistsBijection, Bijection, Injection
<1>2. f \in [1 .. n -> S] /\ IsInjective(f)
  BY <1>1 DEF SetToSeq
<1> HIDE DEF f, n
<1>3. f \in Seq(S)
  BY <1>1, <1>2
<1>4. \A j, k \in DOMAIN f : f[j] = f[k] => j = k
  BY <1>2 DEF IsInjective
<1>5. \A j \in DOMAIN f : f[j] \in S
  BY <1>2
<1> QED
  BY <1>3, <1>4, <1>5 DEF f

-----------------------------------------------------------------------------

CMInstances == [host : Hosts, online : BOOLEAN, due : BOOLEAN, invites : SUBSET Ids]

BotsOf == [account : Accounts, named : BOOLEAN]

Visits == {Gone} \cup [pc : {"opening", "authorizing"}, id : Ids, host : Hosts]
                 \cup [pc : Posting, id : Ids, host : Hosts, account : Accounts, found : BOOLEAN]

RoundStates == [pc : {"none", "asleep", "look", "asked", "answered"}, at : Nat, entry : Nat, invites : SUBSET Ids]

\* The list of the client, and who goes through it: one at a time, and what was
\* found of a host is still what the list has of it.
ClientInv ==
    /\ cm \in Seq(CMInstances)
    /\ rounds \in [Rounds -> RoundStates]
    /\ issued \in [Hosts -> SUBSET Ids]
    /\ making = Gone \/ making \in [pc : {"sent", "made"}, entry : Nat, id : Ids]
    /\ OneInstanceEach
    /\ \A r, q \in Rounds : rounds[r].pc # "none" /\ rounds[q].pc # "none" => r = q
    /\ \A r \in Rounds : rounds[r].pc \in {"asked", "answered"} =>
          /\ rounds[r].at \in Hosts
          /\ rounds[r].entry = 0 => \A k \in DOMAIN cm : cm[k].host # rounds[r].at
          /\ rounds[r].entry # 0 => rounds[r].entry \in DOMAIN cm /\ cm[rounds[r].entry].host = rounds[r].at

IsRunning(h, account) == \E k \in DOMAIN bots[h] : bots[h][k].named /\ bots[h][k].account = account

\* What has been done of the request of a visitor.
DoneOf(x) ==
    /\ x.host \in up
    /\ x.pc = "destroying" => IsRunning(x.host, x.account)
    /\ x.pc \in {"writing", "deleting", "starting"} => ~IsRunning(x.host, x.account)
    /\ x.pc \in {"destroying", "writing", "deleting"} => (x.id \in issued[x.host] => x.found)
    /\ x.pc \in {"deleting", "starting"} => x.account \in DOMAIN file[x.host]
    /\ x.pc = "deleting" /\ x.found => file[x.host][x.account] = x.id

-----------------------------------------------------------------------------

\* The client that is found for a host is one of it, if there is any.
LEMMA KnownIs ==
    ASSUME cm \in Seq(CMInstances), NEW h
    PROVE  /\ Known(h) = 0 => \A k \in DOMAIN cm : cm[k].host # h
           /\ Known(h) # 0 => Known(h) \in DOMAIN cm /\ cm[Known(h)].host = h
           /\ Known(h) \in Nat
<1> DEFINE positions == {i \in 1 .. Len(cm) : cm[i].host = h}
<1>1. DOMAIN cm = 1 .. Len(cm) /\ Len(cm) \in Nat
  OBVIOUS
<1>2. positions \subseteq Nat \ {0} /\ Known(h) = FirstOf(positions)
  BY <1>1 DEF Known, Index, SelectInSeq, FirstOf
<1>3. /\ positions = {} => Known(h) = 0
      /\ positions # {} => Known(h) \in positions
  BY <1>2, FirstIsOne
<1> QED
  BY <1>1, <1>3

\* The first that lists an invite is one of the clients.
LEMMA ListedIs ==
    ASSUME cm \in Seq(CMInstances), NEW id, ListedAt(id) # 0
    PROVE  ListedAt(id) \in DOMAIN cm /\ cm[ListedAt(id)].host \in Hosts
<1> DEFINE positions == {i \in 1 .. Len(cm) : id \in cm[i].invites}
<1>1. DOMAIN cm = 1 .. Len(cm)
  OBVIOUS
<1>2. positions \subseteq Nat \ {0} /\ ListedAt(id) = FirstOf(positions)
  BY <1>1 DEF ListedAt, Index, SelectInSeq, FirstOf
<1>3. ListedAt(id) \in positions
  BY <1>2, FirstIsOne
<1>4. \A k \in DOMAIN cm : cm[k] \in CMInstances
  OBVIOUS
<1>5. \A k \in DOMAIN cm : cm[k].host \in Hosts
  BY <1>4 DEF CMInstances
<1> QED
  BY <1>1, <1>3, <1>5

\* A client changes, and stays that of its host.
LEMMA SameHosts ==
    ASSUME ClientInv, NEW k \in DOMAIN cm, NEW x \in CMInstances, x.host = cm[k].host,
           cm' = [cm EXCEPT ![k] = x]
    PROVE  /\ cm' \in Seq(CMInstances) /\ DOMAIN cm' = DOMAIN cm
           /\ \A i \in DOMAIN cm : cm'[i].host = cm[i].host
           /\ OneInstanceEach'
<1>1. cm \in Seq(CMInstances)
  BY DEF ClientInv
<1>2. cm' \in Seq(CMInstances) /\ DOMAIN cm' = DOMAIN cm
  BY <1>1
<1>3. \A i \in DOMAIN cm : cm'[i].host = cm[i].host
  BY <1>1
<1> QED
  BY <1>2, <1>3 DEF OneInstanceEach, ClientInv

\* What the clients have, while nobody goes from one to the next.
LEMMA RoundsStay ==
    ASSUME ClientInv, cm' \in Seq(CMInstances), DOMAIN cm' = DOMAIN cm,
           \A i \in DOMAIN cm : cm'[i].host = cm[i].host, OneInstanceEach', UNCHANGED rounds,
           issued' \in [Hosts -> SUBSET Ids], making' = Gone \/ making' \in [pc : {"sent", "made"}, entry : Nat, id : Ids]
    PROVE  ClientInv'
<1>1. ASSUME NEW r \in Rounds, rounds[r].pc \in {"asked", "answered"}
      PROVE  /\ rounds[r].at \in Hosts
             /\ rounds[r].entry = 0 => \A k \in DOMAIN cm' : cm'[k].host # rounds[r].at
             /\ rounds[r].entry # 0 => rounds[r].entry \in DOMAIN cm' /\ cm'[rounds[r].entry].host = rounds[r].at
  BY <1>1 DEF ClientInv
<1> QED
  BY <1>1 DEF ClientInv

\* Steps that leave the clients as they are.
LEMMA ClientStays ==
    ASSUME ClientInv, UNCHANGED <<cm, rounds>>, issued' \in [Hosts -> SUBSET Ids],
           making' = Gone \/ making' \in [pc : {"sent", "made"}, entry : Nat, id : Ids]
    PROVE  ClientInv'
  BY DEF ClientInv, OneInstanceEach

LEMMA ElapseKeeps == ASSUME ClientInv, NEW k \in DOMAIN cm, Elapse(k) PROVE ClientInv'
<1>1. cm[k] \in CMInstances
  BY DEF ClientInv
<1>2. ASSUME NEW c \in CMInstances
      PROVE  [c EXCEPT !.due = TRUE] \in CMInstances /\ [c EXCEPT !.due = TRUE].host = c.host
  BY DEF CMInstances
<1>3. cm' = [cm EXCEPT ![k] = [cm[k] EXCEPT !.due = TRUE]]
  BY DEF Elapse
<1>4. /\ cm' \in Seq(CMInstances) /\ DOMAIN cm' = DOMAIN cm
      /\ \A i \in DOMAIN cm : cm'[i].host = cm[i].host
      /\ OneInstanceEach'
  <2> DEFINE x == [cm[k] EXCEPT !.due = TRUE]
  <2>1. x \in CMInstances /\ x.host = cm[k].host
    BY <1>1, <1>2
  <2> HIDE DEF x
  <2> QED
    BY <1>3, <2>1, SameHosts DEF x
<1> QED
  BY <1>4, RoundsStay DEF Elapse, servers, ClientInv

LEMMA InviteMadeKeeps == ASSUME ClientInv, InviteMade PROVE ClientInv'
<1> DEFINE k == making.entry
           x == [cm[k] EXCEPT !.invites = @ \cup {making.id}]
<1>1. making \in [pc : {"sent", "made"}, entry : Nat, id : Ids]
  BY DEF InviteMade, ClientInv
<1>2. cm' = [cm EXCEPT ![k].invites = @ \cup {making.id}] /\ making' = Gone /\ UNCHANGED <<rounds, issued>>
  BY DEF InviteMade, servers
<1>3. CASE k \in DOMAIN cm
  <2>1. cm[k] \in CMInstances
    BY <1>3 DEF ClientInv
  <2>2. x \in CMInstances /\ x.host = cm[k].host
    <3> HIDE DEF k
    <3> QED
      BY <1>1, <2>1 DEF CMInstances
  <2>3. cm' = [cm EXCEPT ![k] = x]
    BY <1>2
  <2> HIDE DEF k, x
  <2>4. /\ cm' \in Seq(CMInstances) /\ DOMAIN cm' = DOMAIN cm
        /\ \A i \in DOMAIN cm : cm'[i].host = cm[i].host
        /\ OneInstanceEach'
    BY <1>3, <2>2, <2>3, SameHosts
  <2> QED
    BY <1>2, <2>4, RoundsStay DEF ClientInv
<1>4. CASE k \notin DOMAIN cm
  <2>1. cm' = cm
    BY <1>2, <1>4 DEF ClientInv
  <2> QED
    BY <1>2, <2>1, ClientStays DEF ClientInv
<1> QED
  BY <1>3, <1>4

\* A first visit comes when nobody goes through the clients.
LEMMA FirstVisitKeeps == ASSUME OneByOne, ClientInv, NEW r \in Rounds, FirstVisit(r) PROVE ClientInv'
<1>1. /\ \A q \in Rounds : rounds[q].pc = "none"
      /\ rounds' = [rounds EXCEPT ![r].pc = "look"] /\ UNCHANGED <<cm, issued, making>>
  BY DEF FirstVisit, servers
<1>2. rounds[r] \in RoundStates
  BY DEF ClientInv
<1>3. [rounds[r] EXCEPT !.pc = "look"] \in RoundStates /\ [rounds[r] EXCEPT !.pc = "look"].pc = "look"
  BY <1>2 DEF RoundStates
<1>4. rounds' = [rounds EXCEPT ![r] = [rounds[r] EXCEPT !.pc = "look"]]
  BY <1>1
<1>5. /\ rounds' \in [Rounds -> RoundStates] /\ rounds'[r].pc = "look"
      /\ \A q \in Rounds : q # r => rounds'[q].pc = "none"
  BY <1>1, <1>3, <1>4 DEF ClientInv
<1> QED
  BY <1>1, <1>5 DEF ClientInv, OneInstanceEach

\* Whoever goes through the clients does so alone, and goes on so.
LEMMA RoundMoved ==
    ASSUME ClientInv, NEW r \in Rounds, rounds[r].pc # "none", NEW x \in RoundStates,
           rounds' = [rounds EXCEPT ![r] = x], x.pc # "none",
           cm' \in Seq(CMInstances), OneInstanceEach', UNCHANGED <<issued, making>>,
           x.pc \in {"asked", "answered"} =>
              /\ x.at \in Hosts
              /\ x.entry = 0 => \A k \in DOMAIN cm' : cm'[k].host # x.at
              /\ x.entry # 0 => x.entry \in DOMAIN cm' /\ cm'[x.entry].host = x.at
    PROVE  ClientInv'
<1>1. /\ rounds' \in [Rounds -> RoundStates] /\ rounds'[r] = x
      /\ \A q \in Rounds : q # r => rounds'[q] = rounds[q] /\ rounds[q].pc = "none"
  BY DEF ClientInv
<1> QED
  BY <1>1 DEF ClientInv

LEMMA NowhereIs ==
    ASSUME NEW pc \in {"asleep", "look"}, NEW at \in Nat
    PROVE  /\ [Nowhere EXCEPT !.pc = pc, !.at = at] \in RoundStates
           /\ [Nowhere EXCEPT !.pc = pc, !.at = at].pc = pc
           /\ [Nowhere EXCEPT !.pc = pc] \in RoundStates
           /\ [Nowhere EXCEPT !.pc = pc].pc = pc
  BY DEF Nowhere, RoundStates

\* A client is looked at: it is asked, or the next is.
LEMMA LookKeeps == ASSUME ClientInv, NEW r \in Rounds, Look(r) PROVE ClientInv'
<1> DEFINE h == rounds[r].at
           k == Known(h)
<1>1. rounds[r].pc = "look" /\ UNCHANGED <<issued, making>>
  BY DEF Look, servers
<1>2. rounds[r] \in RoundStates /\ h \in Nat /\ rounds \in [Rounds -> RoundStates]
  BY DEF ClientInv, RoundStates
<1>3. /\ k = 0 => \A i \in DOMAIN cm : cm[i].host # h
      /\ k # 0 => k \in DOMAIN cm /\ cm[k].host = h
      /\ k \in Nat
  BY KnownIs DEF ClientInv
<1>4. cm \in Seq(CMInstances) /\ OneInstanceEach
  BY DEF ClientInv
<1>5. CASE h \notin Hosts
  <2>1. rounds' = [rounds EXCEPT ![r] = [Nowhere EXCEPT !.pc = "asleep"]] /\ cm' = cm
    BY <1>5 DEF Look
  <2>2. [Nowhere EXCEPT !.pc = "asleep"] \in RoundStates /\ [Nowhere EXCEPT !.pc = "asleep"].pc = "asleep"
    BY NowhereIs
  <2> QED
    BY <1>1, <1>4, <2>1, <2>2, RoundMoved DEF OneInstanceEach
<1>6. CASE h \in Hosts /\ k # 0 /\ ~ShouldCheck(cm[k])
  <2> DEFINE x == [rounds[r] EXCEPT !.at = @ + 1]
  <2>1. rounds' = [rounds EXCEPT ![r] = x] /\ cm' = cm
    BY <1>6 DEF Look
  <2>2. x \in RoundStates /\ x.pc = "look"
    <3> HIDE DEF h
    <3> QED
      BY <1>1, <1>2 DEF RoundStates
  <2> HIDE DEF x
  <2> QED
    BY <1>1, <1>4, <2>1, <2>2, RoundMoved DEF OneInstanceEach
<1>7. CASE h \in Hosts /\ ~(k # 0 /\ ~ShouldCheck(cm[k]))
  <2> DEFINE x == [rounds[r] EXCEPT !.pc = "asked", !.entry = k]
  <2>1. rounds' = [rounds EXCEPT ![r] = x] /\ cm' = (IF k = 0 THEN cm ELSE [cm EXCEPT ![k].due = FALSE])
    <3>1. rounds' = [rounds EXCEPT ![r].pc = "asked", ![r].entry = k]
      BY <1>7 DEF Look
    <3>2. [rounds EXCEPT ![r].pc = "asked", ![r].entry = k] = [rounds EXCEPT ![r] = x]
      BY <1>2 DEF RoundStates
    <3> QED
      BY <1>7, <3>1, <3>2 DEF Look
  <2>2. x \in RoundStates /\ x.pc = "asked" /\ x.entry = k /\ x.at = h
    <3> HIDE DEF k
    <3> QED
      BY <1>2, <1>3 DEF RoundStates
  <2>3. /\ cm' \in Seq(CMInstances) /\ DOMAIN cm' = DOMAIN cm
        /\ \A i \in DOMAIN cm : cm'[i].host = cm[i].host
        /\ OneInstanceEach'
    <3>1. CASE k = 0
      BY <1>4, <2>1, <3>1 DEF OneInstanceEach
    <3>2. CASE k # 0
      <4> DEFINE y == [cm[k] EXCEPT !.due = FALSE]
      <4>1. cm[k] \in CMInstances
        BY <1>3, <1>4, <3>2
      <4>2. y \in CMInstances /\ y.host = cm[k].host
        <5> HIDE DEF k
        <5> QED
          BY <4>1 DEF CMInstances
      <4>3. cm' = [cm EXCEPT ![k] = y]
        BY <2>1, <3>2
      <4> HIDE DEF k, y
      <4> QED
        BY <1>3, <3>2, <4>2, <4>3, SameHosts
    <3> QED
      BY <3>1, <3>2
  <2> HIDE DEF x, k, h
  <2> QED
    BY <1>1, <1>3, <1>7, <2>1, <2>2, <2>3, RoundMoved
<1> QED
  BY <1>5, <1>6, <1>7

LEMMA AnswerKeeps == ASSUME ClientInv, NEW r \in Rounds, Answer(r) PROVE ClientInv'
<1> DEFINE x == [rounds[r] EXCEPT !.pc = "answered", !.invites = issued[rounds[r].at]]
<1>1. rounds[r].pc = "asked" /\ UNCHANGED <<cm, issued, making>>
  BY DEF Answer, servers
<1>2. rounds[r] \in RoundStates /\ rounds \in [Rounds -> RoundStates]
  BY DEF ClientInv
<1>3. rounds[r].at \in Hosts /\ issued[rounds[r].at] \in SUBSET Ids
  BY <1>1 DEF ClientInv
<1>4. rounds' = [rounds EXCEPT ![r] = x]
  <2>1. rounds' = [rounds EXCEPT ![r].pc = "answered", ![r].invites = issued[rounds[r].at]]
    BY DEF Answer
  <2> QED
    BY <1>2, <2>1 DEF RoundStates
<1>5. x \in RoundStates /\ x.pc = "answered" /\ x.entry = rounds[r].entry /\ x.at = rounds[r].at
  BY <1>2, <1>3 DEF RoundStates
<1> HIDE DEF x
<1>6. cm' \in Seq(CMInstances) /\ OneInstanceEach'
  BY <1>1 DEF ClientInv, OneInstanceEach
<1> QED
  BY <1>1, <1>4, <1>5, <1>6, RoundMoved DEF ClientInv

\* What was asked of a host is written to its client, or to a new one if there
\* was none when it was asked: there is none since.
LEMMA RefreshedKeeps ==
    ASSUME ClientInv, NEW r \in Rounds, rounds[r].pc \in {"asked", "answered"},
           NEW x \in CMInstances, x.host = rounds[r].at, Refreshed(r, x)
    PROVE  ClientInv'
<1> DEFINE k == rounds[r].entry
           h == rounds[r].at
           next == [Nowhere EXCEPT !.pc = "look", !.at = h + 1]
<1>1. /\ cm' = IF k = 0 THEN Append(cm, x) ELSE [cm EXCEPT ![k] = x]
      /\ rounds' = [rounds EXCEPT ![r] = next] /\ UNCHANGED <<issued, making>>
  BY DEF Refreshed, servers
<1>2. rounds[r] \in RoundStates /\ h \in Nat
  BY DEF ClientInv, RoundStates
<1>3. next \in RoundStates /\ next.pc = "look"
  <2>1. h + 1 \in Nat
    BY <1>2
  <2> HIDE DEF h
  <2> QED
    BY <2>1, NowhereIs
<1>4. /\ k = 0 => \A i \in DOMAIN cm : cm[i].host # h
      /\ k # 0 => k \in DOMAIN cm /\ cm[k].host = h
  BY DEF ClientInv
<1>5. cm \in Seq(CMInstances) /\ OneInstanceEach
  BY DEF ClientInv
<1> HIDE DEF next
<1>6. cm' \in Seq(CMInstances) /\ OneInstanceEach'
  <2>1. CASE k = 0
    <3>1. /\ cm' \in Seq(CMInstances) /\ Len(cm') = Len(cm) + 1 /\ Len(cm) \in Nat /\ cm'[Len(cm) + 1] = x
          /\ \A i \in 1 .. Len(cm) : cm'[i] = cm[i]
      BY <1>1, <1>5, <2>1
    <3>2. DOMAIN cm' = DOMAIN cm \cup {Len(cm) + 1} /\ DOMAIN cm = 1 .. Len(cm)
      BY <1>5, <3>1
    <3> QED
      BY <1>4, <1>5, <2>1, <3>1, <3>2 DEF OneInstanceEach
  <2>2. CASE k # 0
    BY <1>1, <1>4, <2>2, SameHosts
  <2> QED
    BY <2>1, <2>2
<1> QED
  BY <1>1, <1>3, <1>6, RoundMoved

LEMMA EntryIs ==
    ASSUME ClientInv, NEW r \in Rounds, rounds[r].pc \in {"asked", "answered"}
    PROVE  Entry(r) \in CMInstances /\ Entry(r).host = rounds[r].at
<1>1. rounds[r].at \in Hosts
  BY DEF ClientInv
<1>2. CASE rounds[r].entry = 0
  BY <1>1, <1>2 DEF Entry, CMInstances
<1>3. CASE rounds[r].entry # 0
  <2>1. rounds[r].entry \in DOMAIN cm /\ cm[rounds[r].entry].host = rounds[r].at /\ cm \in Seq(CMInstances)
    BY <1>3 DEF ClientInv
  <2>2. cm[rounds[r].entry] \in CMInstances
    BY <2>1
  <2> QED
    BY <1>3, <2>1, <2>2 DEF Entry
<1> QED
  BY <1>2, <1>3

LEMMA AnswersKeep ==
    ASSUME ClientInv, NEW r \in Rounds, AnswerArrives(r) \/ AskingFails(r)
    PROVE  ClientInv'
<1> DEFINE e == Entry(r)
<1>1. rounds[r].pc \in {"asked", "answered"}
  BY DEF AnswerArrives, AskingFails
<1>2. e \in CMInstances /\ e.host = rounds[r].at
  BY <1>1, EntryIs
<1>3. rounds[r].invites \in SUBSET Ids
  <2>1. rounds[r] \in RoundStates
    BY DEF ClientInv
  <2> QED
    BY <2>1 DEF RoundStates
<1> HIDE DEF e
<1>4. /\ Updated(e, rounds[r].invites) \in CMInstances /\ Updated(e, rounds[r].invites).host = e.host
      /\ [e EXCEPT !.online = FALSE] \in CMInstances /\ [e EXCEPT !.online = FALSE].host = e.host
  BY <1>2, <1>3 DEF Updated, CMInstances
<1> QED
  BY <1>1, <1>2, <1>4, RefreshedKeeps DEF AnswerArrives, AskingFails, e

LEMMA WakeKeeps == ASSUME ClientInv, NEW r \in Rounds, Wake(r) PROVE ClientInv'
<1> DEFINE x == [Nowhere EXCEPT !.pc = "look"]
<1>1. rounds[r].pc = "asleep" /\ rounds' = [rounds EXCEPT ![r] = x] /\ UNCHANGED <<cm, issued, making>>
  BY DEF Wake, servers
<1>2. x \in RoundStates /\ x.pc = "look"
  BY NowhereIs
<1> HIDE DEF x
<1>3. cm' \in Seq(CMInstances) /\ OneInstanceEach'
  BY <1>1 DEF ClientInv, OneInstanceEach
<1> QED
  BY <1>1, <1>2, <1>3, RoundMoved

\* What an instance does with its invites leaves the clients as they are.
LEMMA InvitesKeepClients ==
    ASSUME ClientInv, UNCHANGED <<cm, rounds>>,
           \/ UNCHANGED <<issued, making>>
           \/ \E h \in Hosts : Stop(h)
           \/ \E k \in DOMAIN cm, id \in Ids : SendInvite(k, id)
           \/ RecordInvite
           \/ \E v \in Visitors : InviteDeleted(v)
    PROVE  ClientInv'
<1>1. issued \in [Hosts -> SUBSET Ids] /\ (making = Gone \/ making \in [pc : {"sent", "made"}, entry : Nat, id : Ids])
  BY DEF ClientInv
<1>2. CASE UNCHANGED <<issued, making>>
  BY <1>1, <1>2, ClientStays
<1>3. ASSUME NEW h \in Hosts, Stop(h) PROVE ClientInv'
  <2>1. issued' = issued /\ (making' = making \/ making' = Gone)
    BY <1>3 DEF Stop
  <2> QED
    BY <1>1, <2>1, ClientStays
<1>4. ASSUME NEW k \in DOMAIN cm, NEW id \in Ids, SendInvite(k, id) PROVE ClientInv'
  <2>1. issued' = issued /\ making' = [pc |-> "sent", entry |-> k, id |-> id] /\ k \in Nat
    BY <1>4 DEF SendInvite, servers, ClientInv
  <2>2. making' \in [pc : {"sent", "made"}, entry : Nat, id : Ids]
    BY <2>1
  <2> QED
    BY <1>1, <2>1, <2>2, ClientStays
<1>5. CASE RecordInvite
  <2>1. /\ making # Gone /\ making' = [making EXCEPT !.pc = "made"]
        /\ issued' = [issued EXCEPT ![cm[making.entry].host] = @ \cup {making.id}]
    BY <1>5 DEF RecordInvite
  <2>2. making \in [pc : {"sent", "made"}, entry : Nat, id : Ids]
    BY <1>1, <2>1
  <2>3. making' \in [pc : {"sent", "made"}, entry : Nat, id : Ids] /\ making.id \in Ids
    BY <2>1, <2>2
  <2>4. issued' \in [Hosts -> SUBSET Ids]
    BY <1>1, <2>1, <2>3
  <2> QED
    BY <2>3, <2>4, ClientStays
<1>6. ASSUME NEW v \in Visitors, InviteDeleted(v) PROVE ClientInv'
  <2>1. making' = making /\ issued' = [issued EXCEPT ![visitor[v].host] = @ \ {visitor[v].id}]
    BY <1>6 DEF InviteDeleted, client
  <2>2. issued' \in [Hosts -> SUBSET Ids]
    BY <1>1, <2>1
  <2> QED
    BY <1>1, <2>1, <2>2, ClientStays
<1> QED
  BY <1>2, <1>3, <1>4, <1>5, <1>6

LEMMA ClientInvNext == ASSUME OneByOne, ClientInv, [WebNext]_webVars PROVE ClientInv'
<1>1. ASSUME NEW r \in Rounds, FirstVisit(r) PROVE ClientInv'
  BY <1>1, FirstVisitKeeps
<1>2. ASSUME NEW r \in Rounds, RoundMoves(r) PROVE ClientInv'
  BY <1>2, LookKeeps, AnswerKeeps, AnswersKeep, WakeKeeps DEF RoundMoves
<1>3. ASSUME NEW k \in DOMAIN cm, Elapse(k) PROVE ClientInv'
  BY <1>3, ElapseKeeps
<1>4. CASE InviteMade
  BY <1>4, InviteMadeKeeps
<1>5. ASSUME NEW h \in Hosts, Stop(h) \/ Start(h) PROVE ClientInv'
  BY <1>5, InvitesKeepClients DEF Stop, Start, client
<1>6. ASSUME NEW k \in DOMAIN cm, NEW id \in Ids, SendInvite(k, id) PROVE ClientInv'
  <2>1. UNCHANGED <<cm, rounds>>
    BY <1>6 DEF SendInvite, client
  <2> QED
    BY <1>6, <2>1, InvitesKeepClients
<1>7. CASE RecordInvite
  <2>1. UNCHANGED <<cm, rounds>>
    BY <1>7 DEF RecordInvite, client
  <2> QED
    BY <1>7, <2>1, InvitesKeepClients
<1>8. ASSUME NEW v \in Visitors,
             \/ \E id \in Ids : OpenInvite(v, id)
             \/ InviteRead(v)
             \/ \E a \in Accounts : Callback(v, a)
             \/ LookForBot(v) \/ BotDestroyed(v) \/ FileWritten(v) \/ BotStarted(v)
      PROVE  ClientInv'
  <2>1. UNCHANGED <<cm, rounds, issued, making>>
    BY <1>8 DEF OpenInvite, InviteRead, Callback, LookForBot, BotDestroyed, FileWritten, BotStarted, servers, client
  <2> QED
    BY <2>1, InvitesKeepClients
<1>9. ASSUME NEW v \in Visitors, InviteDeleted(v) PROVE ClientInv'
  <2>1. UNCHANGED <<cm, rounds>>
    BY <1>9 DEF InviteDeleted, client
  <2> QED
    BY <1>9, <2>1, InvitesKeepClients
<1>10. CASE UNCHANGED webVars
  BY <1>10, InvitesKeepClients DEF webVars
<1> QED
  BY <1>1, <1>2, <1>3, <1>4, <1>5, <1>6, <1>7, <1>8, <1>9, <1>10 DEF WebNext, AddingBot

-----------------------------------------------------------------------------

\* What the instances and a visitor are, in parts.
ServersTyped ==
    /\ up \subseteq Hosts
    /\ DOMAIN bots = Hosts /\ \A h \in Hosts : bots[h] \in Seq(BotsOf)
    /\ DOMAIN file = Hosts
    /\ \A h \in Hosts : IsFiniteSet(DOMAIN file[h]) /\ DOMAIN file[h] \subseteq Accounts
    /\ visitor \in [Visitors -> Visits]

\* An invite that is being made is nowhere else.
NewInvite ==
    making # Gone /\ making.pc = "sent" =>
        /\ \A h \in Hosts : making.id \notin issued[h]
        /\ \A v \in Visitors : visitor[v] # Gone /\ visitor[v].pc # "opening" => visitor[v].id # making.id

\* Whoever adds a bot does so alone.
OneVisitor == \A v, w \in Visitors : visitor[v] # Gone /\ visitor[w] # Gone => v = w

VisitsDone == \A v \in Visitors : visitor[v] # Gone /\ visitor[v].pc \in Posting => DoneOf(visitor[v])

ServersInv == ServersTyped /\ NewInvite /\ OneVisitor /\ VisitsDone /\ OneBotEach /\ RunningIsWritten

\* A visit that adds a bot.
LEMMA VisitIs ==
    ASSUME ServersTyped, NEW v \in Visitors, visitor[v] # Gone
    PROVE  /\ visitor[v].id \in Ids /\ visitor[v].host \in Hosts
           /\ visitor[v].pc \in {"opening", "authorizing"} \cup Posting
           /\ visitor[v].pc \in {"opening", "authorizing"} =>
                 visitor[v] \in [pc : {"opening", "authorizing"}, id : Ids, host : Hosts]
           /\ visitor[v].pc \in Posting =>
                 visitor[v] \in [pc : Posting, id : Ids, host : Hosts, account : Accounts, found : BOOLEAN]
<1>1. \/ visitor[v] \in [pc : {"opening", "authorizing"}, id : Ids, host : Hosts]
      \/ visitor[v] \in [pc : Posting, id : Ids, host : Hosts, account : Accounts, found : BOOLEAN]
  BY DEF ServersTyped, Visits
<1>2. \A pc \in {"opening", "authorizing"} : pc \notin Posting
  BY DEF Posting
<1> QED
  BY <1>1, <1>2

\* What a visitor's step does to the visits, if the instances are as they need be.
LEMMA VisitGoesOn ==
    ASSUME ServersTyped, OneVisitor, VisitsDone, NEW v \in Visitors, NEW x \in Visits,
           visitor' = [visitor EXCEPT ![v] = x],
           \A w \in Visitors : visitor[w] # Gone => w = v,
           x # Gone /\ x.pc \in Posting => DoneOf(x)'
    PROVE  /\ visitor' \in [Visitors -> Visits] /\ OneVisitor' /\ VisitsDone'
           /\ visitor'[v] = x /\ \A w \in Visitors : w # v => visitor'[w] = Gone
<1>1. /\ visitor' \in [Visitors -> Visits] /\ visitor'[v] = x
      /\ \A w \in Visitors : w # v => visitor'[w] = Gone
  BY DEF ServersTyped
<1>2. OneVisitor'
  BY <1>1 DEF OneVisitor
<1>3. ASSUME NEW w \in Visitors, visitor'[w] # Gone /\ visitor'[w].pc \in Posting
      PROVE  DoneOf(visitor[w])'
  BY <1>1, <1>3 DEF DoneOf, IsRunning
<1>4. VisitsDone'
  BY <1>3 DEF VisitsDone
<1> QED
  BY <1>1, <1>2, <1>4

\* The bot that is found of an account runs, if any does.
LEMMA ExistingIs ==
    ASSUME ServersTyped, NEW h \in Hosts, NEW a
    PROVE  /\ Existing(h, a) = 0 <=> ~IsRunning(h, a)
           /\ Existing(h, a) # 0 => /\ Existing(h, a) \in 1 .. Len(bots[h])
                                    /\ bots[h][Existing(h, a)].named /\ bots[h][Existing(h, a)].account = a
<1> DEFINE positions == {i \in 1 .. Len(bots[h]) : bots[h][i].named /\ bots[h][i].account = a}
<1>1. bots[h] \in Seq(BotsOf) /\ DOMAIN bots[h] = 1 .. Len(bots[h])
  BY DEF ServersTyped
<1>2. positions \subseteq Nat \ {0} /\ Existing(h, a) = FirstOf(positions)
  BY <1>1 DEF Existing, Index, SelectInSeq, FirstOf
<1>3. /\ positions = {} => Existing(h, a) = 0
      /\ positions # {} => Existing(h, a) \in positions
  BY <1>2, FirstIsOne
<1>4. positions # {} <=> IsRunning(h, a)
  BY <1>1 DEF IsRunning
<1> HIDE DEF positions
<1>5. Existing(h, a) \in positions => Existing(h, a) # 0
  BY <1>2
<1> QED
  BY <1>3, <1>4, <1>5 DEF positions

\* Steps of a visitor that change nothing at the instances.
LEMMA VisitsAlone ==
    ASSUME ServersInv, NEW v \in Visitors, NEW x \in Visits, visitor' = [visitor EXCEPT ![v] = x],
           \A w \in Visitors : visitor[w] # Gone => w = v,
           UNCHANGED <<up, issued, file, bots, making>>,
           x # Gone /\ x.pc \in Posting => DoneOf(x),
           x # Gone /\ x.pc # "opening" /\ making # Gone /\ making.pc = "sent" => x.id # making.id
    PROVE  ServersInv'
<1>1. x # Gone /\ x.pc \in Posting => DoneOf(x)'
  BY DEF DoneOf, IsRunning
<1>2. /\ visitor' \in [Visitors -> Visits] /\ OneVisitor' /\ VisitsDone'
      /\ visitor'[v] = x /\ \A w \in Visitors : w # v => visitor'[w] = Gone
  BY <1>1, VisitGoesOn DEF ServersInv
<1>3. ServersTyped'
  BY <1>2 DEF ServersInv, ServersTyped
<1>4. NewInvite'
  BY <1>2 DEF ServersInv, NewInvite
<1>5. OneBotEach' /\ RunningIsWritten'
  BY DEF ServersInv, OneBotEach, RunningIsWritten
<1> QED
  BY <1>2, <1>3, <1>4, <1>5 DEF ServersInv

LEMMA OpenInviteKeeps ==
    ASSUME OneByOne, ClientInv, ServersInv, NEW v \in Visitors, NEW id \in Ids, OpenInvite(v, id)
    PROVE  ServersInv'
<1>1. PICK host : host = cm[ListedAt(id)].host
  OBVIOUS
<1>2. /\ ListedAt(id) # 0 /\ \A w \in Visitors : visitor[w] = Gone
      /\ visitor' = [visitor EXCEPT ![v] = [pc |-> "opening", id |-> id, host |-> host]]
      /\ UNCHANGED <<up, issued, file, bots, making>>
  BY <1>1 DEF OpenInvite, servers
<1>3. host \in Hosts
  BY <1>1, <1>2, ListedIs DEF ClientInv
<1>4. PICK x : x = [pc |-> "opening", id |-> id, host |-> host]
  OBVIOUS
<1>5. x \in Visits /\ x.pc = "opening" /\ x.pc \notin Posting
  BY <1>3, <1>4 DEF Visits, Posting
<1>6. visitor' = [visitor EXCEPT ![v] = x]
  BY <1>2, <1>4
<1> QED
  BY <1>2, <1>5, <1>6, VisitsAlone

LEMMA InviteReadKeeps ==
    ASSUME ServersInv, NEW v \in Visitors, InviteRead(v)
    PROVE  ServersInv'
<1>1. PICK old : old = visitor[v]
  OBVIOUS
<1>2. PICK x : x = IF old.host \in up /\ old.id \in issued[old.host] THEN [old EXCEPT !.pc = "authorizing"] ELSE Gone
  OBVIOUS
<1>3. /\ old # Gone /\ old.pc = "opening" /\ UNCHANGED <<up, issued, file, bots, making>>
      /\ visitor' = [visitor EXCEPT ![v] = x]
  BY <1>1, <1>2 DEF InviteRead, servers
<1>4. old \in [pc : {"opening", "authorizing"}, id : Ids, host : Hosts] /\ old.host \in Hosts
  BY <1>1, <1>3, VisitIs DEF ServersInv
<1>5. \A w \in Visitors : visitor[w] # Gone => w = v
  BY <1>1, <1>3 DEF ServersInv, OneVisitor
<1>6. CASE old.host \in up /\ old.id \in issued[old.host]
  <2>1. x = [pc |-> "authorizing", id |-> old.id, host |-> old.host]
    BY <1>2, <1>4, <1>6
  <2>2. x \in Visits /\ x.pc \notin Posting /\ x.id = old.id
    BY <1>4, <2>1 DEF Visits, Posting
  <2>3. making # Gone /\ making.pc = "sent" => x.id # making.id
    BY <1>4, <1>6, <2>2 DEF ServersInv, NewInvite
  <2> QED
    BY <1>3, <1>5, <2>2, <2>3, VisitsAlone
<1>7. CASE ~(old.host \in up /\ old.id \in issued[old.host])
  <2>1. x = Gone /\ x \in Visits
    BY <1>2, <1>7 DEF Visits
  <2> QED
    BY <1>3, <1>5, <2>1, VisitsAlone
<1> QED
  BY <1>6, <1>7

LEMMA CallbackKeeps ==
    ASSUME ClientInv, ServersInv, NEW v \in Visitors, NEW account \in Accounts, Callback(v, account)
    PROVE  ServersInv'
<1>1. PICK old : old = visitor[v]
  OBVIOUS
<1> DEFINE k == ListedAt(visitor[v].id)
<1>2. PICK host : host = cm[k].host
  OBVIOUS
<1>3. PICK x : x = IF k = 0 \/ host \notin up THEN Gone
                   ELSE [pc |-> "posting", id |-> old.id, host |-> host, account |-> account, found |-> FALSE]
  OBVIOUS
<1>4. /\ old # Gone /\ old.pc = "authorizing" /\ UNCHANGED <<up, issued, file, bots, making>>
      /\ visitor' = [visitor EXCEPT ![v] = x]
  BY <1>1, <1>2, <1>3 DEF Callback, servers
<1>5. old.id \in Ids
  BY <1>1, <1>4, VisitIs DEF ServersInv
<1>6. \A w \in Visitors : visitor[w] # Gone => w = v
  BY <1>1, <1>4 DEF ServersInv, OneVisitor
<1>7. making # Gone /\ making.pc = "sent" => old.id # making.id
  BY <1>1, <1>4 DEF ServersInv, NewInvite
<1>8. CASE k = 0 \/ host \notin up
  <2>1. x = Gone /\ x \in Visits
    BY <1>3, <1>8 DEF Visits
  <2> QED
    BY <1>4, <1>6, <2>1, VisitsAlone
<1>9. CASE k # 0 /\ host \in up
  <2>1. x = [pc |-> "posting", id |-> old.id, host |-> host, account |-> account, found |-> FALSE]
    BY <1>3, <1>9
  <2>2. host \in Hosts
    BY <1>2, <1>9, ListedIs DEF ClientInv
  <2>3. x \in Visits /\ x.pc = "posting" /\ x.host = host /\ x.id = old.id
    BY <1>5, <2>1, <2>2 DEF Visits, Posting
  <2>4. DoneOf(x)
    BY <1>9, <2>3 DEF DoneOf
  <2> HIDE DEF k
  <2> QED
    BY <1>4, <1>6, <1>7, <2>3, <2>4, VisitsAlone
<1> QED
  BY <1>8, <1>9

\* A visit that adds a bot, with another state.
LEMMA PostingAs ==
    ASSUME NEW old \in [pc : Posting, id : Ids, host : Hosts, account : Accounts, found : BOOLEAN],
           NEW pc \in Posting, NEW found \in BOOLEAN
    PROVE  LET x == [old EXCEPT !.found = found, !.pc = pc]
               y == [old EXCEPT !.pc = pc]
           IN /\ x \in Visits /\ x.pc = pc /\ x.found = found
              /\ x.id = old.id /\ x.host = old.host /\ x.account = old.account
              /\ y \in Visits /\ y.pc = pc /\ y.found = old.found
              /\ y.id = old.id /\ y.host = old.host /\ y.account = old.account
  BY DEF Visits

\* A visitor who adds a bot is alone, and the invite is not being made.
LEMMA PostingIs ==
    ASSUME ServersInv, NEW v \in Visitors, NEW pc \in Posting, At(v, pc)
    PROVE  /\ visitor[v] \in [pc : Posting, id : Ids, host : Hosts, account : Accounts, found : BOOLEAN]
           /\ DoneOf(visitor[v]) /\ visitor[v] # Gone /\ visitor[v].pc = pc
           /\ \A w \in Visitors : visitor[w] # Gone => w = v
           /\ making # Gone /\ making.pc = "sent" => visitor[v].id # making.id
<1>1. visitor[v] # Gone /\ visitor[v].pc = pc /\ pc # "opening"
  BY DEF At, Posting
<1> QED
  BY <1>1, VisitIs DEF ServersInv, OneVisitor, VisitsDone, NewInvite

LEMMA LookForBotKeeps == ASSUME ServersInv, NEW v \in Visitors, LookForBot(v) PROVE ServersInv'
<1>1. PICK old : old = visitor[v]
  OBVIOUS
<1>2. PICK found : found = (old.id \in issued[old.host])
  OBVIOUS
<1>3. PICK pc : pc = IF Existing(old.host, old.account) = 0 THEN "writing" ELSE "destroying"
  OBVIOUS
<1>4. PICK x : x = [old EXCEPT !.found = found, !.pc = pc]
  OBVIOUS
<1>5. At(v, "posting") /\ UNCHANGED <<up, issued, file, bots, making>>
  BY DEF LookForBot, servers
<1>6. /\ old \in [pc : Posting, id : Ids, host : Hosts, account : Accounts, found : BOOLEAN]
      /\ DoneOf(old) /\ \A w \in Visitors : visitor[w] # Gone => w = v
      /\ making # Gone /\ making.pc = "sent" => old.id # making.id
  BY <1>1, <1>5, PostingIs DEF Posting
<1>7. visitor' = [visitor EXCEPT ![v] = x]
  <2>1. visitor' = [visitor EXCEPT ![v].found = found, ![v].pc = pc]
    BY <1>1, <1>2, <1>3 DEF LookForBot
  <2>2. visitor \in [Visitors -> Visits]
    BY DEF ServersInv, ServersTyped
  <2> QED
    BY <1>1, <1>4, <2>1, <2>2
<1>8. /\ x \in Visits /\ x.pc = pc /\ x.found = found
      /\ x.id = old.id /\ x.host = old.host /\ x.account = old.account
  <2>1. pc \in Posting /\ found \in BOOLEAN
    BY <1>2, <1>3 DEF Posting
  <2> QED
    BY <1>4, <1>6, <2>1, PostingAs
<1>9. DoneOf(x)
  <2>1. old.host \in Hosts /\ old.host \in up
    BY <1>6 DEF DoneOf
  <2>2. Existing(old.host, old.account) = 0 <=> ~IsRunning(old.host, old.account)
    BY <2>1, ExistingIs DEF ServersInv
  <2>3. pc \in {"writing", "destroying"} /\ (pc = "writing" <=> ~IsRunning(old.host, old.account))
    BY <1>3, <2>2
  <2> QED
    BY <1>2, <1>8, <2>1, <2>3 DEF DoneOf
<1> QED
  BY <1>5, <1>6, <1>7, <1>8, <1>9, VisitsAlone

-----------------------------------------------------------------------------

Apart(list) == \A j, k \in DOMAIN list : list[j].named /\ list[k].named /\ list[j].account = list[k].account => j = k

\* The bots of one instance change.
LEMMA BotsOfOne ==
    ASSUME ServersInv, NEW h \in Hosts, NEW list \in Seq(BotsOf), bots' = [bots EXCEPT ![h] = list],
           Apart(list), \A k \in DOMAIN list : list[k].account \in DOMAIN file[h], UNCHANGED file
    PROVE  /\ DOMAIN bots' = Hosts /\ \A g \in Hosts : bots'[g] \in Seq(BotsOf)
           /\ bots'[h] = list /\ \A g \in Hosts : g # h => bots'[g] = bots[g]
           /\ OneBotEach' /\ RunningIsWritten'
<1>1. /\ DOMAIN bots' = Hosts /\ \A g \in Hosts : bots'[g] \in Seq(BotsOf)
      /\ bots'[h] = list /\ \A g \in Hosts : g # h => bots'[g] = bots[g]
  BY DEF ServersInv, ServersTyped
<1>2. OneBotEach' /\ RunningIsWritten'
  BY <1>1 DEF ServersInv, OneBotEach, RunningIsWritten, Apart
<1> QED
  BY <1>1, <1>2

\* The bot that runs for the account is destroyed, and it was the only one.
LEMMA BotDestroyedKeeps == ASSUME ServersInv, NEW v \in Visitors, BotDestroyed(v) PROVE ServersInv'
<1>1. PICK old : old = visitor[v]
  OBVIOUS
<1>2. PICK h : h = old.host
  OBVIOUS
<1>3. PICK list : list = bots[h]
  OBVIOUS
<1>4. PICK k : k = Existing(h, old.account)
  OBVIOUS
<1>5. PICK x : x = [old EXCEPT !.pc = "writing"]
  OBVIOUS
<1>6. /\ At(v, "destroying") /\ UNCHANGED <<up, issued, file, making>>
      /\ bots' = [bots EXCEPT ![h] = WithoutBot(@, k)] /\ visitor' = [visitor EXCEPT ![v] = x]
  BY <1>1, <1>2, <1>4, <1>5 DEF BotDestroyed, client
<1>7. /\ old \in [pc : Posting, id : Ids, host : Hosts, account : Accounts, found : BOOLEAN]
      /\ DoneOf(old) /\ old.pc = "destroying" /\ \A w \in Visitors : visitor[w] # Gone => w = v
      /\ making # Gone /\ making.pc = "sent" => old.id # making.id
  BY <1>1, <1>6, PostingIs DEF Posting
<1>8. h \in Hosts /\ list \in Seq(BotsOf) /\ IsRunning(h, old.account) /\ h \in up
  BY <1>2, <1>3, <1>7 DEF ServersInv, ServersTyped, DoneOf
<1>9. k \in 1 .. Len(list) /\ list[k].named /\ list[k].account = old.account
  BY <1>3, <1>4, <1>8, ExistingIs DEF ServersInv
<1>10. PICK less : less = RemoveAt(list, k)
  OBVIOUS
<1>11. /\ less \in Seq(BotsOf) /\ Len(less) = Len(list) - 1 /\ Len(list) \in Nat
       /\ \A j \in 1 .. Len(less) : LET i == IF j < k THEN j ELSE j + 1
                                    IN less[j] = list[i] /\ i \in 1 .. Len(list) /\ i # k
  BY <1>8, <1>9, <1>10, RemovedAt
<1>12. bots' = [bots EXCEPT ![h] = less]
  <2>1. k # 0 /\ list # <<>>
    BY <1>8, <1>9
  <2> QED
    BY <1>3, <1>6, <1>10, <2>1 DEF WithoutBot
<1>13. DOMAIN less = 1 .. Len(less) /\ DOMAIN list = 1 .. Len(list)
  BY <1>8, <1>11
<1>14. Apart(list) /\ \A i \in DOMAIN list : list[i].account \in DOMAIN file[h]
  BY <1>3, <1>8 DEF ServersInv, OneBotEach, RunningIsWritten, Apart
<1>15. Apart(less)
  <2> SUFFICES ASSUME NEW i \in 1 .. Len(less), NEW j \in 1 .. Len(less),
                      less[i].named, less[j].named, less[i].account = less[j].account
               PROVE  i = j
    BY <1>13 DEF Apart
  <2> DEFINE a == IF i < k THEN i ELSE i + 1
             b == IF j < k THEN j ELSE j + 1
  <2>1. less[i] = list[a] /\ less[j] = list[b] /\ a \in 1 .. Len(list) /\ b \in 1 .. Len(list)
    BY <1>11
  <2> HIDE DEF a, b
  <2>2. a = b
    BY <1>13, <1>14, <2>1 DEF Apart
  <2> QED
    BY <1>9, <1>11, <2>2 DEF a, b
<1>16. \A i \in DOMAIN less : less[i].account \in DOMAIN file[h] /\ ~(less[i].named /\ less[i].account = old.account)
  <2> SUFFICES ASSUME NEW i \in 1 .. Len(less)
               PROVE  less[i].account \in DOMAIN file[h] /\ ~(less[i].named /\ less[i].account = old.account)
    BY <1>13
  <2>1. PICK j \in 1 .. Len(list) : less[i] = list[j] /\ j # k
    BY <1>11
  <2> QED
    BY <1>9, <1>13, <1>14, <2>1 DEF Apart
<1>17. /\ DOMAIN bots' = Hosts /\ \A g \in Hosts : bots'[g] \in Seq(BotsOf)
       /\ bots'[h] = less /\ OneBotEach' /\ RunningIsWritten'
  BY <1>6, <1>8, <1>11, <1>12, <1>15, <1>16, BotsOfOne
<1>18. /\ x \in Visits /\ x.pc = "writing" /\ x.found = old.found
       /\ x.id = old.id /\ x.host = h /\ x.account = old.account
  BY <1>2, <1>5, <1>7, PostingAs, Zenon DEF Posting
<1>19. DoneOf(x)'
  <2>1. ~IsRunning(h, old.account)'
    BY <1>16, <1>17 DEF IsRunning
  <2> QED
    BY <1>2, <1>6, <1>7, <1>8, <1>18, <2>1 DEF DoneOf
<1>20. /\ visitor' \in [Visitors -> Visits] /\ OneVisitor' /\ VisitsDone'
       /\ visitor'[v] = x /\ \A w \in Visitors : w # v => visitor'[w] = Gone
  BY <1>6, <1>7, <1>18, <1>19, VisitGoesOn DEF ServersInv
<1>21. ServersTyped'
  BY <1>6, <1>17, <1>20 DEF ServersInv, ServersTyped
<1>22. NewInvite'
  BY <1>6, <1>7, <1>18, <1>20 DEF ServersInv, NewInvite
<1> QED
  BY <1>17, <1>20, <1>21, <1>22 DEF ServersInv

\* The file has the bot; what else it has stays.
LEMMA FileWrittenKeeps == ASSUME ServersInv, NEW v \in Visitors, FileWritten(v) PROVE ServersInv'
<1>1. PICK old : old = visitor[v]
  OBVIOUS
<1>2. PICK h : h = old.host
  OBVIOUS
<1>3. PICK bound : bound = WithBot(file[h], old)
  OBVIOUS
<1>4. PICK x : x = [old EXCEPT !.pc = "deleting"]
  OBVIOUS
<1>5. /\ At(v, "writing") /\ UNCHANGED <<up, issued, bots, making>>
      /\ file' = [file EXCEPT ![h] = bound] /\ visitor' = [visitor EXCEPT ![v] = x]
  BY <1>1, <1>2, <1>3, <1>4 DEF FileWritten, client
<1>6. /\ old \in [pc : Posting, id : Ids, host : Hosts, account : Accounts, found : BOOLEAN]
      /\ DoneOf(old) /\ old.pc = "writing" /\ \A w \in Visitors : visitor[w] # Gone => w = v
      /\ making # Gone /\ making.pc = "sent" => old.id # making.id
  BY <1>1, <1>5, PostingIs DEF Posting
<1>7. h \in Hosts /\ old.account \in Accounts /\ h \in up
  BY <1>2, <1>6 DEF DoneOf
<1>8. /\ DOMAIN bound = DOMAIN file[h] \cup {old.account}
      /\ old.found => bound[old.account] = old.id
  BY <1>3 DEF WithBot
<1>9. IsFiniteSet(DOMAIN bound) /\ DOMAIN bound \subseteq Accounts
  <2> DEFINE accounts == DOMAIN file[h]
  <2>1. IsFiniteSet(accounts) /\ accounts \subseteq Accounts
    BY <1>7 DEF ServersInv, ServersTyped
  <2>2. DOMAIN bound = accounts \cup {old.account}
    BY <1>8
  <2> HIDE DEF accounts
  <2>3. IsFiniteSet(accounts \cup {old.account})
    BY <2>1, FS_AddElement
  <2> QED
    BY <1>7, <2>1, <2>2, <2>3
<1>10. file'[h] = bound /\ DOMAIN file' = Hosts /\ \A g \in Hosts : g # h => file'[g] = file[g]
  BY <1>5, <1>7 DEF ServersInv, ServersTyped
<1>11. /\ x \in Visits /\ x.pc = "deleting" /\ x.found = old.found
       /\ x.id = old.id /\ x.host = h /\ x.account = old.account
  BY <1>2, <1>4, <1>6, PostingAs, Zenon DEF Posting
<1>12. DoneOf(x)'
  <2>1. ~IsRunning(h, old.account)'
    BY <1>2, <1>5, <1>6 DEF DoneOf, IsRunning
  <2>2. x.id \in issued'[h] => x.found
    BY <1>2, <1>5, <1>6, <1>11 DEF DoneOf
  <2> QED
    BY <1>5, <1>7, <1>8, <1>10, <1>11, <2>1, <2>2 DEF DoneOf
<1>13. /\ visitor' \in [Visitors -> Visits] /\ OneVisitor' /\ VisitsDone'
       /\ visitor'[v] = x /\ \A w \in Visitors : w # v => visitor'[w] = Gone
  BY <1>5, <1>6, <1>11, <1>12, VisitGoesOn DEF ServersInv
<1>14. ServersTyped'
  BY <1>5, <1>9, <1>10, <1>13 DEF ServersInv, ServersTyped
<1>15. NewInvite'
  BY <1>5, <1>6, <1>11, <1>13 DEF ServersInv, NewInvite
<1>16. OneBotEach' /\ RunningIsWritten'
  BY <1>5, <1>8, <1>10 DEF ServersInv, OneBotEach, RunningIsWritten
<1> QED
  BY <1>13, <1>14, <1>15, <1>16 DEF ServersInv

\* The invite is spent, and the bot is made, without a name.
LEMMA InviteDeletedKeeps == ASSUME ClientInv, ServersInv, NEW v \in Visitors, InviteDeleted(v) PROVE ServersInv'
<1>1. PICK old : old = visitor[v]
  OBVIOUS
<1>2. PICK h : h = old.host
  OBVIOUS
<1>3. PICK list : list = bots[h]
  OBVIOUS
<1>4. PICK new : new = [account |-> old.account, named |-> FALSE]
  OBVIOUS
<1>5. PICK x : x = [old EXCEPT !.pc = "starting"]
  OBVIOUS
<1>6. /\ At(v, "deleting") /\ UNCHANGED <<up, file, making>>
      /\ issued' = [issued EXCEPT ![h] = @ \ {old.id}]
      /\ bots' = [bots EXCEPT ![h] = Append(@, new)] /\ visitor' = [visitor EXCEPT ![v] = x]
  BY <1>1, <1>2, <1>4, <1>5 DEF InviteDeleted, client
<1>7. /\ old \in [pc : Posting, id : Ids, host : Hosts, account : Accounts, found : BOOLEAN]
      /\ DoneOf(old) /\ old.pc = "deleting" /\ \A w \in Visitors : visitor[w] # Gone => w = v
      /\ making # Gone /\ making.pc = "sent" => old.id # making.id
  BY <1>1, <1>6, PostingIs DEF Posting
<1>8. /\ h \in Hosts /\ h \in up /\ list \in Seq(BotsOf) /\ new \in BotsOf /\ ~IsRunning(h, old.account)
      /\ old.account \in DOMAIN file[h] /\ ~new.named /\ new.account = old.account
  <2>1. new \in BotsOf
    BY <1>4, <1>7 DEF BotsOf
  <2> QED
    BY <1>2, <1>3, <1>4, <1>7, <2>1 DEF ServersInv, ServersTyped, DoneOf
<1>9. PICK more : more = Append(list, new)
  OBVIOUS
<1>10. /\ more \in Seq(BotsOf) /\ Len(more) = Len(list) + 1 /\ Len(list) \in Nat /\ more[Len(list) + 1] = new
       /\ \A k \in 1 .. Len(list) : more[k] = list[k]
       /\ DOMAIN more = 1 .. Len(more) /\ DOMAIN list = 1 .. Len(list)
  BY <1>8, <1>9
<1>11. bots' = [bots EXCEPT ![h] = more]
  BY <1>3, <1>6, <1>9
<1>12. Apart(list) /\ \A k \in DOMAIN list : list[k].account \in DOMAIN file[h]
                                             /\ ~(list[k].named /\ list[k].account = old.account)
  BY <1>3, <1>8 DEF ServersInv, OneBotEach, RunningIsWritten, Apart, IsRunning
<1>13. Apart(more)
  BY <1>8, <1>10, <1>12 DEF Apart
<1>14. \A k \in DOMAIN more : more[k].account \in DOMAIN file[h] /\ ~(more[k].named /\ more[k].account = old.account)
  BY <1>8, <1>10, <1>12
<1>15. /\ DOMAIN bots' = Hosts /\ \A g \in Hosts : bots'[g] \in Seq(BotsOf)
       /\ bots'[h] = more /\ OneBotEach' /\ RunningIsWritten'
  BY <1>6, <1>8, <1>10, <1>11, <1>13, <1>14, BotsOfOne
<1>16. /\ x \in Visits /\ x.pc = "starting" /\ x.found = old.found
       /\ x.id = old.id /\ x.host = h /\ x.account = old.account
  BY <1>2, <1>5, <1>7, PostingAs, Zenon DEF Posting
<1>17. DoneOf(x)'
  <2>1. ~IsRunning(h, old.account)'
    BY <1>14, <1>15 DEF IsRunning
  <2> QED
    BY <1>6, <1>8, <1>16, <2>1 DEF DoneOf
<1>18. /\ visitor' \in [Visitors -> Visits] /\ OneVisitor' /\ VisitsDone'
       /\ visitor'[v] = x /\ \A w \in Visitors : w # v => visitor'[w] = Gone
  BY <1>6, <1>7, <1>16, <1>17, VisitGoesOn DEF ServersInv
<1>19. ServersTyped'
  BY <1>6, <1>15, <1>18 DEF ServersInv, ServersTyped
<1>20. NewInvite'
  <2>1. \A g \in Hosts : issued'[g] \subseteq issued[g]
    BY <1>6 DEF ClientInv
  <2> QED
    BY <1>6, <1>7, <1>16, <1>18, <2>1 DEF ServersInv, NewInvite
<1> QED
  BY <1>15, <1>18, <1>19, <1>20 DEF ServersInv

\* The bot gets its name: no other of the account had one.
LEMMA BotStartedKeeps == ASSUME ServersInv, NEW v \in Visitors, BotStarted(v) PROVE ServersInv'
<1>1. PICK old : old = visitor[v]
  OBVIOUS
<1>2. PICK h : h = old.host
  OBVIOUS
<1>3. PICK list : list = bots[h]
  OBVIOUS
<1>4. PICK k : k = Index(bots[h], LAMBDA b : ~b.named /\ b.account = old.account)
  OBVIOUS
<1>5. /\ At(v, "starting") /\ UNCHANGED <<up, issued, file, making>>
      /\ bots' = (IF k = 0 THEN bots ELSE [bots EXCEPT ![h][k].named = TRUE])
      /\ visitor' = [visitor EXCEPT ![v] = Gone]
  BY <1>1, <1>2, <1>4 DEF BotStarted, client
<1>6. /\ old \in [pc : Posting, id : Ids, host : Hosts, account : Accounts, found : BOOLEAN]
      /\ DoneOf(old) /\ old.pc = "starting" /\ \A w \in Visitors : visitor[w] # Gone => w = v
      /\ making # Gone /\ making.pc = "sent" => old.id # making.id
  BY <1>1, <1>5, PostingIs DEF Posting
<1>7. /\ h \in Hosts /\ list \in Seq(BotsOf) /\ ~IsRunning(h, old.account)
      /\ DOMAIN list = 1 .. Len(list) /\ Len(list) \in Nat
  BY <1>2, <1>3, <1>6 DEF ServersInv, ServersTyped, DoneOf
<1>8. k # 0 => k \in DOMAIN list /\ list[k].account = old.account
  <2> DEFINE positions == {i \in 1 .. Len(list) : ~list[i].named /\ list[i].account = old.account}
  <2>1. positions \subseteq Nat \ {0} /\ k = FirstOf(positions)
    BY <1>3, <1>4, <1>7 DEF Index, SelectInSeq, FirstOf
  <2>2. /\ positions = {} => k = 0
        /\ positions # {} => k \in positions
    BY <2>1, FirstIsOne
  <2> QED
    BY <1>7, <2>2
<1>9. Apart(list) /\ \A i \in DOMAIN list : list[i].account \in DOMAIN file[h]
                                            /\ ~(list[i].named /\ list[i].account = old.account)
  BY <1>3, <1>7 DEF ServersInv, OneBotEach, RunningIsWritten, Apart, IsRunning
<1>10. /\ DOMAIN bots' = Hosts /\ \A g \in Hosts : bots'[g] \in Seq(BotsOf)
       /\ OneBotEach' /\ RunningIsWritten'
  <2>1. CASE k = 0
    BY <1>5, <2>1 DEF ServersInv, ServersTyped, OneBotEach, RunningIsWritten
  <2>2. CASE k # 0
    <3>1. PICK b : b = [list[k] EXCEPT !.named = TRUE]
      OBVIOUS
    <3>2. PICK now : now = [list EXCEPT ![k] = b]
      OBVIOUS
    <3>3. list[k] \in BotsOf
      BY <1>7, <1>8, <2>2
    <3>4. b \in BotsOf /\ b.account = old.account /\ b.named
      BY <1>8, <2>2, <3>1, <3>3 DEF BotsOf
    <3>5. bots' = [bots EXCEPT ![h] = now]
      BY <1>3, <1>5, <2>2, <3>1, <3>2
    <3>6. /\ now \in Seq(BotsOf) /\ DOMAIN now = DOMAIN list
          /\ now[k] = b /\ \A i \in DOMAIN list : i # k => now[i] = list[i]
      BY <1>7, <1>8, <2>2, <3>2, <3>4
    <3>7. Apart(now)
      BY <1>9, <3>4, <3>6 DEF Apart
    <3>8. \A i \in DOMAIN now : now[i].account \in DOMAIN file[h]
      BY <1>8, <1>9, <2>2, <3>4, <3>6
    <3> QED
      BY <1>5, <1>7, <3>5, <3>6, <3>7, <3>8, BotsOfOne
  <2> QED
    BY <2>1, <2>2
<1>11. /\ visitor' \in [Visitors -> Visits] /\ OneVisitor' /\ VisitsDone'
       /\ visitor'[v] = Gone /\ \A w \in Visitors : w # v => visitor'[w] = Gone
  <2>1. Gone \in Visits
    BY DEF Visits
  <2> QED
    BY <1>5, <1>6, <2>1, VisitGoesOn DEF ServersInv
<1>12. ServersTyped'
  BY <1>5, <1>10, <1>11 DEF ServersInv, ServersTyped
<1>13. NewInvite'
  BY <1>5, <1>11 DEF ServersInv, NewInvite
<1> QED
  BY <1>10, <1>11, <1>12, <1>13 DEF ServersInv

-----------------------------------------------------------------------------

\* An instance stops, and the requests it is at end with it.
LEMMA StopKeeps == ASSUME ServersInv, NEW h \in Hosts, Stop(h) PROVE ServersInv'
<1>1. /\ up' = up \ {h} /\ bots' = [bots EXCEPT ![h] = <<>>] /\ UNCHANGED <<issued, file>>
      /\ visitor' = [v \in Visitors |-> IF visitor[v] # Gone /\ visitor[v].host = h /\ visitor[v].pc \in Posting
                                        THEN Gone ELSE visitor[v]]
      /\ making' = making \/ making' = Gone
  BY DEF Stop
<1>2. /\ DOMAIN bots' = Hosts /\ \A g \in Hosts : bots'[g] \in Seq(BotsOf)
      /\ bots'[h] = <<>> /\ \A g \in Hosts : g # h => bots'[g] = bots[g]
      /\ OneBotEach' /\ RunningIsWritten'
  <2>1. PICK list : list = <<>>
    OBVIOUS
  <2>2. list \in Seq(BotsOf) /\ DOMAIN list = {}
    BY <2>1
  <2>3. Apart(list) /\ \A k \in DOMAIN list : list[k].account \in DOMAIN file[h]
    BY <2>2 DEF Apart
  <2> QED
    BY <1>1, <2>1, <2>2, <2>3, BotsOfOne
<1>3. \A v \in Visitors : visitor'[v] # Gone => visitor'[v] = visitor[v] /\ ~(visitor[v].host = h /\ visitor[v].pc \in Posting)
  BY <1>1
<1>4. visitor' \in [Visitors -> Visits]
  <2>1. \A v \in Visitors : visitor[v] \in Visits
    BY DEF ServersInv, ServersTyped
  <2>2. Gone \in Visits
    BY DEF Visits
  <2>3. \A v \in Visitors : visitor'[v] \in Visits
    BY <1>3, <2>1, <2>2
  <2> QED
    BY <1>1, <2>3
<1>5. OneVisitor'
  BY <1>3 DEF ServersInv, OneVisitor
<1>6. VisitsDone'
  <2> SUFFICES ASSUME NEW v \in Visitors, visitor'[v] # Gone, visitor'[v].pc \in Posting
               PROVE  DoneOf(visitor[v])'
    BY DEF VisitsDone
  <2>1. PICK x : x = visitor[v]
    OBVIOUS
  <2>2. visitor'[v] = x /\ x # Gone /\ x.pc \in Posting /\ x.host # h
    BY <1>3, <2>1
  <2>3. x.host \in Hosts /\ DoneOf(x)
    BY <2>1, <2>2, VisitIs DEF ServersInv, VisitsDone
  <2>4. DoneOf(x)'
    BY <1>1, <1>2, <2>2, <2>3 DEF DoneOf, IsRunning
  <2> QED
    BY <2>2, <2>4 DEF DoneOf, IsRunning
<1>7. ServersTyped'
  BY <1>1, <1>2, <1>4 DEF ServersInv, ServersTyped
<1>8. NewInvite'
  BY <1>1, <1>3 DEF ServersInv, NewInvite
<1> QED
  BY <1>2, <1>5, <1>6, <1>7, <1>8 DEF ServersInv

\* An instance starts with the bots of its file, each once.
LEMMA StartKeeps == ASSUME ServersInv, NEW h \in Hosts, Start(h) PROVE ServersInv'
<1>1. PICK accounts : accounts = DOMAIN file[h]
  OBVIOUS
<1>2. PICK written : written = {[account |-> a, named |-> TRUE] : a \in accounts}
  OBVIOUS
<1>3. PICK list : list = SetToSeq(written)
  OBVIOUS
<1>4. /\ h \notin up /\ up' = up \cup {h} /\ bots' = [bots EXCEPT ![h] = list]
      /\ UNCHANGED <<issued, file, making, visitor>>
  BY <1>1, <1>2, <1>3 DEF Start, client
<1>5. IsFiniteSet(accounts) /\ accounts \subseteq Accounts
  BY <1>1 DEF ServersInv, ServersTyped
<1>6. IsFiniteSet(written)
  <2> DEFINE Named == [a \in accounts |-> [account |-> a, named |-> TRUE]]
  <2>1. Named \in Surjection(accounts, written)
    BY <1>2 DEF Surjection
  <2>2. PICK f : f \in Surjection(accounts, written)
    BY <2>1
  <2> HIDE DEF Named
  <2> QED
    BY <1>5, <2>2, FS_Surjection
<1>7. ASSUME NEW b \in written
      PROVE  b \in BotsOf /\ b.account \in accounts /\ b.named /\ b = [account |-> b.account, named |-> TRUE]
  <2>1. PICK a \in accounts : b = [account |-> a, named |-> TRUE]
    BY <1>2
  <2>2. a \in Accounts
    BY <1>5
  <2>3. b \in [account : Accounts, named : BOOLEAN]
    BY <2>1, <2>2
  <2>4. b.account = a /\ b.named
    BY <2>1
  <2> QED
    BY <2>1, <2>3, <2>4 DEF BotsOf
<1>8. \A b, c \in written : b.account = c.account => b = c
  BY <1>7
<1>9. /\ list \in Seq(written)
      /\ \A j, k \in DOMAIN list : list[j] = list[k] => j = k
      /\ \A j \in DOMAIN list : list[j] \in written
  BY <1>3, <1>6, EachOnce
<1>10. list \in Seq(BotsOf)
  BY <1>7, <1>9
<1>11. Apart(list) /\ \A k \in DOMAIN list : list[k].account \in DOMAIN file[h]
  BY <1>1, <1>7, <1>8, <1>9 DEF Apart
<1>12. /\ DOMAIN bots' = Hosts /\ \A g \in Hosts : bots'[g] \in Seq(BotsOf)
       /\ \A g \in Hosts : g # h => bots'[g] = bots[g]
       /\ OneBotEach' /\ RunningIsWritten'
  BY <1>4, <1>10, <1>11, BotsOfOne
<1>13. VisitsDone'
  <2> SUFFICES ASSUME NEW v \in Visitors, visitor[v] # Gone, visitor[v].pc \in Posting
               PROVE  DoneOf(visitor[v])'
    BY <1>4 DEF VisitsDone
  <2>1. PICK x : x = visitor[v]
    OBVIOUS
  <2>2. x.host \in Hosts /\ DoneOf(x)
    BY <2>1, VisitIs DEF ServersInv, VisitsDone
  <2>3. x.host # h
    BY <1>4, <2>2 DEF DoneOf
  <2>4. DoneOf(x)'
    BY <1>4, <1>12, <2>2, <2>3 DEF DoneOf, IsRunning
  <2>5. visitor'[v] = x
    BY <1>4, <2>1
  <2> QED
    BY <2>4, <2>5 DEF DoneOf, IsRunning
<1>14. ServersTyped'
  BY <1>4, <1>12 DEF ServersInv, ServersTyped
<1>15. NewInvite' /\ OneVisitor'
  BY <1>4 DEF ServersInv, NewInvite, OneVisitor
<1> QED
  BY <1>12, <1>13, <1>14, <1>15 DEF ServersInv

\* Steps that leave instances and visitors as they are, but for invites: those
\* that visitors add bots with are issued no more than they were.
LEMMA InvitesAlone ==
    ASSUME ServersInv, UNCHANGED <<up, file, bots, visitor>>, NewInvite',
           \A v \in Visitors : visitor[v] # Gone /\ visitor[v].pc \in Posting =>
              (visitor[v].id \in issued'[visitor[v].host] => visitor[v].id \in issued[visitor[v].host])
    PROVE  ServersInv'
<1>1. VisitsDone'
  BY DEF ServersInv, VisitsDone, DoneOf, IsRunning
<1> QED
  BY <1>1 DEF ServersInv, ServersTyped, OneVisitor, OneBotEach, RunningIsWritten

LEMMA InvitesKeep ==
    ASSUME ClientInv, ServersInv,
           \/ \E k \in DOMAIN cm, id \in Ids : SendInvite(k, id)
           \/ RecordInvite
           \/ InviteMade
           \/ UNCHANGED <<up, issued, file, bots, visitor, making>>
    PROVE  ServersInv'
<1>1. ASSUME NEW k \in DOMAIN cm, NEW id \in Ids, SendInvite(k, id) PROVE ServersInv'
  <2>1. /\ UNCHANGED <<up, issued, file, bots, visitor>> /\ making' = [pc |-> "sent", entry |-> k, id |-> id]
        /\ \A h \in Hosts : id \notin issued[h]
        /\ \A v \in Visitors : visitor[v] # Gone => visitor[v].id # id
    BY <1>1 DEF SendInvite, servers
  <2>2. NewInvite'
    BY <2>1 DEF NewInvite
  <2> QED
    BY <2>1, <2>2, InvitesAlone
<1>2. CASE RecordInvite
  <2>1. /\ making # Gone /\ making.pc = "sent" /\ making' = [making EXCEPT !.pc = "made"]
        /\ issued' = [issued EXCEPT ![cm[making.entry].host] = @ \cup {making.id}]
        /\ UNCHANGED <<up, file, bots, visitor>>
    BY <1>2 DEF RecordInvite, client
  <2>2. making \in [pc : {"sent", "made"}, entry : Nat, id : Ids]
    BY <2>1 DEF ClientInv
  <2>3. making'.pc = "made"
    BY <2>1, <2>2
  <2>4. NewInvite'
    BY <2>3 DEF NewInvite
  <2>5. ASSUME NEW v \in Visitors, visitor[v] # Gone, visitor[v].pc \in Posting,
               visitor[v].id \in issued'[visitor[v].host]
        PROVE  visitor[v].id \in issued[visitor[v].host]
    <3>1. visitor[v].id # making.id /\ visitor[v].host \in Hosts
      BY <2>1, <2>5, VisitIs DEF ServersInv, NewInvite, Posting
    <3> QED
      BY <2>1, <2>5, <3>1 DEF ClientInv
  <2> QED
    BY <2>1, <2>4, <2>5, InvitesAlone
<1>3. CASE InviteMade
  <2>1. making' = Gone /\ UNCHANGED <<up, issued, file, bots, visitor>>
    BY <1>3 DEF InviteMade, servers
  <2> QED
    BY <2>1, InvitesAlone DEF NewInvite
<1>4. CASE UNCHANGED <<up, issued, file, bots, visitor, making>>
  <2>1. NewInvite'
    BY <1>4 DEF ServersInv, NewInvite
  <2> QED
    BY <1>4, <2>1, InvitesAlone
<1> QED
  BY <1>1, <1>2, <1>3, <1>4

LEMMA ServersInvNext == ASSUME OneByOne, ClientInv, ServersInv, [WebNext]_webVars PROVE ServersInv'
<1>1. ASSUME NEW r \in Rounds, FirstVisit(r) \/ RoundMoves(r) PROVE ServersInv'
  <2>1. UNCHANGED <<up, issued, file, bots, visitor, making>>
    BY <1>1 DEF FirstVisit, RoundMoves, Look, Answer, AnswerArrives, AskingFails, Refreshed, Wake, servers
  <2> QED
    BY <2>1, InvitesKeep
<1>2. ASSUME NEW k \in DOMAIN cm, Elapse(k) PROVE ServersInv'
  BY <1>2, InvitesKeep DEF Elapse, servers
<1>3. ASSUME NEW h \in Hosts, Stop(h) \/ Start(h) PROVE ServersInv'
  BY <1>3, StopKeeps, StartKeeps
<1>4. CASE (\E k \in DOMAIN cm, id \in Ids : SendInvite(k, id)) \/ RecordInvite \/ InviteMade
  BY <1>4, InvitesKeep
<1>5. ASSUME NEW v \in Visitors, NEW id \in Ids, OpenInvite(v, id) PROVE ServersInv'
  BY <1>5, OpenInviteKeeps
<1>6. ASSUME NEW v \in Visitors, InviteRead(v) PROVE ServersInv'
  BY <1>6, InviteReadKeeps
<1>7. ASSUME NEW v \in Visitors, NEW a \in Accounts, Callback(v, a) PROVE ServersInv'
  BY <1>7, CallbackKeeps
<1>8. ASSUME NEW v \in Visitors, AddingBot(v) PROVE ServersInv'
  BY <1>8, LookForBotKeeps, BotDestroyedKeeps, FileWrittenKeeps, InviteDeletedKeeps, BotStartedKeeps DEF AddingBot
<1>9. CASE UNCHANGED webVars
  BY <1>9, InvitesKeep DEF webVars
<1> QED
  BY <1>1, <1>2, <1>3, <1>4, <1>5, <1>6, <1>7, <1>8, <1>9 DEF WebNext

LEMMA WebInvInit == WebInit => ClientInv /\ ServersInv
<1> SUFFICES ASSUME WebInit PROVE ClientInv /\ ServersInv
  OBVIOUS
<1>1. /\ up = Hosts /\ issued = [h \in Hosts |-> {}] /\ file = [h \in Hosts |-> [a \in {} |-> NoInvite]]
      /\ bots = [h \in Hosts |-> <<>>] /\ cm = <<>> /\ rounds = [r \in Rounds |-> Nowhere]
      /\ making = Gone /\ visitor = [v \in Visitors |-> Gone]
  BY DEF WebInit
<1>2. Nowhere \in RoundStates /\ Nowhere.pc = "none"
  BY DEF Nowhere, RoundStates
<1>3. ClientInv
  BY <1>1, <1>2 DEF ClientInv, OneInstanceEach
<1>4. \A h \in Hosts : bots[h] = <<>> /\ DOMAIN bots[h] = {} /\ bots[h] \in Seq(BotsOf)
  BY <1>1
<1>5. \A h \in Hosts : DOMAIN file[h] = {} /\ IsFiniteSet({})
  BY <1>1, FS_EmptySet
<1>6. Gone \in Visits /\ \A v \in Visitors : visitor[v] = Gone
  BY <1>1 DEF Visits
<1>7. ServersTyped
  BY <1>1, <1>4, <1>5, <1>6 DEF ServersTyped
<1>8. NewInvite /\ OneVisitor /\ VisitsDone /\ OneBotEach /\ RunningIsWritten
  BY <1>1, <1>4, <1>6 DEF NewInvite, OneVisitor, VisitsDone, OneBotEach, RunningIsWritten
<1> QED
  BY <1>3, <1>7, <1>8 DEF ServersInv

Spent == \A h \in Hosts : \A id \in issued[h] \ issued'[h] : \E a \in DOMAIN file[h] : file[h][a] = id

\* Only the last step but one of a request that has written the file spends an invite.
LEMMA SpentNext == ASSUME ClientInv, ServersInv, [WebNext]_webVars PROVE [Spent]_webVars
<1> SUFFICES ASSUME WebNext, NEW h \in Hosts, NEW id \in issued[h] \ issued'[h]
             PROVE  \E a \in DOMAIN file[h] : file[h][a] = id
  BY DEF Spent
<1>1. CASE issued' = issued
  BY <1>1
<1>2. CASE RecordInvite
  <2>1. issued[h] \subseteq issued'[h]
    BY <1>2 DEF RecordInvite, ClientInv
  <2> QED
    BY <2>1
<1>3. ASSUME NEW v \in Visitors, InviteDeleted(v) PROVE \E a \in DOMAIN file[h] : file[h][a] = id
  <2>1. PICK x : x = visitor[v]
    OBVIOUS
  <2>2. At(v, "deleting") /\ issued' = [issued EXCEPT ![x.host] = @ \ {x.id}]
    BY <1>3, <2>1 DEF InviteDeleted
  <2>3. DoneOf(x) /\ x.pc = "deleting"
    BY <2>1, <2>2, PostingIs DEF Posting
  <2>4. h = x.host /\ id = x.id
    BY <2>2 DEF ClientInv
  <2>5. /\ x.id \in issued[x.host] => x.found
        /\ x.account \in DOMAIN file[x.host]
        /\ x.found => file[x.host][x.account] = x.id
    BY <2>3, Zenon DEF DoneOf
  <2>6. x.account \in DOMAIN file[h] /\ file[h][x.account] = id
    BY <2>4, <2>5
  <2> QED
    BY <2>6
<1>4. issued' = issued \/ RecordInvite \/ \E v \in Visitors : InviteDeleted(v)
  BY Zenon DEF WebNext, FirstVisit, RoundMoves, Look, Answer, AnswerArrives, AskingFails, Refreshed, Wake, Elapse,
         Stop, Start, SendInvite, InviteMade, OpenInvite, InviteRead, Callback, AddingBot, LookForBot,
         BotDestroyed, FileWritten, BotStarted, servers, client
<1> QED
  BY <1>1, <1>2, <1>3, <1>4

\* A bot that is added by an invite runs once, is written to the file it is
\* started from, and only then costs the invite, and the client has each instance
\* once: for any instances, invites, accounts and visitors, wherever an instance
\* stops, as long as first visits and requests to add a bot do not overlap
\* (addBot, refreshClient).
THEOREM BotsCorrect == OneByOne /\ Spec => BotsAdded
<1> SUFFICES ASSUME OneByOne PROVE Spec => BotsAdded
  OBVIOUS
<1> DEFINE Inv == ClientInv /\ ServersInv
<1>1. Init => Inv
  BY WebInvInit DEF Init
<1>2. Inv /\ [Next]_allVars => Inv' /\ [Spent]_webVars
  BY ClientInvNext, ServersInvNext, SpentNext, StepsOfParts
<1>3. Inv => OneInstanceEach /\ OneBotEach /\ RunningIsWritten
  BY DEF ClientInv, ServersInv
<1> HIDE DEF Inv
<1>4. Spec => [](OneInstanceEach /\ OneBotEach /\ RunningIsWritten)
  BY <1>1, <1>2, <1>3, PTL DEF Spec
<1>5. Spec => [][Spent]_webVars
  BY <1>1, <1>2, PTL DEF Spec
<1> QED
  BY <1>4, <1>5 DEF BotsAdded, SpentWhenWritten, Spent

-----------------------------------------------------------------------------
(* Cached activities and results *)

Records == [item : Items, of : Workers \cup {None}]

\* What each step of a handling has at hand.
HoldsWhatItNeeds(x) ==
    \/ x = Idle
    \/ /\ x.on \in Activities /\ x.item \in Items
       /\ \/ x.pc = "ready" /\ x.target = None
          \/ x.pc = "store" /\ x.target \in Activities
          \/ /\ x.pc \in {"fetched", "approving"} /\ x.on = "com" /\ x.target = "sub" /\ x.parent \in Items
             /\ "approveParent" \in Kinds \/ (x.pc = "fetched" /\ x.next = "test")
          \/ x.pc = "reason" /\ x.target = x.on /\ x.kind = "remove" /\ x.kind \in Kinds
          \/ /\ x.pc = "reset" /\ x.kind = "approveParent" /\ x.kind \in Kinds
             /\ x.on = "com" /\ x.target = "sub" /\ x.parent \in Items
          \/ x.pc = "reset" /\ x.kind \in Kinds \ {"approveParent"} /\ x.target = x.on

WorkersTyped ==
    /\ worker \in [Workers -> Worker]
    /\ \A w \in Workers : HoldsWhatItNeeds(worker[w])
    /\ \A v, w \in Workers :
          worker[v].pc # "idle" /\ worker[w].pc # "idle" /\ worker[v].on = worker[w].on => v = w

ItemsTyped ==
    /\ WorkersTyped
    /\ reddit \in [Activities -> Items]
    /\ acts \in [Activities -> Nat] /\ others \in [Activities -> Nat]
    /\ cached \in [Activities -> {None} \cup Records]
    /\ crit \in [Activities -> Nat \cup {None}]
    /\ recent \in [Activities -> {None} \cup [reports : Nat, others : Nat]]
    /\ missed \subseteq Activities

\* The workers between the call of Reddit and the reset.
Acts(x, a) == x.pc \in {"reset", "reason"} /\ x.target = a

Acting(a) == {w \in Workers : Acts(worker[w], a)}

\* Everything that is kept of a reflects all actions of the bot on it.
UpToDate(a) ==
    /\ crit[a] # None => crit[a] = acts[a]
    /\ cached[a] # None => cached[a].item.acts = acts[a]
    /\ \A w \in Workers :
          /\ worker[w].pc # "idle" /\ worker[w].on = a => worker[w].item.acts = acts[a]
          /\ worker[w].pc = "store" /\ worker[w].target = a => worker[w].result = acts[a]
          /\ worker[w].pc \in {"fetched", "approving"} /\ worker[w].target = a => worker[w].parent.acts = acts[a]

\* The object of the one that acts lacks that action, unless it was marked.
LacksOne(x, a) ==
    acts[a] = IF x.kind = "approveParent" THEN x.parent.acts + 1
              ELSE IF x.kind = "remove" /\ x.pc = "reset" THEN x.item.acts
              ELSE x.item.acts + 1

FollowsActions ==
    \A a \in Activities \ missed :
        /\ Acting(a) = {} => UpToDate(a)
        /\ \A w \in Workers : Acting(a) = {w} => LacksOne(worker[w], a)

\* Reports of the bot itself, as i has them, are those that Reddit has.
OwnReportsKnown(i, a) == i.reports + others[a] = reddit[a].reports + i.others

Reporting(x, a) == x.pc = "reset" /\ x.kind = "report" /\ x.on = a

OwnReportsInv ==
    \A a \in Activities :
        /\ \A w \in Workers : worker[w].pc # "idle" /\ worker[w].on = a =>
              IF Reporting(worker[w], a)
              THEN worker[w].item.reports + 1 + others[a] = reddit[a].reports + worker[w].item.others
              ELSE OwnReportsKnown(worker[w].item, a)
        /\ recent[a] # None /\ (\A w \in Workers : ~Reporting(worker[w], a)) => OwnReportsKnown(recent[a], a)

ItemsInv == ItemsTyped /\ FollowsActions /\ OwnReportsInv

-----------------------------------------------------------------------------

LEMMA TypedItems == ItemsTyped => ItemTypeOK
<1> SUFFICES ASSUME ItemsTyped, NEW a \in Activities
             PROVE  /\ cached[a] # None => cached[a].item \in Items /\ cached[a].of \in Workers \cup {None}
                    /\ recent[a] # None => recent[a] \in [reports : Nat, others : Nat]
  BY DEF ItemsTyped, WorkersTyped, ItemTypeOK
<1>1. cached[a] \in {None} \cup Records /\ recent[a] \in {None} \cup [reports : Nat, others : Nat]
  BY DEF ItemsTyped
<1> QED
  BY <1>1 DEF Records

\* What is done to an item, by Reddit and by hand.
LEMMA ItemChanges ==
    ASSUME NEW i \in Items, NEW k \in Kinds
    PROVE  /\ OnReddit(k, i) \in Items /\ Locally(k, i) \in Items
           /\ OnReddit(k, i).others = i.others /\ Locally(k, i).others = i.others
           /\ OnReddit(k, i).reports = (IF k = "report" THEN i.reports + 1 ELSE i.reports)
           /\ Locally(k, i).reports = (IF k = "report" THEN i.reports + 1 ELSE i.reports)
           /\ Locally(k, i).acts = i.acts + 1
<1>1. k \in {"lock", "remove", "approve", "approveParent", "report", "flair"}
  BY ItemCacheAssumption
<1>2. /\ OnReddit(k, i) \in Items /\ OnReddit(k, i).others = i.others
      /\ OnReddit(k, i).reports = IF k = "report" THEN i.reports + 1 ELSE i.reports
  <2>1. CASE k = "lock"
    <3>1. OnReddit(k, i) = [i EXCEPT !.locked = TRUE]
      BY <2>1 DEF OnReddit
    <3> QED
      BY <2>1, <3>1 DEF Items
  <2>2. CASE k = "remove"
    <3>1. OnReddit(k, i) = [i EXCEPT !.removed = TRUE, !.approved = FALSE]
      BY <2>2 DEF OnReddit
    <3> QED
      BY <2>2, <3>1 DEF Items
  <2>3. CASE k \in {"approve", "approveParent"}
    <3>1. OnReddit(k, i) = [i EXCEPT !.approved = TRUE, !.removed = FALSE]
      BY <2>3 DEF OnReddit
    <3> QED
      BY <2>3, <3>1 DEF Items
  <2>4. CASE k = "report"
    <3>1. OnReddit(k, i) = [i EXCEPT !.reports = @ + 1]
      BY <2>4 DEF OnReddit
    <3> QED
      BY <2>4, <3>1 DEF Items
  <2>5. CASE k = "flair"
    <3>1. OnReddit(k, i) = [i EXCEPT !.flaired = TRUE]
      BY <2>5 DEF OnReddit
    <3> QED
      BY <2>5, <3>1 DEF Items
  <2> QED
    BY <1>1, <2>1, <2>2, <2>3, <2>4, <2>5
<1>3. PICK j : j = [i EXCEPT !.acts = @ + 1]
  OBVIOUS
<1>4. j \in Items /\ j.others = i.others /\ j.reports = i.reports /\ j.acts = i.acts + 1
  BY <1>3 DEF Items
<1>5. Locally(k, i) = CASE k = "lock" -> [j EXCEPT !.locked = TRUE]
                        [] k = "remove" -> [j EXCEPT !.removed = TRUE]
                        [] k \in {"approve", "approveParent"} -> [j EXCEPT !.approved = TRUE]
                        [] k = "report" -> [j EXCEPT !.reports = @ + 1]
                        [] k = "flair" -> [j EXCEPT !.flaired = TRUE]
  BY <1>3 DEF Locally
<1>6. /\ Locally(k, i) \in Items /\ Locally(k, i).others = i.others /\ Locally(k, i).acts = i.acts + 1
      /\ Locally(k, i).reports = IF k = "report" THEN i.reports + 1 ELSE i.reports
  <2>1. CASE k = "lock"
    <3>1. Locally(k, i) = [j EXCEPT !.locked = TRUE]
      BY <2>1, <1>5
    <3> QED
      BY <1>4, <2>1, <3>1 DEF Items
  <2>2. CASE k = "remove"
    <3>1. Locally(k, i) = [j EXCEPT !.removed = TRUE]
      BY <2>2, <1>5
    <3> QED
      BY <1>4, <2>2, <3>1 DEF Items
  <2>3. CASE k \in {"approve", "approveParent"}
    <3>1. Locally(k, i) = [j EXCEPT !.approved = TRUE]
      BY <2>3, <1>5
    <3> QED
      BY <1>4, <2>3, <3>1 DEF Items
  <2>4. CASE k = "report"
    <3>1. Locally(k, i) = [j EXCEPT !.reports = @ + 1]
      BY <2>4, <1>5
    <3> QED
      BY <1>4, <2>4, <3>1 DEF Items
  <2>5. CASE k = "flair"
    <3>1. Locally(k, i) = [j EXCEPT !.flaired = TRUE]
      BY <2>5, <1>5
    <3> QED
      BY <1>4, <2>5, <3>1 DEF Items
  <2> QED
    BY <1>1, <2>1, <2>2, <2>3, <2>4, <2>5
<1> QED
  BY <1>2, <1>6

LEMMA FetchedIs ==
    ASSUME ItemsTyped, NEW a \in Activities
    PROVE  /\ Fetched(a) \in Items /\ Fetched(a).acts = acts[a] /\ Fetched(a).others = others[a]
           /\ Fetched(a).reports = reddit[a].reports
<1>1. reddit[a] \in Items /\ acts[a] \in Nat /\ others[a] \in Nat
  BY DEF ItemsTyped
<1> QED
  BY <1>1 DEF Fetched, Items

\* Between steps a worker has what its next step needs.
LEMMA WorkerIs ==
    ASSUME WorkersTyped, NEW w \in Workers
    PROVE  /\ worker[w] \in Worker /\ HoldsWhatItNeeds(worker[w])
           /\ worker[w].pc # "idle" => worker[w].on \in Activities /\ worker[w].item \in Items
           /\ worker[w].pc = "idle" => worker[w] = Idle
           /\ worker[w].pc = "ready" => worker[w].target = None
           /\ worker[w].pc = "store" => worker[w].target \in Activities
           /\ worker[w].pc \in {"fetched", "approving"} =>
                 /\ worker[w].on = "com" /\ worker[w].target = "sub" /\ worker[w].parent \in Items
                 /\ "approveParent" \in Kinds \/ (worker[w].pc = "fetched" /\ worker[w].next = "test")
           /\ worker[w].pc = "reason" => worker[w].target = worker[w].on /\ worker[w].kind = "remove"
           /\ worker[w].pc = "reason" => worker[w].kind \in Kinds
           /\ worker[w].pc = "reset" /\ worker[w].kind = "approveParent" => worker[w].kind \in Kinds
           /\ worker[w].pc = "reset" /\ worker[w].kind = "approveParent" =>
                 worker[w].on = "com" /\ worker[w].target = "sub" /\ worker[w].parent \in Items
           /\ worker[w].pc = "reset" /\ worker[w].kind # "approveParent" =>
                 worker[w].target = worker[w].on /\ worker[w].kind \in Kinds
  BY DEF WorkersTyped, HoldsWhatItNeeds, Idle

\* One worker goes on, with an activity that no other handles.
LEMMA OneGoesOn ==
    ASSUME WorkersTyped, NEW w \in Workers, NEW y \in Worker, worker' = [worker EXCEPT ![w] = y],
           HoldsWhatItNeeds(y),
           y.pc # "idle" => \A v \in Workers \ {w} : worker[v].pc # "idle" => worker[v].on # y.on
    PROVE  WorkersTyped' /\ worker'[w] = y /\ \A v \in Workers \ {w} : worker'[v] = worker[v]
<1>1. worker'[w] = y /\ \A v \in Workers \ {w} : worker'[v] = worker[v]
  BY DEF WorkersTyped
<1>2. worker' \in [Workers -> Worker]
  BY DEF WorkersTyped
<1> QED
  BY <1>1, <1>2 DEF WorkersTyped

LEMMA OneGoesOnWithSame ==
    ASSUME WorkersTyped, NEW w \in Workers, NEW y \in Worker, worker' = [worker EXCEPT ![w] = y],
           HoldsWhatItNeeds(y), y.pc # "idle" => worker[w].pc # "idle" /\ y.on = worker[w].on
    PROVE  WorkersTyped' /\ worker'[w] = y /\ \A v \in Workers \ {w} : worker'[v] = worker[v]
  BY OneGoesOn DEF WorkersTyped

\* What is kept of a stays up to date if what changes of it is.
LEMMA StaysUpToDate ==
    ASSUME NEW w \in Workers, NEW y, worker'[w] = y, \A v \in Workers \ {w} : worker'[v] = worker[v],
           NEW a, UpToDate(a), acts'[a] = acts[a],
           crit'[a] # None => crit'[a] = acts[a],
           cached'[a] # None => cached'[a].item.acts = acts[a],
           y.pc # "idle" /\ y.on = a => y.item.acts = acts[a],
           y.pc = "store" /\ y.target = a => y.result = acts[a],
           y.pc \in {"fetched", "approving"} /\ y.target = a => y.parent.acts = acts[a]
    PROVE  UpToDate(a)'
  BY DEF UpToDate

\* Steps that are no part of an action.
LEMMA FollowsUnlessActing ==
    ASSUME FollowsActions, NEW w \in Workers, NEW y,
           worker'[w] = y, \A v \in Workers \ {w} : worker'[v] = worker[v],
           worker[w].pc \notin {"reset", "reason"}, y.pc \notin {"reset", "reason"},
           acts' = acts, missed' = missed, \A a \in Activities \ missed : UpToDate(a) => UpToDate(a)'
    PROVE  FollowsActions'
<1>1. ASSUME NEW a PROVE Acting(a)' = Acting(a)
  BY DEF Acting, Acts
<1>2. ASSUME NEW v \in Workers, NEW a, Acting(a) = {v} PROVE LacksOne(worker[v], a)' <=> LacksOne(worker[v], a)
  <2>1. v # w
    BY <1>2 DEF Acting, Acts
  <2> QED
    BY <2>1 DEF LacksOne
<1> QED
  BY <1>1, <1>2 DEF FollowsActions


\* What was reported by the bot is known as well as before if no item but that
\* of one worker changes, and nothing is reported.
LEMMA ReportsUnlessReporting ==
    ASSUME OwnReportsInv, NEW w \in Workers, NEW y,
           worker'[w] = y, \A v \in Workers \ {w} : worker'[v] = worker[v],
           \A a \in Activities : ~Reporting(worker[w], a) /\ ~Reporting(y, a),
           others' = others, \A a \in Activities : reddit'[a].reports = reddit[a].reports,
           recent' = recent,
           \A a \in Activities : y.pc # "idle" /\ y.on = a => OwnReportsKnown(y.item, a)
    PROVE  OwnReportsInv'
<1> SUFFICES ASSUME NEW a \in Activities
             PROVE  /\ \A v \in Workers : worker'[v].pc # "idle" /\ worker'[v].on = a =>
                          IF Reporting(worker'[v], a)
                          THEN worker'[v].item.reports + 1 + others'[a] = reddit'[a].reports + worker'[v].item.others
                          ELSE OwnReportsKnown(worker[v].item, a)'
                    /\ recent'[a] # None /\ (\A v \in Workers : ~Reporting(worker'[v], a)) => OwnReportsKnown(recent[a], a)'
  BY DEF OwnReportsInv, Reporting
<1>1. \A i : i.reports + others'[a] = reddit'[a].reports + i.others <=> OwnReportsKnown(i, a)
  BY DEF OwnReportsKnown
<1>2. ASSUME NEW v \in Workers, worker'[v].pc # "idle", worker'[v].on = a
      PROVE  IF Reporting(worker'[v], a)
             THEN worker'[v].item.reports + 1 + others'[a] = reddit'[a].reports + worker'[v].item.others
             ELSE OwnReportsKnown(worker[v].item, a)'
  <2>1. CASE v = w
    BY <1>2, <2>1 DEF OwnReportsKnown
  <2>2. CASE v # w
    BY <1>2, <2>2 DEF OwnReportsKnown, OwnReportsInv
  <2> QED
    BY <2>1, <2>2
<1>3. (\A v \in Workers : ~Reporting(worker'[v], a)) => \A v \in Workers : ~Reporting(worker[v], a)
  <2> SUFFICES ASSUME \A v \in Workers : ~Reporting(worker'[v], a), NEW v \in Workers PROVE ~Reporting(worker[v], a)
    OBVIOUS
  <2>1. CASE v = w
    BY <2>1
  <2>2. CASE v # w
    BY <2>2
  <2> QED
    BY <2>1, <2>2
<1> QED
  BY <1>2, <1>3 DEF OwnReportsKnown, OwnReportsInv

-----------------------------------------------------------------------------

LEMMA HandleKeeps == ASSUME ItemsInv, NEW w \in Workers, NEW a \in Activities, Handle(w, a) PROVE ItemsInv'
<1>1. PICK dry \in DryRuns :
         worker' = [worker EXCEPT ![w] = [Idle EXCEPT !.pc = "ready", !.on = a, !.dry = dry, !.item = Fetched(a)]]
  BY DEF Handle
<1>2. PICK y : y = [Idle EXCEPT !.pc = "ready", !.on = a, !.dry = dry, !.item = Fetched(a)]
  OBVIOUS
<1>3. worker[w].pc = "idle" /\ (\A v \in Workers : worker[v].on # a)
      /\ UNCHANGED <<reddit, acts, others, cached, crit, recent, missed>>
  BY DEF Handle
<1>4. /\ y \in Worker /\ y.pc = "ready" /\ y.on = a /\ y.target = None /\ y.item = Fetched(a)
  BY <1>2, FetchedIs, ItemCacheAssumption DEF Idle, Worker, ItemsInv
<1>5. HoldsWhatItNeeds(y)
  BY <1>4, FetchedIs DEF HoldsWhatItNeeds, ItemsInv
<1>6. WorkersTyped' /\ worker'[w] = y /\ \A v \in Workers \ {w} : worker'[v] = worker[v]
  <2>1. worker' = [worker EXCEPT ![w] = y] /\ WorkersTyped
    BY <1>1, <1>2 DEF ItemsInv, ItemsTyped
  <2> QED
    BY <1>3, <1>4, <1>5, <2>1, OneGoesOn
<1>7. \A b \in Activities : UpToDate(b) => UpToDate(b)'
  BY <1>3, <1>4, <1>6, FetchedIs DEF UpToDate, ItemsInv
<1>8. FollowsActions'
  BY <1>3, <1>4, <1>6, <1>7, FollowsUnlessActing DEF ItemsInv
<1>9. OwnReportsKnown(y.item, a)
  BY <1>4, FetchedIs DEF OwnReportsKnown, ItemsInv, ItemsTyped, Items
<1>10. OwnReportsInv'
  BY <1>3, <1>4, <1>6, <1>9, ReportsUnlessReporting DEF Reporting, ItemsInv
<1> QED
  BY <1>3, <1>6, <1>8, <1>10 DEF ItemsInv, ItemsTyped


\* A worker goes on with its activity, and no action is begun or ended.
LEMMA GoesOn ==
    ASSUME ItemsInv, NEW w \in Workers, NEW y \in Worker, worker' = [worker EXCEPT ![w] = y], HoldsWhatItNeeds(y),
           y.on = worker[w].on, y.item = worker[w].item,
           worker[w].pc \notin {"idle", "reset", "reason"}, y.pc \notin {"idle", "reset", "reason"},
           UNCHANGED <<reddit, acts, others, recent, missed>>,
           cached' \in [Activities -> {None} \cup Records], crit' \in [Activities -> Nat \cup {None}],
           \A a \in Activities : UpToDate(a) =>
              /\ crit'[a] # None => crit'[a] = acts[a]
              /\ cached'[a] # None => cached'[a].item.acts = acts[a]
              /\ y.pc = "store" /\ y.target = a => y.result = acts[a]
              /\ y.pc \in {"fetched", "approving"} /\ y.target = a => y.parent.acts = acts[a]
    PROVE  ItemsInv'
<1>1. WorkersTyped' /\ worker'[w] = y /\ \A v \in Workers \ {w} : worker'[v] = worker[v]
  BY OneGoesOnWithSame DEF ItemsInv, ItemsTyped
<1>2. ASSUME NEW a \in Activities, UpToDate(a) PROVE UpToDate(a)'
  <2>1. y.on = a => y.item.acts = acts[a]
    BY <1>2 DEF UpToDate
  <2> QED
    BY <1>1, <1>2, <2>1, StaysUpToDate
<1>3. FollowsActions'
  BY <1>1, <1>2, FollowsUnlessActing DEF ItemsInv
<1>4. \A a \in Activities : y.on = a => OwnReportsKnown(y.item, a)
  BY DEF ItemsInv, OwnReportsInv, Reporting
<1>5. OwnReportsInv'
  BY <1>1, <1>4, ReportsUnlessReporting DEF Reporting, ItemsInv
<1> QED
  BY <1>1, <1>3, <1>5 DEF ItemsInv, ItemsTyped

LEMMA HandledKeeps == ASSUME ItemsInv, NEW w \in Workers, Handled(w) PROVE ItemsInv'
<1>1. /\ worker[w].pc = "ready" /\ worker' = [worker EXCEPT ![w] = Idle]
      /\ cached' = [a \in Activities |->
                       IF cached[a] # None /\ cached[a].of = w THEN [cached[a] EXCEPT !.of = None] ELSE cached[a]]
      /\ UNCHANGED <<reddit, acts, others, crit, recent, missed>>
  BY DEF Handled
<1>2. Idle \in Worker /\ HoldsWhatItNeeds(Idle) /\ Idle.pc = "idle"
  BY DEF Idle, Worker, HoldsWhatItNeeds
<1>3. WorkersTyped' /\ worker'[w] = Idle /\ \A v \in Workers \ {w} : worker'[v] = worker[v]
  BY <1>1, <1>2, OneGoesOnWithSame DEF ItemsInv, ItemsTyped
<1>4. ASSUME NEW a \in Activities
      PROVE  /\ cached'[a] \in {None} \cup Records
             /\ cached'[a] # None => cached[a] # None /\ cached'[a].item = cached[a].item
  <2>1. cached[a] \in {None} \cup Records
    BY DEF ItemsInv, ItemsTyped
  <2>2. CASE cached[a] # None /\ cached[a].of = w
    BY <1>1, <2>1, <2>2 DEF Records
  <2>3. CASE ~(cached[a] # None /\ cached[a].of = w)
    BY <1>1, <2>1, <2>3
  <2> QED
    BY <2>2, <2>3
<1>5. cached' \in [Activities -> {None} \cup Records]
  BY <1>1, <1>4
<1>6. \A a \in Activities : UpToDate(a) => UpToDate(a)'
  BY <1>1, <1>2, <1>3, <1>4 DEF UpToDate
<1>7. FollowsActions'
  BY <1>1, <1>2, <1>3, <1>6, FollowsUnlessActing DEF ItemsInv
<1>8. OwnReportsInv'
  BY <1>1, <1>2, <1>3, ReportsUnlessReporting DEF Reporting, ItemsInv
<1> QED
  BY <1>1, <1>3, <1>5, <1>7, <1>8 DEF ItemsInv, ItemsTyped

\* A result for an object that is up to date is.
LEMMA ResultIs ==
    ASSUME ItemsTyped, NEW a \in Activities, NEW i \in Items
    PROVE  Result(a, i) \in Nat /\ (UpToDate(a) /\ i.acts = acts[a] => Result(a, i) = acts[a])
<1>1. crit[a] \in Nat \cup {None} /\ i.acts \in Nat
  BY DEF ItemsTyped, Items
<1> QED
  BY <1>1 DEF Result, UpToDate

LEMMA TestKeeps == ASSUME ItemsInv, NEW w \in Workers, TestItemCriteria(w) PROVE ItemsInv'
<1>1. PICK x : x = worker[w]
  OBVIOUS
<1>2. PICK y : y = [x EXCEPT !.pc = "store", !.target = x.on, !.result = Result(x.on, x.item)]
  OBVIOUS
<1>3. /\ x.pc = "ready" /\ worker' = [worker EXCEPT ![w] = y]
      /\ UNCHANGED <<reddit, acts, others, cached, crit, recent, missed>>
  BY <1>1, <1>2 DEF TestItemCriteria, ItemsInv, ItemsTyped, WorkersTyped
<1>4. x \in Worker /\ x.on \in Activities /\ x.item \in Items
  BY <1>1, <1>3, WorkerIs DEF ItemsInv, ItemsTyped
<1>5. Result(x.on, x.item) \in Nat
  BY <1>4, ResultIs DEF ItemsInv
<1>6. /\ y \in Worker /\ y.pc = "store" /\ y.target = x.on /\ y.result = Result(x.on, x.item)
      /\ y.on = x.on /\ y.item = x.item
  BY <1>2, <1>4, <1>5 DEF Worker
<1>7. HoldsWhatItNeeds(y)
  BY <1>4, <1>6 DEF HoldsWhatItNeeds
<1>8. \A a \in Activities : UpToDate(a) /\ x.on = a => y.result = acts[a]
  BY <1>1, <1>3, <1>4, <1>6, ResultIs DEF UpToDate, ItemsInv
<1>9. \A a \in Activities : UpToDate(a) =>
         (crit[a] # None => crit[a] = acts[a]) /\ (cached[a] # None => cached[a].item.acts = acts[a])
  BY DEF UpToDate
<1> QED
  BY <1>1, <1>3, <1>6, <1>7, <1>8, <1>9, GoesOn DEF ItemsInv, ItemsTyped

\* With the submission at hand a worker goes on to test or approve it.
LEMMA WithSubmissionKeeps ==
    ASSUME ItemsInv, NEW w \in Workers, NEW item \in Items, NEW next, WithSubmission(w, item, next),
           worker[w].pc \in {"ready", "fetched"}, worker[w].on = "com", next = "test" \/ "approveParent" \in Kinds,
           UNCHANGED <<reddit, acts, others, recent, missed, crit>>,
           cached' \in [Activities -> {None} \cup Records],
           \A a \in Activities : UpToDate(a) =>
              /\ cached'[a] # None => cached'[a].item.acts = acts[a]
              /\ a = "sub" => item.acts = acts[a]
    PROVE  ItemsInv'
<1>1. PICK x : x = worker[w]
  OBVIOUS
<1>2. PICK y : y = [x EXCEPT !.pc = IF next = "test" THEN "store" ELSE "approving", !.target = "sub", !.parent = item,
                             !.next = None, !.result = IF next = "test" THEN Result("sub", item) ELSE 0]
  OBVIOUS
<1>3. worker' = [worker EXCEPT ![w] = y]
  BY <1>1, <1>2 DEF WithSubmission, ItemsInv, ItemsTyped, WorkersTyped
<1>4. x \in Worker /\ x.on = "com" /\ x.item \in Items
  BY <1>1, WorkerIs DEF ItemsInv, ItemsTyped
<1>5. Result("sub", item) \in Nat /\ (UpToDate("sub") => Result("sub", item) = acts["sub"])
  BY ResultIs DEF ItemsInv, Activities
<1>6. /\ y \in Worker /\ y.pc = (IF next = "test" THEN "store" ELSE "approving") /\ y.target = "sub" /\ y.parent = item
      /\ y.result = (IF next = "test" THEN Result("sub", item) ELSE 0) /\ y.on = x.on /\ y.item = x.item
  BY <1>2, <1>4, <1>5 DEF Worker, Activities
<1>7. HoldsWhatItNeeds(y)
  BY <1>4, <1>6 DEF HoldsWhatItNeeds, Activities
<1>8. \A a \in Activities : UpToDate(a) =>
         /\ y.pc = "store" /\ y.target = a => y.result = acts[a]
         /\ y.pc \in {"fetched", "approving"} /\ y.target = a => y.parent.acts = acts[a]
         /\ crit'[a] # None => crit'[a] = acts[a]
  BY <1>5, <1>6 DEF UpToDate
<1> QED
  BY <1>1, <1>3, <1>6, <1>7, <1>8, GoesOn DEF ItemsInv, ItemsTyped

LEMMA SubmissionCachedKeeps ==
    ASSUME ItemsInv, NEW w \in Workers, NEW next, next = "test" \/ "approveParent" \in Kinds, SubmissionCached(w, next)
    PROVE  ItemsInv'
<1>1. /\ worker[w].pc = "ready" /\ worker[w].on = "com" /\ cached["sub"] # None
      /\ WithSubmission(w, cached["sub"].item, next)
      /\ UNCHANGED <<reddit, acts, others, cached, crit, recent, missed>>
  BY DEF SubmissionCached
<1>2. cached["sub"].item \in Items /\ "sub" \in Activities
  BY <1>1 DEF ItemsInv, ItemsTyped, Records, Activities
<1>3. \A a \in Activities : UpToDate(a) =>
         (cached'[a] # None => cached'[a].item.acts = acts[a]) /\ (a = "sub" => cached["sub"].item.acts = acts[a])
  BY <1>1 DEF UpToDate
<1>4. cached' \in [Activities -> {None} \cup Records]
  BY <1>1 DEF ItemsInv, ItemsTyped
<1> QED
  BY <1>1, <1>2, <1>3, <1>4, WithSubmissionKeeps

LEMMA FetchSubmissionKeeps ==
    ASSUME ItemsInv, NEW w \in Workers, NEW next \in {"test", "approve"}, next = "test" \/ "approveParent" \in Kinds,
           FetchSubmission(w, next)
    PROVE  ItemsInv'
<1>1. PICK x : x = worker[w]
  OBVIOUS
<1>2. PICK y : y = [x EXCEPT !.pc = "fetched", !.target = "sub", !.parent = Fetched("sub"), !.next = next]
  OBVIOUS
<1>3. /\ x.pc = "ready" /\ x.on = "com" /\ worker' = [worker EXCEPT ![w] = y]
      /\ UNCHANGED <<reddit, acts, others, cached, crit, recent, missed>>
  BY <1>1, <1>2 DEF FetchSubmission, ItemsInv, ItemsTyped, WorkersTyped
<1>4. x \in Worker /\ x.item \in Items /\ "sub" \in Activities /\ "com" \in Activities
  BY <1>1, <1>3, WorkerIs DEF ItemsInv, ItemsTyped, Activities
<1>5. Fetched("sub") \in Items /\ Fetched("sub").acts = acts["sub"]
  BY <1>4, FetchedIs DEF ItemsInv
<1>6. /\ y \in Worker /\ y.pc = "fetched" /\ y.target = "sub" /\ y.parent = Fetched("sub") /\ y.next = next
      /\ y.on = x.on /\ y.item = x.item
  BY <1>2, <1>4, <1>5 DEF Worker
<1>7. HoldsWhatItNeeds(y)
  BY <1>3, <1>4, <1>5, <1>6 DEF HoldsWhatItNeeds
<1>8. \A a \in Activities : UpToDate(a) =>
         (crit[a] # None => crit[a] = acts[a]) /\ (cached[a] # None => cached[a].item.acts = acts[a])
  BY DEF UpToDate
<1> QED
  BY <1>1, <1>3, <1>5, <1>6, <1>7, <1>8, GoesOn DEF ItemsInv, ItemsTyped

LEMMA SetActivityKeeps == ASSUME ItemsInv, NEW w \in Workers, SetActivity(w) PROVE ItemsInv'
<1>1. PICK item : item = worker[w].parent
  OBVIOUS
<1>2. /\ worker[w].pc = "fetched" /\ cached' = [cached EXCEPT !["sub"] = [item |-> item, of |-> None]]
      /\ WithSubmission(w, item, worker[w].next)
      /\ UNCHANGED <<reddit, acts, others, crit, recent, missed>>
  BY <1>1 DEF SetActivity
<1>3. /\ item \in Items /\ worker[w].on = "com" /\ worker[w].target = "sub"
      /\ worker[w].next = "test" \/ "approveParent" \in Kinds
  BY <1>1, <1>2, WorkerIs DEF ItemsInv, ItemsTyped
<1>4. cached' \in [Activities -> {None} \cup Records]
  BY <1>2, <1>3 DEF ItemsInv, ItemsTyped, Records
<1>5. \A a \in Activities : UpToDate(a) => (a = "sub" => item.acts = acts[a])
  BY <1>1, <1>2, <1>3 DEF UpToDate
<1>6. \A a \in Activities : UpToDate(a) => (cached'[a] # None => cached'[a].item.acts = acts[a])
  BY <1>2, <1>5 DEF UpToDate, ItemsInv, ItemsTyped
<1> QED
  BY <1>2, <1>3, <1>4, <1>5, <1>6, WithSubmissionKeeps

LEMMA StoreResultKeeps == ASSUME ItemsInv, NEW w \in Workers, StoreResult(w) PROVE ItemsInv'
<1>1. PICK x : x = worker[w]
  OBVIOUS
<1>2. PICK y : y = [x EXCEPT !.pc = "ready", !.target = None, !.parent = None, !.result = 0]
  OBVIOUS
<1>3. /\ x.pc = "store" /\ worker' = [worker EXCEPT ![w] = y] /\ crit' = [crit EXCEPT ![x.target] = x.result]
      /\ UNCHANGED <<reddit, acts, others, cached, recent, missed>>
  BY <1>1, <1>2 DEF StoreResult, ItemsInv, ItemsTyped, WorkersTyped
<1>4. x \in Worker /\ x.on \in Activities /\ x.item \in Items /\ x.target \in Activities /\ x.result \in Nat
  BY <1>1, <1>3, WorkerIs DEF ItemsInv, ItemsTyped, Worker
<1>5. y \in Worker /\ y.pc = "ready" /\ y.target = None /\ y.on = x.on /\ y.item = x.item
  BY <1>2, <1>4 DEF Worker
<1>6. HoldsWhatItNeeds(y)
  BY <1>4, <1>5 DEF HoldsWhatItNeeds
<1>7. crit' \in [Activities -> Nat \cup {None}]
  BY <1>3, <1>4 DEF ItemsInv, ItemsTyped
<1>8. ASSUME NEW a \in Activities, UpToDate(a)
      PROVE  (crit'[a] # None => crit'[a] = acts[a]) /\ (cached[a] # None => cached[a].item.acts = acts[a])
  <2>1. x.target = a => x.result = acts[a]
    BY <1>1, <1>3, <1>8 DEF UpToDate
  <2> QED
    BY <1>3, <1>8, <2>1 DEF UpToDate, ItemsInv, ItemsTyped
<1> QED
  BY <1>1, <1>3, <1>5, <1>6, <1>7, <1>8, GoesOn DEF ItemsInv, ItemsTyped


-----------------------------------------------------------------------------

\* The call of Reddit changes one activity.
LEMMA TookIs ==
    ASSUME ItemsTyped, NEW w, NEW a \in Activities, NEW k \in Kinds, Took(w, a, k)
    PROVE  /\ reddit' \in [Activities -> Items] /\ acts' \in [Activities -> Nat]
           /\ acts'[a] = acts[a] + 1 /\ reddit'[a] = OnReddit(k, reddit[a])
           /\ reddit'[a].reports = IF k = "report" THEN reddit[a].reports + 1 ELSE reddit[a].reports
           /\ \A b \in Activities \ {a} : acts'[b] = acts[b] /\ reddit'[b] = reddit[b]
<1>1. reddit[a] \in Items /\ reddit \in [Activities -> Items] /\ acts \in [Activities -> Nat]
  BY DEF ItemsTyped
<1>2. OnReddit(k, reddit[a]) \in Items
      /\ OnReddit(k, reddit[a]).reports = IF k = "report" THEN reddit[a].reports + 1 ELSE reddit[a].reports
  BY <1>1, ItemChanges
<1>3. reddit' = [reddit EXCEPT ![a] = OnReddit(k, reddit[a])] /\ acts' = [acts EXCEPT ![a] = acts[a] + 1]
  BY <1>1 DEF Took
<1> QED
  BY <1>1, <1>2, <1>3

\* Whoever calls Reddit when everything is up to date lacks just that action.
LEMMA ActionFollows ==
    ASSUME ItemsInv, NEW w \in Workers, NEW y, worker'[w] = y, \A v \in Workers \ {w} : worker'[v] = worker[v],
           worker[w].pc \in {"ready", "approving"}, y.pc \in {"reset", "reason"},
           y.on = worker[w].on, y.item = worker[w].item,
           NEW k \in Kinds, Took(w, y.target, k), y.target \in Activities, y.kind = k, (y.pc = "reason") = (k = "remove"),
           k # "approveParent" => y.target = y.on,
           k = "approveParent" => worker[w].pc = "approving" /\ worker[w].target = y.target /\ y.parent = worker[w].parent,
           UNCHANGED <<cached, crit, missed>>
    PROVE  FollowsActions'
<1>1. PICK a \in Activities : a = y.target
  OBVIOUS
<1>2. ASSUME NEW b \in Activities, b # a PROVE Acting(b)' = Acting(b) /\ acts'[b] = acts[b]
  <2>1. acts'[b] = acts[b]
    BY <1>1, <1>2, TookIs DEF ItemsInv
  <2>2. ~Acts(worker[w], b) /\ ~Acts(y, b)
    BY <1>1, <1>2 DEF Acts
  <2>3. \A v \in Workers : Acts(worker'[v], b) <=> Acts(worker[v], b)
    BY <2>2
  <2> QED
    BY <2>1, <2>3 DEF Acting, Acts
<1>3. Acting(a)' = Acting(a) \cup {w} /\ acts'[a] = acts[a] + 1
  <2>1. acts'[a] = acts[a] + 1
    BY <1>1, TookIs DEF ItemsInv
  <2>2. Acts(worker'[w], a) /\ \A v \in Workers \ {w} : worker'[v] = worker[v]
    BY <1>1 DEF Acts
  <2> QED
    BY <2>1, <2>2 DEF Acting
<1>4. ASSUME NEW b \in Activities \ missed, b # a, Acting(b) = {} PROVE UpToDate(b)'
  <2>1. UpToDate(b)
    BY <1>4 DEF FollowsActions, ItemsInv
  <2>2. y.on = b => y.item.acts = acts[b]
    BY <2>1 DEF UpToDate
  <2> QED
    BY <1>2, <1>4, <2>1, <2>2, StaysUpToDate DEF UpToDate
<1>5. ASSUME NEW b \in Activities \ missed, b # a, NEW v \in Workers, Acting(b) = {v} PROVE LacksOne(worker[v], b)'
  <2>1. v # w /\ LacksOne(worker[v], b)
    BY <1>5 DEF FollowsActions, Acting, Acts, ItemsInv
  <2> QED
    BY <1>2, <1>5, <2>1 DEF LacksOne
<1>6. ASSUME a \notin missed, NEW v \in Workers, Acting(a)' = {v} PROVE LacksOne(worker[v], a)'
  <2>1. v = w /\ Acting(a) = {}
    BY <1>3, <1>6 DEF Acting, Acts
  <2>2. UpToDate(a)
    BY <1>6, <2>1 DEF FollowsActions, ItemsInv
  <2>3. IF k = "approveParent" THEN y.parent.acts = acts[a] ELSE y.item.acts = acts[a]
    BY <1>1, <2>2 DEF UpToDate
  <2> QED
    BY <1>3, <2>1, <2>3 DEF LacksOne
<1> QED
  BY <1>2, <1>3, <1>4, <1>5, <1>6 DEF FollowsActions

LEMMA ActionReports ==
    ASSUME ItemsInv, NEW w \in Workers, NEW y, worker'[w] = y, \A v \in Workers \ {w} : worker'[v] = worker[v],
           worker[w].pc \in {"ready", "approving"}, y.pc \in {"reset", "reason"},
           y.on = worker[w].on, y.item = worker[w].item,
           NEW k \in Kinds, NEW a \in Activities, Took(w, a, k), y.kind = k, k = "remove" => y.pc = "reason",
           k = "report" => y.pc = "reset" /\ a = y.on, UNCHANGED <<others, recent>>
    PROVE  OwnReportsInv'
<1>1. \A b \in Activities : ~Reporting(worker[w], b) /\ (worker[w].on = b => OwnReportsKnown(y.item, b))
  BY DEF OwnReportsInv, Reporting, ItemsInv
<1>2. CASE k # "report"
  <2>1. \A b \in Activities : ~Reporting(y, b) /\ reddit'[b].reports = reddit[b].reports
    BY <1>2, TookIs DEF Reporting, ItemsInv
  <2> QED
    BY <1>1, <2>1, ReportsUnlessReporting DEF ItemsInv
<1>3. CASE k = "report"
  <2>1. reddit'[a].reports = reddit[a].reports + 1 /\ \A b \in Activities \ {a} : reddit'[b] = reddit[b]
    BY <1>3, TookIs DEF ItemsInv
  <2>2. Reporting(y, a) /\ \A b \in Activities \ {a} : ~Reporting(y, b)
    BY <1>3 DEF Reporting
  <2>3. worker[w].on = a /\ \A v \in Workers \ {w} : worker[v].pc # "idle" => worker[v].on # a
    BY <1>3 DEF ItemsInv, ItemsTyped, WorkersTyped
  <2>4. /\ y.item.reports \in Nat /\ y.item.others \in Nat /\ others[a] \in Nat /\ reddit[a].reports \in Nat
    BY <2>3, WorkerIs DEF ItemsInv, ItemsTyped, Items
  <2>5. y.item.reports + 1 + others[a] = reddit'[a].reports + y.item.others
    BY <1>1, <2>1, <2>3, <2>4 DEF OwnReportsKnown
  <2>6. ASSUME NEW b \in Activities, b # a, NEW v \in Workers, worker'[v].pc # "idle", worker'[v].on = b
        PROVE  IF Reporting(worker'[v], b)
               THEN worker'[v].item.reports + 1 + others'[b] = reddit'[b].reports + worker'[v].item.others
               ELSE OwnReportsKnown(worker[v].item, b)'
    <3>1. v # w
      BY <2>3, <2>6
    <3> QED
      BY <2>1, <2>6, <3>1 DEF OwnReportsInv, OwnReportsKnown, ItemsInv
  <2>7. ASSUME NEW b \in Activities, b # a, recent'[b] # None, \A v \in Workers : ~Reporting(worker'[v], b)
        PROVE  OwnReportsKnown(recent[b], b)'
    <3>1. \A v \in Workers : ~Reporting(worker[v], b)
      BY <1>1, <2>7
    <3> QED
      BY <2>1, <2>7, <3>1 DEF OwnReportsInv, OwnReportsKnown, ItemsInv
  <2>8. ASSUME NEW v \in Workers, worker'[v].pc # "idle", worker'[v].on = a PROVE v = w
    BY <2>3, <2>8
  <2> QED
    BY <2>2, <2>5, <2>6, <2>7, <2>8 DEF OwnReportsInv
<1> QED
  BY <1>2, <1>3

LEMMA ActKeeps == ASSUME ItemsInv, NEW w \in Workers, NEW k \in Kinds, Act(w, k) PROVE ItemsInv'
<1>1. PICK x : x = worker[w]
  OBVIOUS
<1>2. PICK y : y = [x EXCEPT !.pc = IF k = "remove" THEN "reason" ELSE "reset", !.target = x.on, !.kind = k]
  OBVIOUS
<1>3. /\ x.pc = "ready" /\ k # "approveParent" /\ worker' = [worker EXCEPT ![w] = y] /\ Took(w, x.on, k)
      /\ UNCHANGED <<others, cached, crit, recent, missed>>
  BY <1>1, <1>2 DEF Act, ItemsInv, ItemsTyped, WorkersTyped
<1>4. x \in Worker /\ x.on \in Activities /\ x.item \in Items
  BY <1>1, <1>3, WorkerIs DEF ItemsInv, ItemsTyped
<1>5. /\ y \in Worker /\ y.pc = (IF k = "remove" THEN "reason" ELSE "reset") /\ y.target = x.on /\ y.kind = k
      /\ y.on = x.on /\ y.item = x.item
  BY <1>2, <1>4 DEF Worker
<1>6. HoldsWhatItNeeds(y)
  BY <1>3, <1>4, <1>5 DEF HoldsWhatItNeeds
<1>7. WorkersTyped' /\ worker'[w] = y /\ \A v \in Workers \ {w} : worker'[v] = worker[v]
  BY <1>1, <1>3, <1>5, <1>6, OneGoesOnWithSame DEF ItemsInv, ItemsTyped
<1>8. FollowsActions'
  BY <1>1, <1>3, <1>4, <1>5, <1>7, ActionFollows
<1>9. OwnReportsInv'
  BY <1>1, <1>3, <1>4, <1>5, <1>7, ActionReports
<1> QED
  BY <1>3, <1>4, <1>7, <1>8, <1>9, TookIs DEF ItemsInv, ItemsTyped

LEMMA ApproveParentKeeps == ASSUME ItemsInv, "approveParent" \in Kinds, NEW w \in Workers, ApproveParent(w) PROVE ItemsInv'
<1>1. PICK x : x = worker[w]
  OBVIOUS
<1>2. x.pc = "approving" /\ UNCHANGED <<others, cached, crit, recent, missed>>
  BY <1>1 DEF ApproveParent
<1>3. /\ x \in Worker /\ x.on \in Activities /\ x.item \in Items /\ x.on = "com" /\ x.target = "sub" /\ x.parent \in Items
      /\ "sub" \in Activities
  BY <1>1, <1>2, WorkerIs DEF ItemsInv, ItemsTyped, Activities
<1>4. CASE Refuses("approveParent", x.parent, "sub") \/ ~CallsReddit(w, "approveParent")
  <2>1. PICK y : y = [x EXCEPT !.pc = "ready", !.target = None, !.parent = None]
    OBVIOUS
  <2>2. worker' = [worker EXCEPT ![w] = y] /\ UNCHANGED <<reddit, acts>>
    BY <1>1, <1>4, <2>1 DEF ApproveParent, ItemsInv, ItemsTyped, WorkersTyped
  <2>3. y \in Worker /\ y.pc = "ready" /\ y.target = None /\ y.on = x.on /\ y.item = x.item
    BY <1>3, <2>1 DEF Worker
  <2>4. HoldsWhatItNeeds(y)
    BY <1>3, <2>3 DEF HoldsWhatItNeeds
  <2>5. \A a \in Activities : UpToDate(a) =>
         (crit[a] # None => crit[a] = acts[a]) /\ (cached[a] # None => cached[a].item.acts = acts[a])
    BY DEF UpToDate
  <2> QED
    BY <1>1, <1>2, <2>2, <2>3, <2>4, <2>5, GoesOn DEF ItemsInv, ItemsTyped
<1>5. CASE ~(Refuses("approveParent", x.parent, "sub") \/ ~CallsReddit(w, "approveParent"))
  <2>1. PICK y : y = [x EXCEPT !.pc = "reset", !.kind = "approveParent"]
    OBVIOUS
  <2>2. worker' = [worker EXCEPT ![w] = y] /\ Took(w, "sub", "approveParent")
    BY <1>1, <1>5, <2>1 DEF ApproveParent, ItemsInv, ItemsTyped, WorkersTyped
  <2>3. /\ y \in Worker /\ y.pc = "reset" /\ y.kind = "approveParent" /\ y.target = x.target /\ y.on = x.on
        /\ y.item = x.item /\ y.parent = x.parent
    BY <1>3, <2>1 DEF Worker
  <2>4. HoldsWhatItNeeds(y)
    BY <1>3, <2>3 DEF HoldsWhatItNeeds
  <2>5. WorkersTyped' /\ worker'[w] = y /\ \A v \in Workers \ {w} : worker'[v] = worker[v]
    BY <1>1, <1>2, <2>2, <2>3, <2>4, OneGoesOnWithSame DEF ItemsInv, ItemsTyped
  <2>6. FollowsActions'
    BY <1>1, <1>2, <1>3, <2>2, <2>3, <2>5, ActionFollows
  <2>7. OwnReportsInv'
    BY <1>1, <1>2, <1>3, <2>2, <2>3, <2>5, ActionReports
  <2> QED
    BY <1>2, <1>3, <2>2, <2>5, <2>6, <2>7, TookIs DEF ItemsInv, ItemsTyped
<1> QED
  BY <1>4, <1>5

-----------------------------------------------------------------------------

\* An action ends: nothing that is kept lacks it, or the activity is marked.
LEMMA ActionEnds ==
    ASSUME ItemsInv, NEW w \in Workers, NEW y, worker'[w] = y, \A v \in Workers \ {w} : worker'[v] = worker[v],
           NEW a \in Activities, Acts(worker[w], a), y.pc = "ready", y.on = worker[w].on,
           y.item = worker[w].item \/ y.on = a, acts' = acts, missed' \subseteq Activities, missed \subseteq missed',
           \A b \in Activities \ {a} : cached'[b] = cached[b] /\ crit'[b] = crit[b],
           Holders(w, a) # {} => a \in missed',
           a \notin missed' /\ LacksOne(worker[w], a) =>
              /\ crit'[a] = None /\ (cached'[a] # None => cached'[a].item.acts = acts[a])
              /\ y.on = a => y.item.acts = acts[a]
    PROVE  FollowsActions'
<1>1. ASSUME NEW b \in Activities, b # a PROVE Acting(b)' = Acting(b)
  <2>1. ~Acts(worker[w], b) /\ ~Acts(y, b)
    BY <1>1 DEF Acts
  <2>2. \A v \in Workers : Acts(worker'[v], b) <=> Acts(worker[v], b)
    BY <2>1
  <2> QED
    BY <2>2 DEF Acting, Acts
<1>2. ASSUME NEW b \in Activities \ missed', b # a, Acting(b) = {} PROVE UpToDate(b)'
  <2>1. UpToDate(b)
    BY <1>2 DEF FollowsActions, ItemsInv
  <2>2. y.on = b => y.item.acts = acts[b]
    BY <1>2, <2>1 DEF UpToDate, Acts
  <2>3. /\ crit'[b] # None => crit'[b] = acts[b]
        /\ cached'[b] # None => cached'[b].item.acts = acts[b]
    BY <1>2, <2>1 DEF UpToDate
  <2> QED
    BY <1>2, <2>1, <2>2, <2>3, StaysUpToDate
<1>3. ASSUME NEW b \in Activities \ missed', b # a, NEW v \in Workers, Acting(b) = {v} PROVE LacksOne(worker[v], b)'
  <2>1. v # w /\ LacksOne(worker[v], b)
    BY <1>3 DEF FollowsActions, Acting, Acts, ItemsInv
  <2> QED
    BY <2>1 DEF LacksOne
<1>4. ASSUME a \notin missed' PROVE Acting(a)' = {} /\ UpToDate(a)'
  <2>1. ASSUME NEW v \in Workers, v # w
        PROVE  /\ worker[v].on # a
               /\ ~(worker[v].target = a /\ worker[v].pc \in {"fetched", "store", "approving", "reset"})
    BY <1>4, <2>1 DEF Holders
  <2>2. ASSUME NEW v \in Workers, v # w PROVE ~Acts(worker[v], a)
    <3>1. worker[v].pc = "reason" => worker[v].target = worker[v].on
      BY WorkerIs DEF ItemsInv, ItemsTyped
    <3> QED
      BY <2>1, <2>2, <3>1 DEF Acts
  <2>3. Acting(a) = {w} /\ Acting(a)' = {}
    BY <2>2 DEF Acting, Acts
  <2>4. LacksOne(worker[w], a)
    BY <1>4, <2>3 DEF FollowsActions, ItemsInv
  <2>5. /\ crit'[a] = None /\ (cached'[a] # None => cached'[a].item.acts = acts[a])
        /\ y.on = a => y.item.acts = acts[a]
    BY <1>4, <2>4
  <2>6. UpToDate(a)'
    BY <2>1, <2>5 DEF UpToDate
  <2> QED
    BY <2>3, <2>6
<1> QED
  BY <1>1, <1>2, <1>3, <1>4 DEF FollowsActions, Acting

LEMMA AddRemovalReasonKeeps == ASSUME ItemsInv, NEW w \in Workers, AddRemovalReason(w) PROVE ItemsInv'
<1>1. PICK x : x = worker[w]
  OBVIOUS
<1>2. PICK a : a = x.on
  OBVIOUS
<1>3. PICK item : item = Locally("remove", x.item)
  OBVIOUS
<1>4. PICK fails \in BOOLEAN :
         /\ worker' = [worker EXCEPT ![w].item = item, ![w].pc = IF fails THEN "ready" ELSE "reset",
                                     ![w].target = IF fails THEN None ELSE a,
                                     ![w].kind = IF fails THEN None ELSE "remove"]
         /\ cached' = IF cached[a] # None /\ cached[a].of = w THEN [cached EXCEPT ![a].item = item] ELSE cached
         /\ missed' = IF fails THEN missed \cup {a} ELSE missed
  BY <1>1, <1>2, <1>3 DEF AddRemovalReason
<1>5. x.pc = "reason" /\ UNCHANGED <<reddit, acts, others, crit, recent>>
  BY <1>1 DEF AddRemovalReason
<1>6. /\ x \in Worker /\ x.item \in Items /\ a \in Activities /\ x.target = a /\ x.kind = "remove" /\ "remove" \in Kinds
  BY <1>1, <1>2, <1>5, WorkerIs DEF ItemsInv, ItemsTyped
<1>7. item \in Items /\ item.others = x.item.others /\ item.reports = x.item.reports /\ item.acts = x.item.acts + 1
  BY <1>3, <1>6, ItemChanges
<1>8. PICK y : y = [x EXCEPT !.item = item, !.pc = IF fails THEN "ready" ELSE "reset",
                             !.target = IF fails THEN None ELSE a, !.kind = IF fails THEN None ELSE "remove"]
  OBVIOUS
<1>9. worker' = [worker EXCEPT ![w] = y]
  BY <1>1, <1>4, <1>8 DEF ItemsInv, ItemsTyped, WorkersTyped
<1>10. /\ y \in Worker /\ y.item = item /\ y.pc = (IF fails THEN "ready" ELSE "reset") /\ y.on = a
       /\ y.target = (IF fails THEN None ELSE a) /\ y.kind = (IF fails THEN None ELSE "remove")
  BY <1>2, <1>6, <1>7, <1>8 DEF Worker
<1>11. HoldsWhatItNeeds(y)
  <2>1. "remove" \in Kinds \ {"approveParent"}
    BY <1>6
  <2> QED
    BY <1>6, <1>7, <1>10, <2>1 DEF HoldsWhatItNeeds
<1>12. WorkersTyped' /\ worker'[w] = y /\ \A v \in Workers \ {w} : worker'[v] = worker[v]
  BY <1>1, <1>2, <1>5, <1>9, <1>10, <1>11, OneGoesOnWithSame DEF ItemsInv, ItemsTyped
<1>13. cached' \in [Activities -> {None} \cup Records] /\ \A b \in Activities \ {a} : cached'[b] = cached[b]
  <2>1. CASE cached[a] # None /\ cached[a].of = w
    <3>1. cached[a] \in Records /\ cached' = [cached EXCEPT ![a] = [cached[a] EXCEPT !.item = item]]
      BY <1>4, <1>6, <2>1 DEF ItemsInv, ItemsTyped
    <3>2. [cached[a] EXCEPT !.item = item] \in Records
      BY <1>7, <3>1 DEF Records
    <3> QED
      BY <3>1, <3>2 DEF ItemsInv, ItemsTyped
  <2>2. CASE ~(cached[a] # None /\ cached[a].of = w)
    BY <1>4, <2>2 DEF ItemsInv, ItemsTyped
  <2> QED
    BY <2>1, <2>2
<1>14. missed \subseteq missed' /\ missed' \subseteq Activities
  BY <1>4, <1>6 DEF ItemsInv, ItemsTyped
<1>15. OwnReportsInv'
  <2>1. \A b \in Activities : ~Reporting(x, b) /\ ~Reporting(y, b)
    BY <1>5, <1>10 DEF Reporting
  <2>2. ASSUME NEW b \in Activities, y.on = b PROVE OwnReportsKnown(y.item, b)
    <3>1. OwnReportsKnown(x.item, b)
      BY <1>1, <1>2, <1>5, <1>10, <2>1, <2>2 DEF OwnReportsInv, ItemsInv
    <3> QED
      BY <1>7, <1>10, <3>1 DEF OwnReportsKnown
  <2>3. recent' = recent /\ others' = others /\ reddit' = reddit
    BY <1>5
  <2> QED
    BY <1>1, <1>12, <2>1, <2>2, <2>3, ReportsUnlessReporting DEF ItemsInv
<1>16. CASE fails
  <2>1. Acts(x, a) /\ y.pc = "ready" /\ a \in missed'
    BY <1>4, <1>5, <1>6, <1>10, <1>16 DEF Acts
  <2>2. FollowsActions'
    BY <1>1, <1>2, <1>5, <1>6, <1>10, <1>12, <1>13, <1>14, <2>1, ActionEnds
  <2> QED
    BY <1>5, <1>12, <1>13, <1>14, <1>15, <2>2 DEF ItemsInv, ItemsTyped
<1>17. CASE ~fails
  <2>1. Acts(x, a) /\ Acts(y, a) /\ (\A b \in Activities \ {a} : ~Acts(x, b) /\ ~Acts(y, b)) /\ missed' = missed
    BY <1>4, <1>5, <1>6, <1>10, <1>17 DEF Acts
  <2>2. ASSUME NEW b \in Activities PROVE Acting(b)' = Acting(b)
    <3>1. \A v \in Workers : Acts(worker'[v], b) <=> Acts(worker[v], b)
      BY <1>1, <1>12, <2>1
    <3> QED
      BY <3>1 DEF Acting, Acts
  <2>3. ASSUME NEW b \in Activities \ missed, Acting(b) = {} PROVE UpToDate(b)'
    <3>1. UpToDate(b) /\ b # a
      BY <1>1, <2>1, <2>3 DEF FollowsActions, ItemsInv, Acting
    <3>2. /\ crit'[b] # None => crit'[b] = acts[b]
          /\ cached'[b] # None => cached'[b].item.acts = acts[b]
          /\ y.on # b /\ y.pc = "reset" /\ acts'[b] = acts[b]
      BY <1>5, <1>10, <1>13, <1>17, <2>3, <3>1 DEF UpToDate
    <3> QED
      BY <1>12, <3>1, <3>2, StaysUpToDate
  <2>4. ASSUME NEW b \in Activities \ missed, NEW v \in Workers, Acting(b) = {v} PROVE LacksOne(worker[v], b)'
    <3>1. LacksOne(worker[v], b)
      BY <2>4 DEF FollowsActions, ItemsInv
    <3>2. CASE v # w
      BY <1>5, <1>12, <3>1, <3>2 DEF LacksOne
    <3>3. CASE v = w
      <4>1. b = a
        BY <1>1, <2>1, <2>4, <3>3 DEF Acting
      <4>2. acts[a] = x.item.acts + 1
        BY <1>1, <1>5, <1>6, <3>1, <3>3, <4>1 DEF LacksOne
      <4> QED
        BY <1>5, <1>7, <1>10, <1>12, <1>17, <3>3, <4>1, <4>2 DEF LacksOne
    <3> QED
      BY <3>2, <3>3
  <2>5. FollowsActions'
    BY <2>1, <2>2, <2>3, <2>4 DEF FollowsActions
  <2> QED
    BY <1>5, <1>12, <1>13, <1>14, <1>15, <2>5 DEF ItemsInv, ItemsTyped
<1> QED
  BY <1>16, <1>17


LEMMA ResetKeeps == ASSUME ItemsInv, NEW w \in Workers, Reset(w) PROVE ItemsInv'
<1>1. PICK x : x = worker[w]
  OBVIOUS
<1>2. PICK a : a = x.on
  OBVIOUS
<1>3. PICK k : k = x.kind
  OBVIOUS
<1>4. PICK item : item = IF k = "remove" THEN x.item ELSE Locally(k, x.item)
  OBVIOUS
<1>5. /\ x.pc = "reset" /\ k # "approveParent" /\ ResetCacheForItem(a, item, w)
      /\ recent' = (IF k # "report" THEN recent ELSE [recent EXCEPT ![a] = RecentSelf(item)])
      /\ worker' = [worker EXCEPT ![w].item = item, ![w].pc = "ready", ![w].target = None, ![w].kind = None]
      /\ missed' = (IF Holders(w, a) # {} THEN missed \cup {a} ELSE missed)
      /\ UNCHANGED <<reddit, acts, others>>
  BY <1>1, <1>2, <1>3, <1>4 DEF Reset
<1>6. x \in Worker /\ x.item \in Items /\ a \in Activities /\ x.target = a /\ k \in Kinds
  BY <1>1, <1>2, <1>3, <1>5, WorkerIs DEF ItemsInv, ItemsTyped
<1>7. /\ item \in Items /\ item.others = x.item.others
      /\ item.reports = (IF k = "report" THEN x.item.reports + 1 ELSE x.item.reports)
      /\ item.acts = (IF k = "remove" THEN x.item.acts ELSE x.item.acts + 1)
  BY <1>4, <1>6, ItemChanges
<1>8. PICK y : y = [x EXCEPT !.item = item, !.pc = "ready", !.target = None, !.kind = None]
  OBVIOUS
<1>9. worker' = [worker EXCEPT ![w] = y]
  BY <1>1, <1>5, <1>8 DEF ItemsInv, ItemsTyped, WorkersTyped
<1>10. y \in Worker /\ y.item = item /\ y.pc = "ready" /\ y.on = a /\ y.target = None
  BY <1>2, <1>6, <1>7, <1>8 DEF Worker
<1>11. HoldsWhatItNeeds(y)
  BY <1>6, <1>7, <1>10 DEF HoldsWhatItNeeds
<1>12. WorkersTyped' /\ worker'[w] = y /\ \A v \in Workers \ {w} : worker'[v] = worker[v]
  BY <1>1, <1>2, <1>5, <1>9, <1>10, <1>11, OneGoesOnWithSame DEF ItemsInv, ItemsTyped
<1>13. crit' = [crit EXCEPT ![a] = None] /\ cached' = [cached EXCEPT ![a] = [item |-> item, of |-> w]]
  BY <1>5 DEF ResetCacheForItem
<1>14. /\ cached' \in [Activities -> {None} \cup Records] /\ crit' \in [Activities -> Nat \cup {None}]
       /\ crit'[a] = None /\ cached'[a].item = item
       /\ \A b \in Activities \ {a} : cached'[b] = cached[b] /\ crit'[b] = crit[b]
  BY <1>6, <1>7, <1>13 DEF ItemsInv, ItemsTyped, Records
<1>15. missed \subseteq missed' /\ missed' \subseteq Activities /\ (Holders(w, a) # {} => a \in missed')
  BY <1>5, <1>6 DEF ItemsInv, ItemsTyped
<1>16. FollowsActions'
  <2>1. Acts(x, a)
    BY <1>5, <1>6 DEF Acts
  <2>2. LacksOne(x, a) => item.acts = acts[a]
    BY <1>3, <1>5, <1>7 DEF LacksOne
  <2> QED
    BY <1>1, <1>2, <1>5, <1>6, <1>10, <1>12, <1>14, <1>15, <2>1, <2>2, ActionEnds
<1>17. CASE k # "report"
  <2>1. \A b \in Activities : ~Reporting(x, b) /\ ~Reporting(y, b)
    BY <1>3, <1>10, <1>17 DEF Reporting
  <2>2. OwnReportsKnown(y.item, a)
    <3>1. OwnReportsKnown(x.item, a)
      BY <1>1, <1>2, <1>5, <1>6, <2>1 DEF OwnReportsInv, ItemsInv
    <3> QED
      BY <1>7, <1>10, <1>17, <3>1 DEF OwnReportsKnown
  <2>3. recent' = recent /\ others' = others /\ reddit' = reddit
    BY <1>5, <1>17
  <2>4. OwnReportsInv'
    BY <1>1, <1>10, <1>12, <2>1, <2>2, <2>3, ReportsUnlessReporting DEF ItemsInv
  <2> QED
    BY <1>5, <1>12, <1>14, <1>15, <1>16, <2>3, <2>4 DEF ItemsInv, ItemsTyped
<1>18. CASE k = "report"
  <2>1. PICK r : r = RecentSelf(item)
    OBVIOUS
  <2>2. recent' = [recent EXCEPT ![a] = r] /\ r.reports = item.reports /\ r.others = item.others
        /\ r \in [reports : Nat, others : Nat]
    BY <1>5, <1>7, <1>18, <2>1 DEF RecentSelf, Items
  <2>3. recent' \in [Activities -> {None} \cup [reports : Nat, others : Nat]] /\ recent'[a] = r
        /\ \A b \in Activities \ {a} : recent'[b] = recent[b]
    BY <1>6, <2>2 DEF ItemsInv, ItemsTyped
  <2>4. x.item.reports + 1 + others[a] = reddit[a].reports + x.item.others
    BY <1>1, <1>2, <1>3, <1>5, <1>6, <1>18 DEF OwnReportsInv, ItemsInv, Reporting
  <2>5. /\ item.reports + others'[a] = reddit'[a].reports + item.others
        /\ r.reports + others'[a] = reddit'[a].reports + r.others
    BY <1>5, <1>7, <1>18, <2>2, <2>4
  <2>6. ASSUME NEW v \in Workers, worker'[v].pc # "idle", worker'[v].on = a PROVE v = w
    BY <1>1, <1>2, <1>5, <1>12, <2>6 DEF ItemsInv, ItemsTyped, WorkersTyped
  <2>7. ASSUME NEW b \in Activities, b # a, NEW v \in Workers, worker'[v].pc # "idle", worker'[v].on = b
        PROVE  IF Reporting(worker'[v], b)
               THEN worker'[v].item.reports + 1 + others'[b] = reddit'[b].reports + worker'[v].item.others
               ELSE OwnReportsKnown(worker[v].item, b)'
    <3>1. v # w
      BY <1>10, <1>12, <2>7
    <3>2. worker'[v] = worker[v] /\ others' = others /\ reddit' = reddit
      BY <1>5, <1>12, <3>1
    <3> QED
      BY <2>7, <3>2 DEF OwnReportsInv, OwnReportsKnown, ItemsInv
  <2>8. ASSUME NEW b \in Activities, b # a, recent'[b] # None, \A v \in Workers : ~Reporting(worker'[v], b)
        PROVE  OwnReportsKnown(recent[b], b)'
    <3>1. \A v \in Workers : ~Reporting(worker[v], b)
      BY <1>1, <1>2, <1>12, <2>8 DEF Reporting
    <3> QED
      BY <1>5, <2>3, <2>8, <3>1 DEF OwnReportsInv, OwnReportsKnown, ItemsInv
  <2>9. ~Reporting(y, a)
    BY <1>10 DEF Reporting
  <2>10. OwnReportsInv'
    <3>1. \A v \in Workers : worker'[v].pc # "idle" /\ worker'[v].on = a =>
              ~Reporting(worker'[v], a) /\ OwnReportsKnown(worker[v].item, a)'
      BY <1>10, <1>12, <2>5, <2>6, <2>9 DEF OwnReportsKnown
    <3>2. OwnReportsKnown(recent[a], a)'
      BY <2>3, <2>5 DEF OwnReportsKnown
    <3> QED
      BY <2>7, <2>8, <3>1, <3>2 DEF OwnReportsInv
  <2> QED
    BY <1>5, <1>12, <1>14, <1>15, <1>16, <2>3, <2>10 DEF ItemsInv, ItemsTyped
<1> QED
  BY <1>17, <1>18

LEMMA ResetParentKeeps == ASSUME ItemsInv, NEW w \in Workers, ResetParent(w) PROVE ItemsInv'
<1>1. PICK x : x = worker[w]
  OBVIOUS
<1>2. PICK item : item = Locally("approveParent", x.parent)
  OBVIOUS
<1>3. /\ x.pc = "reset" /\ x.kind = "approveParent"
      /\ IF cached["sub"] # None THEN ResetCacheForItem("sub", item, None) ELSE UNCHANGED <<cached, crit>>
      /\ missed' = IF Holders(w, "sub") # {} \/ cached["sub"] = None THEN missed \cup {"sub"} ELSE missed
      /\ worker' = [worker EXCEPT ![w].pc = "ready", ![w].target = None, ![w].parent = None, ![w].kind = None]
      /\ UNCHANGED <<reddit, acts, others, recent>>
  BY <1>1, <1>2 DEF ResetParent
<1>4. /\ x \in Worker /\ x.item \in Items /\ x.on = "com" /\ x.target = "sub" /\ x.parent \in Items
      /\ "approveParent" \in Kinds /\ "sub" \in Activities /\ "com" \in Activities
  BY <1>1, <1>3, WorkerIs DEF ItemsInv, ItemsTyped, Activities
<1>5. item \in Items /\ item.acts = x.parent.acts + 1
  BY <1>2, <1>4, ItemChanges
<1>6. PICK y : y = [x EXCEPT !.pc = "ready", !.target = None, !.parent = None, !.kind = None]
  OBVIOUS
<1>7. worker' = [worker EXCEPT ![w] = y]
  BY <1>1, <1>3, <1>6 DEF ItemsInv, ItemsTyped, WorkersTyped
<1>8. y \in Worker /\ y.item = x.item /\ y.pc = "ready" /\ y.on = "com" /\ y.target = None
  BY <1>4, <1>6 DEF Worker
<1>9. HoldsWhatItNeeds(y)
  BY <1>4, <1>8 DEF HoldsWhatItNeeds
<1>10. WorkersTyped' /\ worker'[w] = y /\ \A v \in Workers \ {w} : worker'[v] = worker[v]
  BY <1>1, <1>3, <1>4, <1>7, <1>8, <1>9, OneGoesOnWithSame DEF ItemsInv, ItemsTyped
<1>11. cached["sub"] # None =>
          crit' = [crit EXCEPT !["sub"] = None] /\ cached' = [cached EXCEPT !["sub"] = [item |-> item, of |-> None]]
  BY <1>3 DEF ResetCacheForItem
<1>12. cached["sub"] = None => cached' = cached /\ crit' = crit
  BY <1>3
<1>13. /\ cached' \in [Activities -> {None} \cup Records] /\ crit' \in [Activities -> Nat \cup {None}]
       /\ \A b \in Activities \ {"sub"} : cached'[b] = cached[b] /\ crit'[b] = crit[b]
       /\ cached["sub"] # None => crit'["sub"] = None /\ cached'["sub"].item = item
  BY <1>4, <1>5, <1>11, <1>12 DEF ItemsInv, ItemsTyped, Records
<1>14. /\ missed \subseteq missed' /\ missed' \subseteq Activities
       /\ Holders(w, "sub") # {} \/ cached["sub"] = None => "sub" \in missed'
  BY <1>3, <1>4 DEF ItemsInv, ItemsTyped
<1>15. FollowsActions'
  <2>1. Acts(worker[w], "sub")
    BY <1>1, <1>3, <1>4 DEF Acts
  <2>2. LacksOne(worker[w], "sub") => item.acts = acts["sub"]
    BY <1>1, <1>3, <1>5 DEF LacksOne
  <2>3. "sub" \notin missed' /\ LacksOne(worker[w], "sub") =>
           crit'["sub"] = None /\ (cached'["sub"] # None => cached'["sub"].item.acts = acts["sub"])
    BY <1>13, <1>14, <2>2
  <2>4. y.pc = "ready" /\ y.on = worker[w].on /\ y.on # "sub" /\ y.item = worker[w].item
    BY <1>1, <1>4, <1>8
  <2>5. acts' = acts /\ missed \subseteq missed' /\ missed' \subseteq Activities
    BY <1>3, <1>14
  <2>6. Holders(w, "sub") # {} => "sub" \in missed'
    BY <1>14
  <2>7. \A b \in Activities \ {"sub"} : cached'[b] = cached[b] /\ crit'[b] = crit[b]
    BY <1>13
  <2>8. worker'[w] = y /\ \A v \in Workers \ {w} : worker'[v] = worker[v]
    BY <1>10
  <2>9. "sub" \in Activities
    BY <1>4
  <2> QED
    BY <2>1, <2>3, <2>4, <2>5, <2>6, <2>7, <2>8, <2>9, ActionEnds
<1>16. OwnReportsInv'
  <2>1. \A b \in Activities : ~Reporting(x, b) /\ ~Reporting(y, b)
    BY <1>3, <1>8 DEF Reporting
  <2>2. OwnReportsKnown(y.item, "com")
    BY <1>1, <1>3, <1>4, <1>8, <2>1 DEF OwnReportsInv, ItemsInv
  <2>3. recent' = recent /\ others' = others /\ reddit' = reddit
    BY <1>3
  <2> QED
    BY <1>1, <1>8, <1>10, <2>1, <2>2, <2>3, ReportsUnlessReporting DEF ItemsInv
<1> QED
  BY <1>3, <1>10, <1>13, <1>14, <1>15, <1>16 DEF ItemsInv, ItemsTyped

LEMMA ReportKeeps == ASSUME ItemsInv, NEW a \in Activities, Report(a) PROVE ItemsInv'
<1>1. /\ reddit' = [reddit EXCEPT ![a].reports = @ + 1] /\ others' = [others EXCEPT ![a] = @ + 1]
      /\ UNCHANGED <<acts, cached, crit, recent, worker, missed>>
  BY DEF Report
<1>2. reddit[a] \in Items /\ others[a] \in Nat
  BY DEF ItemsInv, ItemsTyped
<1>3. PICK i : i = [reddit[a] EXCEPT !.reports = @ + 1]
  OBVIOUS
<1>4. i \in Items /\ i.reports = reddit[a].reports + 1 /\ reddit' = [reddit EXCEPT ![a] = i]
  BY <1>1, <1>2, <1>3 DEF Items, ItemsInv, ItemsTyped
<1>5. /\ reddit' \in [Activities -> Items] /\ others' \in [Activities -> Nat]
      /\ reddit'[a].reports = reddit[a].reports + 1 /\ others'[a] = others[a] + 1
      /\ \A b \in Activities \ {a} : reddit'[b] = reddit[b] /\ others'[b] = others[b]
  BY <1>1, <1>2, <1>4 DEF ItemsInv, ItemsTyped
<1>6. ItemsTyped'
  BY <1>1, <1>5 DEF ItemsInv, ItemsTyped, WorkersTyped
<1>7. FollowsActions'
  BY <1>1 DEF ItemsInv, FollowsActions, Acting, Acts, UpToDate, LacksOne
<1>8. ASSUME NEW b \in Activities, NEW i2 \in [reports : Nat, others : Nat] \cup Items, OwnReportsKnown(i2, b)
      PROVE  OwnReportsKnown(i2, b)'
  <2>1. i2.reports \in Nat /\ i2.others \in Nat /\ reddit[b].reports \in Nat /\ others[b] \in Nat
    BY DEF Items, ItemsInv, ItemsTyped
  <2> QED
    BY <1>5, <1>8, <2>1 DEF OwnReportsKnown
<1>9. ASSUME NEW b \in Activities, NEW v \in Workers, worker'[v].pc # "idle", worker'[v].on = b
      PROVE  IF Reporting(worker'[v], b)
             THEN worker'[v].item.reports + 1 + others'[b] = reddit'[b].reports + worker'[v].item.others
             ELSE OwnReportsKnown(worker[v].item, b)'
  <2>1. worker'[v] = worker[v] /\ worker[v].item \in Items
    BY <1>1, <1>9, WorkerIs DEF ItemsInv, ItemsTyped
  <2>2. CASE Reporting(worker[v], b)
    <3>1. worker[v].item.reports + 1 + others[b] = reddit[b].reports + worker[v].item.others
      BY <1>9, <2>1, <2>2 DEF OwnReportsInv, ItemsInv
    <3>2. worker[v].item.reports \in Nat /\ worker[v].item.others \in Nat /\ reddit[b].reports \in Nat /\ others[b] \in Nat
      BY <2>1 DEF Items, ItemsInv, ItemsTyped
    <3> QED
      BY <1>5, <2>1, <2>2, <3>1, <3>2
  <2>3. CASE ~Reporting(worker[v], b)
    <3>1. OwnReportsKnown(worker[v].item, b)
      BY <1>9, <2>1, <2>3 DEF OwnReportsInv, ItemsInv
    <3>2. OwnReportsKnown(worker[v].item, b)'
      <4>1. PICK j : j = worker[v].item
        OBVIOUS
      <4>2. OwnReportsKnown(j, b)' /\ worker'[v].item = j
        BY <1>8, <2>1, <3>1, <4>1
      <4> QED
        BY <4>2 DEF OwnReportsKnown
    <3> QED
      BY <2>1, <2>3, <3>2
  <2> QED
    BY <2>2, <2>3
<1>10. ASSUME NEW b \in Activities, recent'[b] # None, \A v \in Workers : ~Reporting(worker'[v], b)
       PROVE  OwnReportsKnown(recent[b], b)'
  <2>1. PICK j : j = recent[b]
    OBVIOUS
  <2>2. OwnReportsKnown(j, b) /\ j \in [reports : Nat, others : Nat] /\ recent'[b] = j
    BY <1>1, <1>10, <2>1 DEF OwnReportsInv, ItemsInv, ItemsTyped
  <2> QED
    BY <1>8, <2>2 DEF OwnReportsKnown
<1>11. OwnReportsInv'
  BY <1>9, <1>10 DEF OwnReportsInv
<1> QED
  BY <1>6, <1>7, <1>11 DEF ItemsInv

LEMMA ExpireKeeps == ASSUME ItemsInv, NEW a \in Activities, Expire(a) PROVE ItemsInv'
<1>1. UNCHANGED <<reddit, acts, others, worker, missed>>
  BY DEF Expire
<1>2. /\ cached' \in [Activities -> {None} \cup Records] /\ crit' \in [Activities -> Nat \cup {None}]
      /\ recent' \in [Activities -> {None} \cup [reports : Nat, others : Nat]]
      /\ \A b \in Activities : /\ cached'[b] # None => cached'[b] = cached[b]
                               /\ crit'[b] # None => crit'[b] = crit[b]
                               /\ recent'[b] # None => recent'[b] = recent[b]
  BY DEF Expire, ItemsInv, ItemsTyped
<1>3. ItemsTyped'
  BY <1>1, <1>2 DEF ItemsInv, ItemsTyped, WorkersTyped
<1>4. \A b \in Activities : UpToDate(b) => UpToDate(b)'
  BY <1>1, <1>2 DEF UpToDate
<1>5. \A b : Acting(b)' = Acting(b)
  BY <1>1 DEF Acting, Acts
<1>6. \A v, b : LacksOne(worker[v], b)' <=> LacksOne(worker[v], b)
  BY <1>1 DEF LacksOne
<1>7. FollowsActions'
  BY <1>1, <1>4, <1>5, <1>6 DEF ItemsInv, FollowsActions
<1>8. OwnReportsInv'
  BY <1>1, <1>2 DEF ItemsInv, OwnReportsInv, OwnReportsKnown, Reporting
<1> QED
  BY <1>3, <1>7, <1>8 DEF ItemsInv


LEMMA ItemsStay == ASSUME ItemsInv, UNCHANGED itemVars PROVE ItemsInv'
<1>1. UNCHANGED <<reddit, acts, others, cached, crit, recent, worker, missed>>
  BY DEF itemVars
<1>2. ItemsTyped'
  BY <1>1 DEF ItemsInv, ItemsTyped, WorkersTyped
<1>3. \A b : Acting(b)' = Acting(b) /\ (UpToDate(b)' <=> UpToDate(b))
  BY <1>1 DEF Acting, Acts, UpToDate
<1>4. \A v, b : LacksOne(worker[v], b)' <=> LacksOne(worker[v], b)
  BY <1>1 DEF LacksOne
<1>5. FollowsActions'
  BY <1>1, <1>3, <1>4 DEF ItemsInv, FollowsActions
<1>6. OwnReportsInv'
  BY <1>1 DEF ItemsInv, OwnReportsInv, OwnReportsKnown, Reporting
<1> QED
  BY <1>2, <1>5, <1>6 DEF ItemsInv

LEMMA ItemsInvInit == ItemInit => ItemsInv
<1> SUFFICES ASSUME ItemInit PROVE ItemsInv
  OBVIOUS
<1>1. \A w \in Workers : worker[w] = Idle
  BY DEF ItemInit
<1>2. Idle \in Worker /\ HoldsWhatItNeeds(Idle) /\ Idle.pc = "idle"
  BY DEF Idle, Worker, HoldsWhatItNeeds
<1>3. worker \in [Workers -> Worker]
  BY <1>2 DEF ItemInit
<1>4. WorkersTyped
  BY <1>1, <1>2, <1>3 DEF WorkersTyped
<1>5. ItemsTyped
  BY <1>4 DEF ItemsTyped, ItemInit, Items
<1>6. \A a \in Activities : acts[a] = 0 /\ others[a] = 0 /\ cached[a] = None /\ crit[a] = None /\ recent[a] = None
  BY DEF ItemInit
<1>7. FollowsActions
  BY <1>1, <1>2, <1>6 DEF FollowsActions, UpToDate, Acting, Acts
<1>8. OwnReportsInv
  BY <1>1, <1>2, <1>6 DEF OwnReportsInv
<1> QED
  BY <1>5, <1>7, <1>8 DEF ItemsInv

LEMMA ItemsInvNext == ItemsInv /\ [ItemNext]_itemVars => ItemsInv'
<1> SUFFICES ASSUME ItemsInv, [ItemNext]_itemVars PROVE ItemsInv'
  OBVIOUS
<1>1. CASE UNCHANGED itemVars
  BY <1>1, ItemsStay
<1>2. ASSUME NEW w \in Workers, NEW a \in Activities, Handle(w, a) PROVE ItemsInv'
  BY <1>2, HandleKeeps
<1>3. ASSUME NEW w \in Workers,
             Handled(w) \/ TestItemCriteria(w) \/ SetActivity(w) \/ StoreResult(w)
      PROVE  ItemsInv'
  BY <1>3, HandledKeeps, TestKeeps, SetActivityKeeps, StoreResultKeeps
<1>4. ASSUME NEW w \in Workers, NEW next \in {"test"} \cup IF "approveParent" \in Kinds THEN {"approve"} ELSE {},
             SubmissionCached(w, next) \/ FetchSubmission(w, next)
      PROVE  ItemsInv'
  <2>1. next \in {"test", "approve"} /\ (next = "test" \/ "approveParent" \in Kinds)
    BY <1>4
  <2> QED
    BY <1>4, <2>1, SubmissionCachedKeeps, FetchSubmissionKeeps
<1>5. ASSUME NEW w \in Workers, NEW k \in Kinds, Act(w, k) PROVE ItemsInv'
  BY <1>5, ActKeeps
<1>6. ASSUME NEW w \in Workers, ApproveParent(w) PROVE ItemsInv'
  <2>1. worker[w].pc = "approving"
    BY <1>6 DEF ApproveParent
  <2>2. "approveParent" \in Kinds
    BY <2>1, WorkerIs DEF ItemsInv, ItemsTyped
  <2> QED
    BY <1>6, <2>2, ApproveParentKeeps
<1>7. ASSUME NEW w \in Workers, AddRemovalReason(w) \/ Reset(w) \/ ResetParent(w) PROVE ItemsInv'
  BY <1>7, AddRemovalReasonKeeps, ResetKeeps, ResetParentKeeps
<1>8. ASSUME NEW a \in Reported, Report(a) PROVE ItemsInv'
  BY <1>8, ReportKeeps, ItemCacheAssumption DEF Activities
<1>9. ASSUME NEW a \in Activities, Expire(a) PROVE ItemsInv'
  BY <1>9, ExpireKeeps
<1> QED
  BY <1>1, <1>2, <1>3, <1>4, <1>5, <1>6, <1>7, <1>8, <1>9 DEF ItemNext

\* What the invariant says of the caches between actions.
LEMMA ItemsInvIsEnough == ItemsInv => ResultsFollowActions /\ ActivitiesFollowActions /\ SkippedUntilReported
<1> SUFFICES ASSUME ItemsInv PROVE ResultsFollowActions /\ ActivitiesFollowActions /\ SkippedUntilReported
  OBVIOUS
<1>1. \A a : Settled(a) => Acting(a) = {}
  BY DEF Settled, Acting, Acts
<1>2. ResultsFollowActions /\ ActivitiesFollowActions
  BY <1>1 DEF ItemsInv, FollowsActions, UpToDate, ResultsFollowActions, ActivitiesFollowActions
<1>3. ASSUME NEW a \in Activities, recent[a] # None, Settled(a) PROVE HasRecentSelf(a) <=> others[a] = recent[a].others
  <2>1. ASSUME NEW w \in Workers PROVE ~Reporting(worker[w], a)
    <3>1. worker[w].pc = "reset" /\ worker[w].kind = "report" => worker[w].target = worker[w].on
      BY WorkerIs DEF ItemsInv, ItemsTyped
    <3> QED
      BY <1>3, <3>1 DEF Reporting, Settled
  <2>2. recent[a].reports + others[a] = reddit[a].reports + recent[a].others
    BY <1>3, <2>1 DEF ItemsInv, OwnReportsInv, OwnReportsKnown
  <2>3. recent[a].reports \in Nat /\ recent[a].others \in Nat /\ others[a] \in Nat /\ reddit[a].reports \in Nat
    BY <1>3 DEF ItemsInv, ItemsTyped, Items
  <2> QED
    BY <1>3, <2>2, <2>3 DEF HasRecentSelf, SameReports
<1> QED
  BY <1>2, <1>3 DEF SkippedUntilReported

\* The step of a worker that makes a call of Reddit in a dry run is a flair.
DryFlairs(w, a) ==
    worker[w].dry /\ acts'[a] # acts[a] /\ worker'[w].kind # worker[w].kind =>
        reddit'[a] = [reddit[a] EXCEPT !.flaired = TRUE]

LEMMA DryRunStep ==
    ASSUME ItemsInv, [ItemNext]_itemVars, NEW w \in Workers, NEW a \in Activities PROVE DryFlairs(w, a)
<1>1. CASE acts' = acts
  BY <1>1 DEF DryFlairs
<1>2. ASSUME NEW v \in Workers, NEW k \in Kinds, Act(v, k) PROVE DryFlairs(w, a)
  <2>1. PICK x : x = worker[v]
    OBVIOUS
  <2>2. PICK y : y = [x EXCEPT !.pc = IF k = "remove" THEN "reason" ELSE "reset", !.target = x.on, !.kind = k]
    OBVIOUS
  <2>3. /\ x.pc = "ready" /\ worker' = [worker EXCEPT ![v] = y] /\ Took(v, x.on, k) /\ (~x.dry \/ k = "flair")
    BY <1>2, <2>1, <2>2 DEF Act, CallsReddit, ItemsInv, ItemsTyped, WorkersTyped
  <2>4. x.on \in Activities
    BY <2>1, <2>3, WorkerIs DEF ItemsInv, ItemsTyped
  <2>5. CASE w # v
    BY <2>3, <2>5 DEF DryFlairs, ItemsInv, ItemsTyped, WorkersTyped
  <2>6. CASE w = v /\ k = "flair" /\ a = x.on
    <3>1. reddit'[a] = OnReddit(k, reddit[a])
      BY <2>3, <2>4, <2>6, TookIs DEF ItemsInv
    <3>2. OnReddit(k, reddit[a]) = [reddit[a] EXCEPT !.flaired = TRUE]
      BY <2>6 DEF OnReddit
    <3> QED
      BY <3>1, <3>2 DEF DryFlairs
  <2>7. CASE a # x.on
    <3>1. acts'[a] = acts[a]
      BY <2>3, <2>4, <2>7, TookIs DEF ItemsInv
    <3> QED
      BY <3>1 DEF DryFlairs
  <2>8. CASE w = v /\ k # "flair"
    BY <2>1, <2>3, <2>8 DEF DryFlairs
  <2> QED
    BY <2>5, <2>6, <2>7, <2>8
<1>3. ASSUME NEW v \in Workers, ApproveParent(v) PROVE DryFlairs(w, a)
  <2>1. CASE ~CallsReddit(v, "approveParent")
    <3>1. acts' = acts
      BY <1>3, <2>1 DEF ApproveParent
    <3> QED
      BY <1>1, <3>1
  <2>2. CASE CallsReddit(v, "approveParent")
    <3>1. ~worker[v].dry
      BY <2>2 DEF CallsReddit
    <3>2. w # v => worker'[w] = worker[w]
      BY <1>3 DEF ApproveParent, ItemsInv, ItemsTyped, WorkersTyped
    <3> QED
      BY <3>1, <3>2 DEF DryFlairs
  <2> QED
    BY <2>1, <2>2
<1>4. CASE UNCHANGED itemVars
  BY <1>1, <1>4 DEF itemVars
<1>5. ASSUME NEW v \in Workers, NEW b, Handle(v, b) PROVE acts' = acts
  BY <1>5, Zenon DEF Handle
<1>6. ASSUME NEW v \in Workers,
             \/ Handled(v) \/ TestItemCriteria(v) \/ SetActivity(v) \/ StoreResult(v)
             \/ AddRemovalReason(v) \/ Reset(v) \/ ResetParent(v)
      PROVE  acts' = acts
  BY <1>6, Zenon DEF Handled, TestItemCriteria, SetActivity, StoreResult, AddRemovalReason, Reset, ResetParent
<1>7. ASSUME NEW v \in Workers, NEW next, SubmissionCached(v, next) \/ FetchSubmission(v, next) PROVE acts' = acts
  BY <1>7 DEF SubmissionCached, FetchSubmission
<1>8. ASSUME NEW b, Report(b) \/ Expire(b) PROVE acts' = acts
  BY <1>8 DEF Report, Expire
<1> QED
  BY <1>1, <1>2, <1>3, <1>4, <1>5, <1>6, <1>7, <1>8 DEF ItemNext

-----------------------------------------------------------------------------
(* Contributors, mod notes and flairs *)

Goals == [does : {"test"}] \cup [does : {"note"}, label : Labels, on : Posts]

\* What workers await, with what they know.
Awaited ==
    {Free}
    \cup [op : {"members"}, about : {"isContributor"}, value : BOOLEAN, goal : {"test", "add", "remove"}]
    \cup [op : {"add", "remove"}, about : {"isContributor"}]
    \cup [op : {"membersCache"}, about : {"isContributor"}, value : BOOLEAN]
    \cup [op : {"notes"}, about : {"modActions"}, value : Seq(Notes), goal : Goals]
    \cup [op : {"note", "notesCache"}, about : {"modActions"}, value : Notes]
    \cup [op : {"flairCache"}, about : {"flairText"}]
    \cup [op : {"store"}, about : {"isContributor"}, value : BOOLEAN]
    \cup [op : {"store"}, about : {"modActions"}, value : Seq(Notes)]
    \cup [op : {"store"}, about : {"flairText"}, value : Nat]

AuthorsTyped == AuthorTypeOK /\ busy \in [Workers -> Awaited]

Nobody(op) == \A w \in Workers : busy[w].op # op

\* What is read of contributors is true until it is used; the list that is cached
\* is, unless a change is still to be put into it.
MembersFollow ==
    /\ cachedMembers # None /\ Nobody("membersCache") => cachedMembers = member
    /\ \A w \in Workers : busy[w].op \in {"members", "membersCache"} => busy[w].value = member

\* The same of mod notes: the list that is cached may lack the newest.
NotesFollow ==
    /\ cachedNotes # None /\ Nobody("notesCache") => cachedNotes = notes
    /\ \A w \in Workers :
          /\ busy[w].op = "notes" => busy[w].value = notes
          /\ busy[w].op = "notesCache" /\ cachedNotes # None => <<busy[w].value>> \o cachedNotes = notes
          /\ busy[w].op = "note" /\ busy[w].value.checked /\ Nobody("notesCache") =>
                ExistingNoteCheck(notes, busy[w].value.label, busy[w].value.on)
    /\ NoModNoteTwiceInARow

\* And of the flair: a result from before a change goes when the change is done.
FlairFollows ==
    Nobody("flairCache") =>
        /\ authorCrit["flairText"] # None => authorCrit["flairText"] = <<flair>>
        /\ \A w \in Workers : busy[w].op = "store" /\ busy[w].about = "flairText" => busy[w].value = flair

AuthorsInv ==
    /\ AuthorsTyped
    /\ "isContributor" \notin spoiled => MembersFollow
    /\ "modActions" \notin spoiled => NotesFollow
    /\ "flairText" \notin spoiled => FlairFollows


-----------------------------------------------------------------------------

LEMMA AwaitedIs ==
    ASSUME NEW x \in Awaited
    PROVE  /\ x.op \in {"members", "membersCache"} => x.value \in BOOLEAN
           /\ x.op = "members" => x.goal \in {"test", "add", "remove"}
           /\ x.op \in {"members", "membersCache", "add", "remove"} => x.about = "isContributor"
           /\ x.op = "notes" => x.value \in Seq(Notes) /\ x.goal \in Goals
           /\ x.op \in {"note", "notesCache"} => x.value \in Notes
           /\ x.op \in {"notes", "note", "notesCache"} => x.about = "modActions"
           /\ x.op = "flairCache" => x.about = "flairText"
           /\ x.op = "store" => x.about \in CritKinds
           /\ x.op = "store" /\ x.about = "flairText" => x.value \in Nat
  BY DEF Awaited, Free, CritKinds

LEMMA AwaitedAre ==
    /\ Free \in Awaited
    /\ \A b \in BOOLEAN :
          /\ [op |-> "store", about |-> "isContributor", value |-> b] \in Awaited
          /\ [op |-> "membersCache", about |-> "isContributor", value |-> b] \in Awaited
          /\ \A g \in {"test", "add", "remove"} :
                [op |-> "members", about |-> "isContributor", value |-> b, goal |-> g] \in Awaited
    /\ \A o \in {"add", "remove"} : [op |-> o, about |-> "isContributor"] \in Awaited
    /\ \A s \in Seq(Notes) :
          /\ [op |-> "store", about |-> "modActions", value |-> s] \in Awaited
          /\ \A g \in Goals : [op |-> "notes", about |-> "modActions", value |-> s, goal |-> g] \in Awaited
    /\ \A n \in Notes, o \in {"note", "notesCache"} : [op |-> o, about |-> "modActions", value |-> n] \in Awaited
    /\ [op |-> "flairCache", about |-> "flairText"] \in Awaited
    /\ \A n \in Nat : [op |-> "store", about |-> "flairText", value |-> n] \in Awaited
  BY DEF Awaited

\* One worker goes on.
LEMMA AwaitsNext ==
    ASSUME busy \in [Workers -> Awaited], NEW w \in Workers, NEW op \in Awaited, Becomes(w, op)
    PROVE  busy' \in [Workers -> Awaited] /\ busy'[w] = op /\ \A v \in Workers \ {w} : busy'[v] = busy[v]
  BY DEF Becomes

\* What was known stays true while a worker is about something else.
LEMMA MembersStay ==
    ASSUME MembersFollow, NEW w \in Workers, \A v \in Workers \ {w} : busy'[v] = busy[v],
           busy[w].op # "membersCache", busy'[w].op \notin {"members", "membersCache"},
           member' = member, cachedMembers' \in {cachedMembers, None}
    PROVE  MembersFollow'
  BY DEF MembersFollow, Nobody

LEMMA NotesStay ==
    ASSUME NotesFollow, NEW w \in Workers, \A v \in Workers \ {w} : busy'[v] = busy[v],
           busy[w].op # "notesCache", busy'[w].op \notin {"notes", "note", "notesCache"},
           notes' = notes, cachedNotes' \in {cachedNotes, None}, spoiled \subseteq spoiled'
    PROVE  NotesFollow'
<1>1. Nobody("notesCache")' => Nobody("notesCache")
  BY DEF Nobody
<1>2. \A v \in Workers : busy'[v].op \in {"notes", "note", "notesCache"} => v # w /\ busy'[v] = busy[v]
  OBVIOUS
<1>3. NoModNoteTwiceInARow'
  BY DEF NotesFollow, NoModNoteTwiceInARow
<1>4. cachedNotes' # None => cachedNotes' = cachedNotes
  OBVIOUS
<1>5. ASSUME NEW v \in Workers
      PROVE  /\ busy'[v].op = "notes" => busy'[v].value = notes
             /\ busy'[v].op = "notesCache" /\ cachedNotes' # None => <<busy'[v].value>> \o cachedNotes' = notes
             /\ busy'[v].op = "note" /\ busy'[v].value.checked /\ Nobody("notesCache")' =>
                   ExistingNoteCheck(notes, busy'[v].value.label, busy'[v].value.on)
  <2>1. CASE busy'[v].op \in {"notes", "note", "notesCache"}
    BY <1>1, <1>2, <1>4, <2>1 DEF NotesFollow
  <2> QED
    BY <2>1
<1> QED
  BY <1>1, <1>3, <1>4, <1>5 DEF NotesFollow, ExistingNoteCheck

LEMMA FlairStays ==
    ASSUME FlairFollows, NEW w \in Workers, \A v \in Workers \ {w} : busy'[v] = busy[v],
           busy[w].op # "flairCache", ~(busy'[w].op = "store" /\ busy'[w].about = "flairText"),
           flair' = flair, authorCrit'["flairText"] \in {authorCrit["flairText"], None}
    PROVE  FlairFollows'
<1>1. Nobody("flairCache")' => Nobody("flairCache")
  BY DEF Nobody
<1> QED
  BY <1>1 DEF FlairFollows

\* Nobody else is about data whose cache a writer does not spoil.
LEMMA NobodyElse ==
    ASSUME NEW w \in Workers, NEW k, Spoil(w, k)
    PROVE  /\ spoiled \subseteq spoiled' /\ (\A j : j # k => (j \in spoiled' <=> j \in spoiled))
           /\ k \notin spoiled' => \A v \in Workers \ {w} : busy[v].op # "free" => busy[v].about # k
  BY DEF Spoil, Overlapping

LEMMA OnlyReaders ==
    ASSUME NEW w \in Workers, NEW k, SpoilRead(w, k)
    PROVE  /\ spoiled \subseteq spoiled' /\ (\A j : j # k => (j \in spoiled' <=> j \in spoiled))
           /\ k \notin spoiled' => \A v \in Workers \ {w} :
                 busy[v].op \notin {"free", "members", "notes", "store"} => busy[v].about # k
  BY DEF SpoilRead, Overlapping

-----------------------------------------------------------------------------
(* Contributors *)

\* Once a worker knows whether the author is a contributor.
LEMMA WithMembersIs ==
    ASSUME busy \in [Workers -> Awaited], NEW w \in Workers, NEW isMember \in BOOLEAN,
           NEW goal \in {"test", "add", "remove"}, WithMembers(w, isMember, goal)
    PROVE  /\ busy' \in [Workers -> Awaited] /\ \A v \in Workers \ {w} : busy'[v] = busy[v]
           /\ busy'[w].op \in {"free", "store", "add", "remove"}
           /\ busy'[w].op = "store" => busy'[w].about = "isContributor"
<1>1. CASE goal = "test"
  <2>1. PICK x \in Awaited : x = [op |-> "store", about |-> "isContributor", value |-> isMember]
    BY AwaitedAre
  <2>2. Becomes(w, x)
    BY <1>1, <2>1 DEF WithMembers
  <2> QED
    BY <2>1, <2>2, AwaitsNext
<1>2. CASE goal \in {"add", "remove"} /\ isMember = (goal = "add")
  <2>1. Becomes(w, Free)
    BY <1>2 DEF WithMembers
  <2>2. Free.op = "free"
    BY DEF Free
  <2> QED
    BY <2>1, <2>2, AwaitsNext, AwaitedAre
<1>3. CASE goal \in {"add", "remove"} /\ isMember # (goal = "add")
  <2>1. Becomes(w, [op |-> goal, about |-> "isContributor"])
    BY <1>3 DEF WithMembers
  <2> QED
    BY <1>3, <2>1, AwaitsNext, AwaitedAre
<1> QED
  BY <1>1, <1>2, <1>3

\* Steps about contributors leave what is known of notes and flairs.
LEMMA OfMembersOnly ==
    ASSUME AuthorsInv, NEW w \in Workers, busy' \in [Workers -> Awaited],
           \A v \in Workers \ {w} : busy'[v] = busy[v],
           busy[w].op \in {"free", "members", "add", "remove", "membersCache"},
           busy'[w].op \in {"free", "store", "members", "add", "remove", "membersCache"},
           busy'[w].op = "store" => busy'[w].about = "isContributor",
           member' \in BOOLEAN, cachedMembers' \in BOOLEAN \cup {None},
           UNCHANGED <<notes, flair, cachedNotes, authorCrit>>,
           spoiled \subseteq spoiled', \A j : j # "isContributor" => (j \in spoiled' <=> j \in spoiled),
           "isContributor" \notin spoiled' => MembersFollow'
    PROVE  AuthorsInv'
<1>1. AuthorsTyped'
  <2>1. "isContributor" \in CritKinds
    BY DEF CritKinds
  <2> QED
    BY <2>1 DEF AuthorsInv, AuthorsTyped, AuthorTypeOK
<1>2. "modActions" \notin spoiled' => NotesFollow'
  BY NotesStay DEF AuthorsInv
<1>3. "flairText" \notin spoiled' => FlairFollows'
  BY FlairStays DEF AuthorsInv
<1> QED
  BY <1>1, <1>2, <1>3 DEF AuthorsInv

LEMMA GetContributorsKeeps ==
    ASSUME AuthorsInv, NEW w \in Workers, NEW goal \in {"test", "add", "remove"}, GetContributors(w, goal) PROVE AuthorsInv'
<1>1. busy \in [Workers -> Awaited] /\ member \in BOOLEAN /\ cachedMembers \in BOOLEAN \cup {None}
  BY DEF AuthorsInv, AuthorsTyped, AuthorTypeOK
<1>2. busy[w].op = "free" /\ UNCHANGED <<member, notes, flair, cachedMembers, cachedNotes, authorCrit, spoiled>>
  BY DEF GetContributors
<1>3. CASE cachedMembers # None
  <2>1. WithMembers(w, cachedMembers, goal)
    BY <1>3 DEF GetContributors
  <2>2. /\ busy' \in [Workers -> Awaited] /\ \A v \in Workers \ {w} : busy'[v] = busy[v]
        /\ busy'[w].op \in {"free", "store", "add", "remove"}
        /\ busy'[w].op = "store" => busy'[w].about = "isContributor"
    BY <1>1, <1>3, <2>1, WithMembersIs
  <2>3. "isContributor" \notin spoiled' => MembersFollow'
    BY <1>2, <2>2, MembersStay DEF AuthorsInv
  <2> QED
    BY <1>1, <1>2, <2>2, <2>3, OfMembersOnly
<1>4. CASE cachedMembers = None
  <2>1. PICK x \in Awaited : x = [op |-> "members", about |-> "isContributor", value |-> member, goal |-> goal]
    BY <1>1, AwaitedAre
  <2>2. Becomes(w, x)
    BY <1>4, <2>1 DEF GetContributors
  <2>3. busy' \in [Workers -> Awaited] /\ busy'[w] = x /\ \A v \in Workers \ {w} : busy'[v] = busy[v]
    BY <1>1, <2>2, AwaitsNext
  <2>4. "isContributor" \notin spoiled' => MembersFollow'
    BY <1>2, <1>4, <2>1, <2>3 DEF AuthorsInv, MembersFollow
  <2> QED
    BY <1>1, <1>2, <2>1, <2>3, <2>4, OfMembersOnly
<1> QED
  BY <1>3, <1>4

LEMMA ContributorsFetchedKeeps == ASSUME AuthorsInv, NEW w \in Workers, ContributorsFetched(w) PROVE AuthorsInv'
<1>1. /\ busy \in [Workers -> Awaited] /\ member \in BOOLEAN /\ cachedMembers \in BOOLEAN \cup {None}
      /\ busy[w] \in Awaited
  BY DEF AuthorsInv, AuthorsTyped, AuthorTypeOK
<1>2. PICK x \in Awaited : x = busy[w]
  BY <1>1
<1>3. /\ x.op = "members" /\ cachedMembers' = x.value /\ WithMembers(w, x.value, x.goal)
      /\ SpoilRead(w, "isContributor") /\ UNCHANGED <<member, notes, flair, cachedNotes, authorCrit>>
  BY <1>2 DEF ContributorsFetched
<1>4. x.value \in BOOLEAN /\ x.goal \in {"test", "add", "remove"}
  BY <1>3, AwaitedIs
<1>5. /\ busy' \in [Workers -> Awaited] /\ \A v \in Workers \ {w} : busy'[v] = busy[v]
      /\ busy'[w].op \in {"free", "store", "add", "remove"}
      /\ busy'[w].op = "store" => busy'[w].about = "isContributor"
  BY <1>1, <1>3, <1>4, WithMembersIs
<1>6. /\ spoiled \subseteq spoiled' /\ \A j : j # "isContributor" => (j \in spoiled' <=> j \in spoiled)
  BY <1>3, OnlyReaders
<1>7. "isContributor" \notin spoiled' => MembersFollow'
  BY <1>2, <1>3, <1>5, <1>6 DEF AuthorsInv, MembersFollow
<1> QED
  BY <1>1, <1>2, <1>3, <1>4, <1>5, <1>6, <1>7, OfMembersOnly

LEMMA ChangeContributorKeeps == ASSUME AuthorsInv, NEW w \in Workers, ChangeContributor(w) PROVE AuthorsInv'
<1>1. busy \in [Workers -> Awaited] /\ cachedMembers \in BOOLEAN \cup {None}
  BY DEF AuthorsInv, AuthorsTyped, AuthorTypeOK
<1>2. /\ busy[w].op \in {"add", "remove"} /\ member' = (busy[w].op = "add")
      /\ Spoil(w, "isContributor") /\ UNCHANGED <<notes, flair, cachedMembers, cachedNotes, authorCrit>>
  BY DEF ChangeContributor
<1>3. PICK b \in BOOLEAN : b = (busy[w].op = "add")
  OBVIOUS
<1>4. PICK x \in Awaited : x = [op |-> "membersCache", about |-> "isContributor", value |-> b]
  BY AwaitedAre
<1>5. Becomes(w, x)
  BY <1>3, <1>4 DEF ChangeContributor
<1>6. busy' \in [Workers -> Awaited] /\ busy'[w] = x /\ \A v \in Workers \ {w} : busy'[v] = busy[v]
  BY <1>1, <1>5, AwaitsNext
<1>7. /\ spoiled \subseteq spoiled' /\ \A j : j # "isContributor" => (j \in spoiled' <=> j \in spoiled)
      /\ "isContributor" \notin spoiled' =>
            \A v \in Workers \ {w} : busy[v].op # "free" => busy[v].about # "isContributor"
  BY <1>2, NobodyElse
<1>8. "isContributor" \notin spoiled' => MembersFollow'
  <2> SUFFICES ASSUME "isContributor" \notin spoiled' PROVE MembersFollow'
    OBVIOUS
  <2>1. \A v \in Workers \ {w} : busy[v].op \notin {"members", "membersCache"}
    BY <1>1, <1>7, AwaitedIs
  <2> QED
    BY <1>2, <1>3, <1>4, <1>6, <2>1 DEF MembersFollow, Nobody
<1> QED
  BY <1>1, <1>2, <1>4, <1>6, <1>7, <1>8, OfMembersOnly

LEMMA ContributorsCacheUpdatedKeeps ==
    ASSUME AuthorsInv, NEW w \in Workers, ContributorsCacheUpdated(w) PROVE AuthorsInv'
<1>1. busy \in [Workers -> Awaited] /\ cachedMembers \in BOOLEAN \cup {None} /\ member \in BOOLEAN
  BY DEF AuthorsInv, AuthorsTyped, AuthorTypeOK
<1>2. /\ busy[w].op = "membersCache" /\ cachedMembers' = InContributorsCache(busy[w].value) /\ Becomes(w, Free)
      /\ Spoil(w, "isContributor") /\ UNCHANGED <<member, notes, flair, cachedNotes, authorCrit>>
  BY DEF ContributorsCacheUpdated
<1>3. busy[w].value \in BOOLEAN /\ cachedMembers' \in {busy[w].value, None}
  BY <1>1, <1>2, AwaitedIs DEF InContributorsCache
<1>4. busy' \in [Workers -> Awaited] /\ busy'[w] = Free /\ \A v \in Workers \ {w} : busy'[v] = busy[v]
  BY <1>1, <1>2, AwaitsNext, AwaitedAre
<1>5. /\ spoiled \subseteq spoiled' /\ \A j : j # "isContributor" => (j \in spoiled' <=> j \in spoiled)
      /\ "isContributor" \notin spoiled' =>
            \A v \in Workers \ {w} : busy[v].op # "free" => busy[v].about # "isContributor"
  BY <1>2, NobodyElse
<1>6. Free.op = "free"
  BY DEF Free
<1>7. "isContributor" \notin spoiled' => MembersFollow'
  <2> SUFFICES ASSUME "isContributor" \notin spoiled' PROVE MembersFollow'
    OBVIOUS
  <2>1. \A v \in Workers \ {w} : busy[v].op \notin {"members", "membersCache"}
    BY <1>1, <1>5, AwaitedIs
  <2>2. busy[w].value = member
    BY <1>2, <1>5 DEF AuthorsInv, MembersFollow
  <2> QED
    BY <1>2, <1>3, <1>4, <1>6, <2>1, <2>2 DEF MembersFollow, Nobody
<1> QED
  BY <1>1, <1>2, <1>3, <1>4, <1>5, <1>6, <1>7, OfMembersOnly


-----------------------------------------------------------------------------
(* Mod notes *)

\* A note at the head of a list.
LEMMA NoteAtHead ==
    ASSUME NEW s \in Seq(Notes), NEW n \in Notes
    PROVE  /\ <<n>> \o s \in Seq(Notes) /\ Len(<<n>> \o s) = Len(s) + 1 /\ (<<n>> \o s)[1] = n
           /\ \A i \in 1 .. Len(s) : (<<n>> \o s)[i + 1] = s[i]
<1>1. <<n>> \in Seq(Notes) /\ Len(<<n>>) = 1 /\ <<n>>[1] = n
  OBVIOUS
<1>2. \A i \in 1 .. Len(s) + 1 : (<<n>> \o s)[i] = IF i <= 1 THEN <<n>>[i] ELSE s[i - 1]
  BY <1>1
<1> QED
  BY <1>1, <1>2

\* No note repeats the one before it, after one that does not was added.
LEMMA StillNoRepetition ==
    ASSUME notes \in Seq(Notes), NEW n \in Notes, notes' = <<n>> \o notes, spoiled \subseteq spoiled',
           NoModNoteTwiceInARow, "modActions" \notin spoiled' /\ n.checked => ExistingNoteCheck(notes, n.label, n.on)
    PROVE  NoModNoteTwiceInARow'
<1> SUFFICES ASSUME "modActions" \notin spoiled', NEW i \in 1 .. Len(notes') - 1, notes'[i].checked
             PROVE  notes'[i].label # notes'[i + 1].label \/ notes'[i].on # notes'[i + 1].on
  BY DEF NoModNoteTwiceInARow
<1>1. /\ Len(notes') = Len(notes) + 1 /\ notes'[1] = n /\ Len(notes) \in Nat
      /\ \A j \in 1 .. Len(notes) : notes'[j + 1] = notes[j]
  BY NoteAtHead
<1>2. CASE i = 1
  <2>1. notes # <<>> /\ notes'[i + 1] = notes[1]
    BY <1>1, <1>2
  <2> QED
    BY <1>1, <1>2, <2>1 DEF ExistingNoteCheck
<1>3. CASE i # 1
  <2>1. i - 1 \in 1 .. Len(notes) - 1 /\ i - 1 \in 1 .. Len(notes) /\ i \in 1 .. Len(notes)
    BY <1>1, <1>3
  <2>2. notes'[i] = notes[i - 1] /\ notes'[i + 1] = notes[i]
    <3>1. notes'[(i - 1) + 1] = notes[i - 1]
      BY <1>1, <2>1
    <3> QED
      BY <1>1, <2>1, <3>1
  <2>3. notes[i - 1].checked => notes[i - 1].label # notes[(i - 1) + 1].label \/ notes[i - 1].on # notes[(i - 1) + 1].on
    BY <2>1 DEF NoModNoteTwiceInARow
  <2> QED
    BY <2>1, <2>2, <2>3
<1> QED
  BY <1>2, <1>3

\* Once a worker knows the notes of the author.
LEMMA WithNotesIs ==
    ASSUME busy \in [Workers -> Awaited], NEW w \in Workers, NEW s \in Seq(Notes), NEW goal \in Goals, WithNotes(w, s, goal)
    PROVE  /\ busy' \in [Workers -> Awaited] /\ \A v \in Workers \ {w} : busy'[v] = busy[v]
           /\ busy'[w].op \in {"free", "store", "note"}
           /\ busy'[w].op = "store" => busy'[w].about = "modActions"
           /\ busy'[w].op = "note" => ExistingNoteCheck(s, busy'[w].value.label, busy'[w].value.on)
<1>1. CASE goal.does = "test"
  <2>1. PICK x \in Awaited : x = [op |-> "store", about |-> "modActions", value |-> s]
    BY AwaitedAre
  <2>2. Becomes(w, x)
    BY <1>1, <2>1 DEF WithNotes
  <2> QED
    BY <2>1, <2>2, AwaitsNext
<1>2. CASE goal.does # "test"
  <2>1. goal.label \in Labels /\ goal.on \in Posts
    BY <1>2 DEF Goals
  <2>2. PICK n \in Notes : n = [label |-> goal.label, on |-> goal.on, checked |-> TRUE]
    BY <2>1 DEF Notes
  <2>3. CASE ExistingNoteCheck(s, goal.label, goal.on)
    <3>1. PICK x \in Awaited : x = [op |-> "note", about |-> "modActions", value |-> n]
      BY AwaitedAre
    <3>2. Becomes(w, x)
      BY <1>2, <2>2, <2>3, <3>1 DEF WithNotes
    <3>3. x.value.label = goal.label /\ x.value.on = goal.on /\ x.op = "note"
      BY <2>2, <3>1
    <3> QED
      BY <2>3, <3>2, <3>3, AwaitsNext
  <2>4. CASE ~ExistingNoteCheck(s, goal.label, goal.on)
    <3>1. Becomes(w, Free) /\ Free.op = "free"
      BY <1>2, <2>4 DEF WithNotes, Free
    <3> QED
      BY <3>1, AwaitsNext, AwaitedAre
  <2> QED
    BY <2>3, <2>4
<1> QED
  BY <1>1, <1>2

\* Steps about mod notes leave what is known of contributors and flairs.
LEMMA OfNotesOnly ==
    ASSUME AuthorsInv, NEW w \in Workers, busy' \in [Workers -> Awaited],
           \A v \in Workers \ {w} : busy'[v] = busy[v],
           busy[w].op \in {"free", "notes", "note", "notesCache"},
           busy'[w].op \in {"free", "store", "notes", "note", "notesCache"},
           busy'[w].op = "store" => busy'[w].about = "modActions",
           notes' \in Seq(Notes), Len(notes') <= MaxNotes, cachedNotes' # None => cachedNotes' \in Seq(Notes),
           UNCHANGED <<member, flair, cachedMembers, authorCrit>>,
           spoiled \subseteq spoiled', \A j : j # "modActions" => (j \in spoiled' <=> j \in spoiled),
           "modActions" \notin spoiled' => NotesFollow'
    PROVE  AuthorsInv'
<1>1. AuthorsTyped'
  <2>1. "modActions" \in CritKinds
    BY DEF CritKinds
  <2> QED
    BY <2>1 DEF AuthorsInv, AuthorsTyped, AuthorTypeOK
<1>2. "isContributor" \notin spoiled' => MembersFollow'
  BY MembersStay DEF AuthorsInv
<1>3. "flairText" \notin spoiled' => FlairFollows'
  BY FlairStays DEF AuthorsInv
<1> QED
  BY <1>1, <1>2, <1>3 DEF AuthorsInv

\* A worker that is to add a note, or knows the notes, disturbs nobody.
LEMMA NoteIsKnown ==
    ASSUME NotesFollow, NEW w \in Workers, \A v \in Workers \ {w} : busy'[v] = busy[v],
           busy[w].op # "notesCache", busy'[w].op \in {"free", "store", "notes", "note"},
           UNCHANGED <<notes, cachedNotes>>, spoiled \subseteq spoiled',
           busy'[w].op = "notes" => busy'[w].value = notes,
           busy'[w].op = "note" /\ busy'[w].value.checked /\ Nobody("notesCache") =>
                 ExistingNoteCheck(notes, busy'[w].value.label, busy'[w].value.on)
    PROVE  NotesFollow'
<1>1. Nobody("notesCache")' => Nobody("notesCache")
  BY DEF Nobody
<1>2. NoModNoteTwiceInARow'
  BY DEF NotesFollow, NoModNoteTwiceInARow
<1>3. ASSUME NEW v \in Workers
      PROVE  /\ busy'[v].op = "notes" => busy'[v].value = notes
             /\ busy'[v].op = "notesCache" /\ cachedNotes # None => <<busy'[v].value>> \o cachedNotes = notes
             /\ busy'[v].op = "note" /\ busy'[v].value.checked /\ Nobody("notesCache")' =>
                   ExistingNoteCheck(notes, busy'[v].value.label, busy'[v].value.on)
  <2>1. CASE v = w
    BY <1>1, <2>1
  <2>2. CASE v # w
    BY <1>1, <2>2 DEF NotesFollow
  <2> QED
    BY <2>1, <2>2
<1> QED
  BY <1>1, <1>2, <1>3 DEF NotesFollow, ExistingNoteCheck

LEMMA GetAuthorModNotesKeeps ==
    ASSUME AuthorsInv, NEW w \in Workers, NEW goal \in Goals, GetAuthorModNotes(w, goal) PROVE AuthorsInv'
<1>1. /\ busy \in [Workers -> Awaited] /\ notes \in Seq(Notes) /\ Len(notes) <= MaxNotes
      /\ cachedNotes # None => cachedNotes \in Seq(Notes)
  BY DEF AuthorsInv, AuthorsTyped, AuthorTypeOK
<1>2. busy[w].op = "free" /\ UNCHANGED <<member, notes, flair, cachedMembers, cachedNotes, authorCrit, spoiled>>
  BY DEF GetAuthorModNotes
<1>3. CASE cachedNotes # None
  <2>1. WithNotes(w, cachedNotes, goal)
    BY <1>3 DEF GetAuthorModNotes
  <2>2. /\ busy' \in [Workers -> Awaited] /\ \A v \in Workers \ {w} : busy'[v] = busy[v]
        /\ busy'[w].op \in {"free", "store", "note"}
        /\ busy'[w].op = "store" => busy'[w].about = "modActions"
        /\ busy'[w].op = "note" => ExistingNoteCheck(cachedNotes, busy'[w].value.label, busy'[w].value.on)
    BY <1>1, <1>3, <2>1, WithNotesIs
  <2>3. "modActions" \notin spoiled' => NotesFollow'
    <3> SUFFICES ASSUME "modActions" \notin spoiled' PROVE NotesFollow'
      OBVIOUS
    <3>1. NotesFollow /\ (Nobody("notesCache") => cachedNotes = notes)
      BY <1>2, <1>3 DEF AuthorsInv, NotesFollow
    <3> QED
      BY <1>2, <2>2, <3>1, NoteIsKnown
  <2> QED
    BY <1>1, <1>2, <2>2, <2>3, OfNotesOnly
<1>4. CASE cachedNotes = None
  <2>1. PICK x \in Awaited : x = [op |-> "notes", about |-> "modActions", value |-> notes, goal |-> goal]
    BY <1>1, AwaitedAre
  <2>2. Becomes(w, x)
    BY <1>4, <2>1 DEF GetAuthorModNotes
  <2>3. busy' \in [Workers -> Awaited] /\ busy'[w] = x /\ \A v \in Workers \ {w} : busy'[v] = busy[v]
    BY <1>1, <2>2, AwaitsNext
  <2>4. "modActions" \notin spoiled' => NotesFollow'
    BY <1>2, <2>1, <2>3, NoteIsKnown DEF AuthorsInv
  <2> QED
    BY <1>1, <1>2, <2>1, <2>3, <2>4, OfNotesOnly
<1> QED
  BY <1>3, <1>4

LEMMA AddUncheckedKeeps ==
    ASSUME AuthorsInv, NEW w \in Workers, NEW label \in Labels, NEW post \in Posts, AddUnchecked(w, label, post)
    PROVE  AuthorsInv'
<1>1. /\ busy \in [Workers -> Awaited] /\ notes \in Seq(Notes) /\ Len(notes) <= MaxNotes
      /\ cachedNotes # None => cachedNotes \in Seq(Notes)
  BY DEF AuthorsInv, AuthorsTyped, AuthorTypeOK
<1>2. busy[w].op = "free" /\ UNCHANGED <<member, notes, flair, cachedMembers, cachedNotes, authorCrit, spoiled>>
  BY DEF AddUnchecked
<1>3. PICK n \in Notes : n = [label |-> label, on |-> post, checked |-> FALSE]
  BY DEF Notes
<1>4. PICK x \in Awaited : x = [op |-> "note", about |-> "modActions", value |-> n]
  BY AwaitedAre
<1>5. Becomes(w, x)
  BY <1>3, <1>4 DEF AddUnchecked
<1>6. busy' \in [Workers -> Awaited] /\ busy'[w] = x /\ \A v \in Workers \ {w} : busy'[v] = busy[v]
  BY <1>1, <1>5, AwaitsNext
<1>7. x.op = "note" /\ ~x.value.checked
  BY <1>3, <1>4
<1>8. "modActions" \notin spoiled' => NotesFollow'
  BY <1>2, <1>6, <1>7, NoteIsKnown DEF AuthorsInv
<1> QED
  BY <1>1, <1>2, <1>6, <1>7, <1>8, OfNotesOnly

LEMMA NotesFetchedKeeps == ASSUME AuthorsInv, NEW w \in Workers, NotesFetched(w) PROVE AuthorsInv'
<1>1. /\ busy \in [Workers -> Awaited] /\ notes \in Seq(Notes) /\ Len(notes) <= MaxNotes
  BY DEF AuthorsInv, AuthorsTyped, AuthorTypeOK
<1>2. PICK x \in Awaited : x = busy[w]
  BY <1>1
<1>3. /\ x.op = "notes" /\ cachedNotes' = x.value /\ WithNotes(w, x.value, x.goal)
      /\ SpoilRead(w, "modActions") /\ UNCHANGED <<member, notes, flair, cachedMembers, authorCrit>>
  BY <1>2 DEF NotesFetched
<1>4. x.value \in Seq(Notes) /\ x.goal \in Goals
  BY <1>3, AwaitedIs
<1>5. /\ busy' \in [Workers -> Awaited] /\ \A v \in Workers \ {w} : busy'[v] = busy[v]
      /\ busy'[w].op \in {"free", "store", "note"}
      /\ busy'[w].op = "store" => busy'[w].about = "modActions"
      /\ busy'[w].op = "note" => ExistingNoteCheck(x.value, busy'[w].value.label, busy'[w].value.on)
  BY <1>1, <1>3, <1>4, WithNotesIs
<1>6. /\ spoiled \subseteq spoiled' /\ (\A j : j # "modActions" => (j \in spoiled' <=> j \in spoiled))
      /\ "modActions" \notin spoiled' => \A v \in Workers \ {w} :
                 busy[v].op \notin {"free", "members", "notes", "store"} => busy[v].about # "modActions"
  BY <1>3, OnlyReaders
<1>7. "modActions" \notin spoiled' => NotesFollow'
  <2> SUFFICES ASSUME "modActions" \notin spoiled' PROVE NotesFollow'
    OBVIOUS
  <2>1. \A v \in Workers \ {w} : busy[v].op \notin {"note", "notesCache"}
    BY <1>1, <1>6, AwaitedIs
  <2>2. NotesFollow /\ x.value = notes
    BY <1>2, <1>3, <1>6 DEF AuthorsInv, NotesFollow
  <2>3. NoModNoteTwiceInARow'
    BY <1>3, <1>6, <2>2 DEF NotesFollow, NoModNoteTwiceInARow
  <2>4. ASSUME NEW v \in Workers
        PROVE  /\ busy'[v].op = "notes" => busy'[v].value = notes
               /\ busy'[v].op # "notesCache"
               /\ busy'[v].op = "note" => ExistingNoteCheck(notes, busy'[v].value.label, busy'[v].value.on)
    <3>1. CASE v = w
      BY <1>5, <2>2, <3>1
    <3>2. CASE v # w
      BY <1>5, <2>1, <2>2, <3>2 DEF NotesFollow
    <3> QED
      BY <3>1, <3>2
  <2> QED
    BY <1>3, <2>2, <2>3, <2>4 DEF NotesFollow, ExistingNoteCheck
<1> QED
  BY <1>1, <1>2, <1>3, <1>4, <1>5, <1>6, <1>7, OfNotesOnly

LEMMA AddModNoteKeeps == ASSUME AuthorsInv, NEW w \in Workers, AddModNote(w) PROVE AuthorsInv'
<1>1. /\ busy \in [Workers -> Awaited] /\ notes \in Seq(Notes)
      /\ cachedNotes # None => cachedNotes \in Seq(Notes)
  BY DEF AuthorsInv, AuthorsTyped, AuthorTypeOK
<1>2. PICK n : n = busy[w].value
  OBVIOUS
<1>3. /\ busy[w].op = "note" /\ Len(notes) < MaxNotes /\ notes' = <<n>> \o notes
      /\ Becomes(w, [op |-> "notesCache", about |-> "modActions", value |-> n])
      /\ Spoil(w, "modActions") /\ UNCHANGED <<member, flair, cachedMembers, cachedNotes, authorCrit>>
  BY <1>2 DEF AddModNote
<1>4. n \in Notes
  BY <1>1, <1>2, <1>3, AwaitedIs
<1>5. PICK x \in Awaited : x = [op |-> "notesCache", about |-> "modActions", value |-> n]
  BY <1>4, AwaitedAre
<1>6. busy' \in [Workers -> Awaited] /\ busy'[w] = x /\ \A v \in Workers \ {w} : busy'[v] = busy[v]
  BY <1>1, <1>3, <1>5, AwaitsNext
<1>7. /\ spoiled \subseteq spoiled' /\ (\A j : j # "modActions" => (j \in spoiled' <=> j \in spoiled))
      /\ "modActions" \notin spoiled' => \A v \in Workers \ {w} : busy[v].op # "free" => busy[v].about # "modActions"
  BY <1>3, NobodyElse
<1>8. notes' \in Seq(Notes) /\ Len(notes') <= MaxNotes
  BY <1>1, <1>3, <1>4, NoteAtHead, AuthorCacheAssumption
<1>9. "modActions" \notin spoiled' => NotesFollow'
  <2> SUFFICES ASSUME "modActions" \notin spoiled' PROVE NotesFollow'
    OBVIOUS
  <2>1. \A v \in Workers \ {w} : busy[v].op \notin {"notes", "note", "notesCache"}
    BY <1>1, <1>7, AwaitedIs
  <2>2. NotesFollow /\ Nobody("notesCache")
    BY <1>3, <1>7, <2>1 DEF AuthorsInv, Nobody
  <2>3. n.checked => ExistingNoteCheck(notes, n.label, n.on)
    BY <1>2, <1>3, <2>2 DEF NotesFollow
  <2>4. NoModNoteTwiceInARow'
    BY <1>1, <1>3, <1>4, <1>7, <2>2, <2>3, StillNoRepetition DEF NotesFollow
  <2>5. cachedNotes' # None => <<n>> \o cachedNotes' = notes'
    BY <1>3, <2>2 DEF NotesFollow
  <2>6. x.op = "notesCache" /\ x.value = n
    BY <1>5
  <2>7. ~Nobody("notesCache")'
    BY <1>6, <2>6 DEF Nobody
  <2>8. \A v \in Workers : busy'[v].op \in {"notes", "note", "notesCache"} => v = w
    BY <1>6, <2>1
  <2> QED
    BY <1>6, <2>4, <2>5, <2>6, <2>7, <2>8 DEF NotesFollow
<1>10. x.op = "notesCache"
  BY <1>5
<1> QED
  BY <1>1, <1>3, <1>6, <1>7, <1>8, <1>9, <1>10, OfNotesOnly

LEMMA NotesCacheUpdatedKeeps == ASSUME AuthorsInv, NEW w \in Workers, NotesCacheUpdated(w) PROVE AuthorsInv'
<1>1. /\ busy \in [Workers -> Awaited] /\ notes \in Seq(Notes) /\ Len(notes) <= MaxNotes
      /\ cachedNotes # None => cachedNotes \in Seq(Notes)
  BY DEF AuthorsInv, AuthorsTyped, AuthorTypeOK
<1>2. PICK n : n = busy[w].value
  OBVIOUS
<1>3. /\ busy[w].op = "notesCache" /\ cachedNotes' = PrependedNote(n) /\ Becomes(w, Free)
      /\ Spoil(w, "modActions") /\ UNCHANGED <<member, notes, flair, cachedMembers, authorCrit>>
  BY <1>2 DEF NotesCacheUpdated
<1>4. n \in Notes
  BY <1>1, <1>2, <1>3, AwaitedIs
<1>5. cachedNotes' # None => cachedNotes # None /\ cachedNotes' = <<n>> \o cachedNotes
  BY <1>3 DEF PrependedNote
<1>6. cachedNotes' # None => cachedNotes' \in Seq(Notes)
  BY <1>1, <1>4, <1>5, NoteAtHead
<1>7. busy' \in [Workers -> Awaited] /\ busy'[w] = Free /\ \A v \in Workers \ {w} : busy'[v] = busy[v]
  BY <1>1, <1>3, AwaitsNext, AwaitedAre
<1>8. /\ spoiled \subseteq spoiled' /\ (\A j : j # "modActions" => (j \in spoiled' <=> j \in spoiled))
      /\ "modActions" \notin spoiled' => \A v \in Workers \ {w} : busy[v].op # "free" => busy[v].about # "modActions"
  BY <1>3, NobodyElse
<1>9. Free.op = "free"
  BY DEF Free
<1>10. "modActions" \notin spoiled' => NotesFollow'
  <2> SUFFICES ASSUME "modActions" \notin spoiled' PROVE NotesFollow'
    OBVIOUS
  <2>1. \A v \in Workers \ {w} : busy[v].op \notin {"notes", "note", "notesCache"}
    BY <1>1, <1>8, AwaitedIs
  <2>2. NotesFollow
    BY <1>8 DEF AuthorsInv
  <2>3. cachedNotes' # None => cachedNotes' = notes'
    BY <1>2, <1>3, <1>5, <2>2 DEF NotesFollow
  <2>4. NoModNoteTwiceInARow'
    BY <1>3, <1>8, <2>2 DEF NotesFollow, NoModNoteTwiceInARow
  <2>5. \A v \in Workers : busy'[v].op \notin {"notes", "note", "notesCache"}
    BY <1>7, <1>9, <2>1
  <2> QED
    BY <2>3, <2>4, <2>5 DEF NotesFollow
<1> QED
  BY <1>1, <1>3, <1>6, <1>7, <1>8, <1>9, <1>10, OfNotesOnly

LEMMA ModeratorNoteKeeps ==
    ASSUME AuthorsInv, NEW label \in Labels, NEW post \in Posts, ModeratorNote(label, post) PROVE AuthorsInv'
<1>1. /\ busy \in [Workers -> Awaited] /\ notes \in Seq(Notes)
      /\ cachedNotes # None => cachedNotes \in Seq(Notes)
  BY DEF AuthorsInv, AuthorsTyped, AuthorTypeOK
<1>2. PICK n \in Notes : n = [label |-> label, on |-> post, checked |-> FALSE]
  BY DEF Notes
<1>3. /\ Len(notes) < MaxNotes /\ notes' = <<n>> \o notes
      /\ UNCHANGED <<member, flair, cachedMembers, cachedNotes, authorCrit, busy>>
  BY <1>2 DEF ModeratorNote
<1>4. /\ spoiled \subseteq spoiled' /\ (\A j : j # "modActions" => (j \in spoiled' <=> j \in spoiled))
      /\ "modActions" \notin spoiled' =>
            cachedNotes = None /\ \A v \in Workers : busy[v].op # "free" => busy[v].about # "modActions"
  BY DEF ModeratorNote
<1>5. notes' \in Seq(Notes) /\ Len(notes') <= MaxNotes
  BY <1>1, <1>3, NoteAtHead, AuthorCacheAssumption
<1>6. AuthorsTyped'
  <2>1. "modActions" \in CritKinds
    BY DEF CritKinds
  <2>2. spoiled' \subseteq CritKinds
    BY <1>4, <2>1 DEF AuthorsInv, AuthorsTyped, AuthorTypeOK
  <2> QED
    BY <1>3, <1>5, <2>2 DEF AuthorsInv, AuthorsTyped, AuthorTypeOK
<1>7. "isContributor" \notin spoiled' => MembersFollow'
  BY <1>3, <1>4 DEF AuthorsInv, MembersFollow, Nobody
<1>8. "flairText" \notin spoiled' => FlairFollows'
  BY <1>3, <1>4 DEF AuthorsInv, FlairFollows, Nobody
<1>9. "modActions" \notin spoiled' => NotesFollow'
  <2> SUFFICES ASSUME "modActions" \notin spoiled' PROVE NotesFollow'
    OBVIOUS
  <2>1. \A v \in Workers : busy'[v].op \notin {"notes", "note", "notesCache"}
    BY <1>1, <1>3, <1>4, AwaitedIs
  <2>2. NotesFollow /\ ~n.checked /\ cachedNotes' = None
    BY <1>2, <1>3, <1>4 DEF AuthorsInv
  <2>3. NoModNoteTwiceInARow'
    BY <1>1, <1>3, <1>4, <2>2, StillNoRepetition DEF NotesFollow
  <2> QED
    BY <2>1, <2>2, <2>3 DEF NotesFollow
<1> QED
  BY <1>6, <1>7, <1>8, <1>9 DEF AuthorsInv


-----------------------------------------------------------------------------
(* Flairs and results *)

\* Steps about flairs leave what is known of contributors and notes.
LEMMA OfFlairOnly ==
    ASSUME AuthorsInv, NEW w \in Workers, busy' \in [Workers -> Awaited],
           \A v \in Workers \ {w} : busy'[v] = busy[v],
           busy[w].op \in {"free", "store", "flairCache"}, busy'[w].op \in {"free", "store", "flairCache"},
           flair' \in 0 .. MaxFlairs, DOMAIN authorCrit' = CritKinds,
           UNCHANGED <<member, notes, cachedMembers, cachedNotes>>,
           spoiled \subseteq spoiled', \A j : j # "flairText" => (j \in spoiled' <=> j \in spoiled),
           "flairText" \notin spoiled' => FlairFollows'
    PROVE  AuthorsInv'
<1>1. AuthorsTyped'
  <2>1. "flairText" \in CritKinds
    BY DEF CritKinds
  <2> QED
    BY <2>1 DEF AuthorsInv, AuthorsTyped, AuthorTypeOK
<1>2. "isContributor" \notin spoiled' => MembersFollow'
  BY MembersStay DEF AuthorsInv
<1>3. "modActions" \notin spoiled' => NotesFollow'
  BY NotesStay DEF AuthorsInv
<1> QED
  BY <1>1, <1>2, <1>3 DEF AuthorsInv

LEMMA TestFlairKeeps == ASSUME AuthorsInv, NEW w \in Workers, TestFlair(w) PROVE AuthorsInv'
<1>1. busy \in [Workers -> Awaited] /\ flair \in 0 .. MaxFlairs /\ DOMAIN authorCrit = CritKinds
  BY DEF AuthorsInv, AuthorsTyped, AuthorTypeOK
<1>2. /\ busy[w].op = "free" /\ authorCrit["flairText"] = None
      /\ UNCHANGED <<member, notes, flair, cachedMembers, cachedNotes, authorCrit, spoiled>>
  BY DEF TestFlair
<1>3. PICK x \in Awaited : x = [op |-> "store", about |-> "flairText", value |-> flair]
  <2>1. flair \in Nat
    BY <1>1, AuthorCacheAssumption
  <2> QED
    BY <2>1, AwaitedAre
<1>4. Becomes(w, x)
  BY <1>3 DEF TestFlair
<1>5. busy' \in [Workers -> Awaited] /\ busy'[w] = x /\ \A v \in Workers \ {w} : busy'[v] = busy[v]
  BY <1>1, <1>4, AwaitsNext
<1>6. x.op = "store" /\ x.value = flair
  BY <1>3
<1>7. "flairText" \notin spoiled' => FlairFollows'
  <2>1. Nobody("flairCache")' => Nobody("flairCache")
    BY <1>2, <1>5 DEF Nobody
  <2> QED
    BY <1>2, <1>5, <1>6, <2>1 DEF AuthorsInv, FlairFollows
<1> QED
  BY <1>1, <1>2, <1>5, <1>6, <1>7, OfFlairOnly

LEMMA AssignFlairKeeps == ASSUME AuthorsInv, NEW w \in Workers, AssignFlair(w) PROVE AuthorsInv'
<1>1. busy \in [Workers -> Awaited] /\ flair \in 0 .. MaxFlairs /\ DOMAIN authorCrit = CritKinds
  BY DEF AuthorsInv, AuthorsTyped, AuthorTypeOK
<1>2. /\ busy[w].op = "free" /\ flair < MaxFlairs /\ flair' = flair + 1
      /\ Spoil(w, "flairText") /\ UNCHANGED <<member, notes, cachedMembers, cachedNotes, authorCrit>>
  BY DEF AssignFlair
<1>3. PICK x \in Awaited : x = [op |-> "flairCache", about |-> "flairText"]
  BY AwaitedAre
<1>4. Becomes(w, x)
  BY <1>3 DEF AssignFlair
<1>5. busy' \in [Workers -> Awaited] /\ busy'[w] = x /\ \A v \in Workers \ {w} : busy'[v] = busy[v]
  BY <1>1, <1>4, AwaitsNext
<1>6. x.op = "flairCache"
  BY <1>3
<1>7. FlairFollows'
  BY <1>5, <1>6 DEF FlairFollows, Nobody
<1>8. spoiled \subseteq spoiled' /\ (\A j : j # "flairText" => (j \in spoiled' <=> j \in spoiled))
  BY <1>2, NobodyElse
<1>9. flair' \in 0 .. MaxFlairs
  BY <1>1, <1>2, AuthorCacheAssumption
<1> QED
  BY <1>1, <1>2, <1>5, <1>6, <1>7, <1>8, <1>9, OfFlairOnly

LEMMA FlairResetKeeps == ASSUME AuthorsInv, NEW w \in Workers, FlairReset(w) PROVE AuthorsInv'
<1>1. busy \in [Workers -> Awaited] /\ flair \in 0 .. MaxFlairs
  BY DEF AuthorsInv, AuthorsTyped, AuthorTypeOK
<1>2. /\ busy[w].op = "flairCache" /\ authorCrit' = [k \in CritKinds |-> None] /\ Becomes(w, Free)
      /\ Spoil(w, "flairText") /\ UNCHANGED <<member, notes, flair, cachedMembers, cachedNotes>>
  BY DEF FlairReset, WithoutResults
<1>3. busy' \in [Workers -> Awaited] /\ busy'[w] = Free /\ \A v \in Workers \ {w} : busy'[v] = busy[v]
  BY <1>1, <1>2, AwaitsNext, AwaitedAre
<1>4. /\ spoiled \subseteq spoiled' /\ (\A j : j # "flairText" => (j \in spoiled' <=> j \in spoiled))
      /\ "flairText" \notin spoiled' => \A v \in Workers \ {w} : busy[v].op # "free" => busy[v].about # "flairText"
  BY <1>2, NobodyElse
<1>5. Free.op = "free"
  BY DEF Free
<1>6. "flairText" \notin spoiled' => FlairFollows'
  <2>1. authorCrit'["flairText"] = None
    BY <1>2 DEF CritKinds
  <2> QED
    BY <1>3, <1>4, <1>5, <2>1 DEF FlairFollows
<1> QED
  BY <1>1, <1>2, <1>3, <1>4, <1>5, <1>6, OfFlairOnly

LEMMA StoreCriteriaKeeps == ASSUME AuthorsInv, NEW w \in Workers, StoreCriteria(w) PROVE AuthorsInv'
<1>1. busy \in [Workers -> Awaited] /\ flair \in 0 .. MaxFlairs /\ DOMAIN authorCrit = CritKinds
  BY DEF AuthorsInv, AuthorsTyped, AuthorTypeOK
<1>2. PICK x \in Awaited : x = busy[w]
  BY <1>1
<1>3. /\ x.op = "store" /\ authorCrit' = [authorCrit EXCEPT ![x.about] = <<x.value>>] /\ Becomes(w, Free)
      /\ UNCHANGED <<member, notes, flair, cachedMembers, cachedNotes, spoiled>>
  BY <1>2 DEF StoreCriteria
<1>4. busy' \in [Workers -> Awaited] /\ busy'[w] = Free /\ (\A v \in Workers \ {w} : busy'[v] = busy[v]) /\ Free.op = "free"
  BY <1>1, <1>3, AwaitsNext, AwaitedAre DEF Free
<1>5. /\ DOMAIN authorCrit' = CritKinds
      /\ authorCrit'["flairText"] = IF x.about = "flairText" THEN <<x.value>> ELSE authorCrit["flairText"]
  BY <1>1, <1>3 DEF CritKinds
<1>6. "flairText" \notin spoiled' => FlairFollows'
  <2>1. Nobody("flairCache")' => Nobody("flairCache")
    BY <1>2, <1>3, <1>4 DEF Nobody
  <2> QED
    BY <1>2, <1>3, <1>4, <1>5, <2>1 DEF AuthorsInv, FlairFollows
<1> QED
  BY <1>1, <1>2, <1>3, <1>4, <1>5, <1>6, OfFlairOnly

LEMMA ExpireAuthorKeeps == ASSUME AuthorsInv, ExpireAuthor PROVE AuthorsInv'
<1>1. UNCHANGED <<member, notes, flair, busy, spoiled>>
  BY DEF ExpireAuthor
<1>2. /\ cachedMembers' \in {cachedMembers, None} /\ cachedNotes' \in {cachedNotes, None}
      /\ DOMAIN authorCrit' = DOMAIN authorCrit
  BY DEF ExpireAuthor
<1>3. authorCrit'["flairText"] \in {authorCrit["flairText"], None}
  BY DEF ExpireAuthor, AuthorsInv, AuthorsTyped, AuthorTypeOK, CritKinds
<1>4. AuthorsTyped'
  BY <1>1, <1>2 DEF AuthorsInv, AuthorsTyped, AuthorTypeOK
<1>5. "isContributor" \notin spoiled' => MembersFollow'
  BY <1>1, <1>2 DEF AuthorsInv, MembersFollow, Nobody
<1>6. "modActions" \notin spoiled' => NotesFollow'
  <2>1. NoModNoteTwiceInARow => NoModNoteTwiceInARow'
    BY <1>1 DEF NoModNoteTwiceInARow
  <2> QED
    BY <1>1, <1>2, <2>1 DEF AuthorsInv, NotesFollow, Nobody, ExistingNoteCheck
<1>7. "flairText" \notin spoiled' => FlairFollows'
  BY <1>1, <1>3 DEF AuthorsInv, FlairFollows, Nobody
<1> QED
  BY <1>4, <1>5, <1>6, <1>7 DEF AuthorsInv

-----------------------------------------------------------------------------

LEMMA AuthorsInvInit == AuthorInit => AuthorsInv
<1> SUFFICES ASSUME AuthorInit PROVE AuthorsInv
  OBVIOUS
<1>1. \A w \in Workers : busy[w] = Free /\ Free.op = "free"
  BY DEF AuthorInit, Free
<1>2. busy \in [Workers -> Awaited]
  BY AwaitedAre DEF AuthorInit
<1>3. AuthorTypeOK
  <2>1. notes \in Seq(Notes) /\ Len(notes) <= MaxNotes
    BY AuthorCacheAssumption DEF AuthorInit
  <2>2. flair \in 0 .. MaxFlairs
    BY AuthorCacheAssumption DEF AuthorInit
  <2> QED
    BY <2>1, <2>2 DEF AuthorTypeOK, AuthorInit
<1>4. cachedMembers = None /\ cachedNotes = None /\ authorCrit["flairText"] = None /\ notes = <<>>
  BY DEF AuthorInit, CritKinds
<1>5. MembersFollow
  BY <1>1, <1>4 DEF MembersFollow
<1>6. NotesFollow
  <2>1. NoModNoteTwiceInARow
    BY <1>4 DEF NoModNoteTwiceInARow
  <2> QED
    BY <1>1, <1>4, <2>1 DEF NotesFollow
<1>7. FlairFollows
  BY <1>1, <1>4 DEF FlairFollows
<1> QED
  BY <1>2, <1>3, <1>5, <1>6, <1>7 DEF AuthorsInv, AuthorsTyped

LEMMA AuthorsStay == ASSUME AuthorsInv, UNCHANGED authorVars PROVE AuthorsInv'
<1>1. UNCHANGED <<member, notes, flair, cachedMembers, cachedNotes, authorCrit, busy, spoiled>>
  BY DEF authorVars
<1>2. AuthorsTyped'
  BY <1>1 DEF AuthorsInv, AuthorsTyped, AuthorTypeOK
<1>3. MembersFollow => MembersFollow'
  BY <1>1 DEF MembersFollow, Nobody
<1>4. NotesFollow => NotesFollow'
  BY <1>1 DEF NotesFollow, Nobody, ExistingNoteCheck, NoModNoteTwiceInARow
<1>5. FlairFollows => FlairFollows'
  BY <1>1 DEF FlairFollows, Nobody
<1> QED
  BY <1>1, <1>2, <1>3, <1>4, <1>5 DEF AuthorsInv

LEMMA AuthorsInvNext == AuthorsInv /\ [AuthorNext]_authorVars => AuthorsInv'
<1> SUFFICES ASSUME AuthorsInv, [AuthorNext]_authorVars PROVE AuthorsInv'
  OBVIOUS
<1>1. CASE UNCHANGED authorVars
  BY <1>1, AuthorsStay
<1>2. CASE ContributorsNext
  BY <1>2, GetContributorsKeeps, ContributorsFetchedKeeps, ChangeContributorKeeps, ContributorsCacheUpdatedKeeps
     DEF ContributorsNext
<1>3. CASE NotesNext
  <2>1. /\ [does |-> "test"] \in Goals
        /\ \A label \in Labels, post \in Posts : [does |-> "note", label |-> label, on |-> post] \in Goals
    BY DEF Goals
  <2> QED
    BY <1>3, <2>1, GetAuthorModNotesKeeps, AddUncheckedKeeps, NotesFetchedKeeps, AddModNoteKeeps,
       NotesCacheUpdatedKeeps, ModeratorNoteKeeps DEF NotesNext
<1>4. CASE FlairNext
  BY <1>4, TestFlairKeeps, AssignFlairKeeps, FlairResetKeeps DEF FlairNext
<1>5. CASE ResultsNext
  BY <1>5, ExpireAuthorKeeps, StoreCriteriaKeeps DEF ResultsNext
<1> QED
  BY <1>1, <1>2, <1>3, <1>4, <1>5 DEF AuthorNext

\* What the invariant says of the caches when nobody is about their data.
LEMMA AuthorsInvIsEnough ==
    AuthorsInv => FlairResultsFollow /\ ContributorsKnown /\ ModNotesKnown /\ NoModNoteTwiceInARow
<1> SUFFICES ASSUME AuthorsInv
             PROVE  FlairResultsFollow /\ ContributorsKnown /\ ModNotesKnown /\ NoModNoteTwiceInARow
  OBVIOUS
<1>1. \A w \in Workers : busy[w] \in Awaited
  BY DEF AuthorsInv, AuthorsTyped
<1>2. FlairResultsFollow
  <2>1. Calm("flairText") => Nobody("flairCache")
    BY <1>1, AwaitedIs DEF Calm, Nobody
  <2> QED
    BY <2>1 DEF FlairResultsFollow, AuthorsInv, FlairFollows, Calm
<1>3. ContributorsKnown
  <2>1. Calm("isContributor") => Nobody("membersCache")
    BY <1>1, AwaitedIs DEF Calm, Nobody
  <2> QED
    BY <2>1 DEF ContributorsKnown, AuthorsInv, MembersFollow, Calm
<1>4. ModNotesKnown
  <2>1. Calm("modActions") => Nobody("notesCache")
    BY <1>1, AwaitedIs DEF Calm, Nobody
  <2> QED
    BY <2>1 DEF ModNotesKnown, AuthorsInv, NotesFollow, Calm
<1>5. NoModNoteTwiceInARow
  BY DEF AuthorsInv, NotesFollow, NoModNoteTwiceInARow
<1> QED
  BY <1>2, <1>3, <1>4, <1>5

-----------------------------------------------------------------------------

\* What is cached of activities, authors and mod notes follows from what was
\* done at Reddit, by the bot and by others, and a dry run changes nothing there
\* but the flairs of submissions (actions, resetCacheForItem, addContributors).
THEOREM CachesCorrect == Spec => CachesFollowActions
<1>1. Init => ItemsInv /\ AuthorsInv
  BY ItemsInvInit, AuthorsInvInit DEF Init
<1>2. ItemsInv /\ AuthorsInv /\ [Next]_allVars => (ItemsInv /\ AuthorsInv)'
  BY StepsOfParts, ItemsInvNext, AuthorsInvNext
<1>3. ItemsInv /\ AuthorsInv =>
          /\ ResultsFollowActions /\ ActivitiesFollowActions /\ SkippedUntilReported
          /\ FlairResultsFollow /\ ContributorsKnown /\ ModNotesKnown /\ NoModNoteTwiceInARow
  BY ItemsInvIsEnough, AuthorsInvIsEnough
<1>4. ItemsInv /\ [Next]_allVars =>
          [\A w \in Workers, a \in Activities :
              worker[w].dry /\ acts'[a] # acts[a] /\ worker'[w].kind # worker[w].kind =>
                  reddit'[a] = [reddit[a] EXCEPT !.flaired = TRUE]]_itemVars
  <2> SUFFICES ASSUME ItemsInv, [Next]_allVars, NEW w \in Workers, NEW a \in Activities,
                      worker[w].dry /\ acts'[a] # acts[a] /\ worker'[w].kind # worker[w].kind
               PROVE  reddit'[a] = [reddit[a] EXCEPT !.flaired = TRUE]
    OBVIOUS
  <2>1. DryFlairs(w, a)
    BY StepsOfParts, DryRunStep
  <2> QED
    BY <2>1 DEF DryFlairs
<1> QED
  BY <1>1, <1>2, <1>3, <1>4, PTL DEF Spec, CachesFollowActions, DryRunOnlyFlairs

-----------------------------------------------------------------------------
(* Sorting *)

\* Induction up to n, for a set in place of a predicate.
LEMMA InductionUpTo ==
    ASSUME NEW n \in Nat, NEW I, 0 \in I, \A k \in 0 .. n - 1 : k \in I => k + 1 \in I
    PROVE  0 .. n \subseteq I
<1> SUFFICES ASSUME ~ (0 .. n \subseteq I) PROVE FALSE
  OBVIOUS
<1> DEFINE Bad == (0 .. n) \ I
<1>1. Bad \in SUBSET Nat /\ Bad # {}
  OBVIOUS
<1>2. PICK m \in Bad : \A j \in Bad : m <= j
  <2> HIDE DEF Bad
  <2> QED
    BY <1>1, LeastNat
<1>3. m # 0 /\ m - 1 \in 0 .. n - 1
  BY <1>2
<1>4. m - 1 \in I
  BY <1>2, <1>3
<1>5. m - 1 + 1 \in I
  BY <1>3, <1>4
<1> QED
  BY <1>2, <1>3, <1>5

\* The first k places of an order: none later is before them.
Selected(t, n, k, p) ==
    /\ p \in [1 .. k -> 1 .. n]
    /\ \A i, j \in 1 .. k : p[i] = p[j] => i = j
    /\ \A i, j \in 1 .. k : i < j => t[p[i]] <= t[p[j]]
    /\ \A i \in 1 .. k, m \in 1 .. n : (\A j \in 1 .. k : p[j] # m) => t[p[i]] <= t[m]

\* Any finite sequence of times can be put in order.
LEMMA OrderExists ==
    ASSUME NEW n \in Nat, NEW t \in [1 .. n -> Nat]
    PROVE  \E p \in Bijection(1 .. n, 1 .. n) : \A i, j \in 1 .. n : i < j => t[p[i]] <= t[p[j]]
<1> DEFINE I == {k \in 0 .. n : \E p : Selected(t, n, k, p)}
<1>1. 0 \in I
  <2>1. Selected(t, n, 0, [i \in 1 .. 0 |-> 1])
    BY DEF Selected
  <2> QED
    BY <2>1
<1>2. ASSUME NEW k \in 0 .. n - 1, k \in I PROVE k + 1 \in I
  <2>1. PICK p : Selected(t, n, k, p)
    BY <1>2
  <2>2. PICK R : R = {m \in 1 .. n : \A j \in 1 .. k : p[j] # m}
    OBVIOUS
  <2>3. R # {}
    <3> SUFFICES ASSUME R = {} PROVE FALSE
      OBVIOUS
    <3>1. p \in Surjection(1 .. k, 1 .. n)
      BY <2>1, <2>2 DEF Selected, Surjection
    <3>2. IsFiniteSet(1 .. k) /\ Cardinality(1 .. k) = k /\ Cardinality(1 .. n) = n
      <4>1. k \in Int /\ n \in Int /\ 0 <= k /\ k < n /\ 1 \in Int
        OBVIOUS
      <4> HIDE DEF I
      <4>2. IsFiniteSet(1 .. k) /\ Cardinality(1 .. k) = IF 1 > k THEN 0 ELSE k - 1 + 1
        BY <4>1, FS_Interval
      <4>3. Cardinality(1 .. n) = IF 1 > n THEN 0 ELSE n - 1 + 1
        BY <4>1, FS_Interval
      <4> QED
        BY <4>1, <4>2, <4>3
    <3>3. PICK f \in Surjection(1 .. k, 1 .. n) : f = p
      BY <3>1
    <3>4. Cardinality(1 .. n) <= Cardinality(1 .. k)
      BY <3>2, FS_Surjection
    <3> QED
      BY <3>2, <3>4
  <2>4. PICK T : T = {t[m] : m \in R}
    OBVIOUS
  <2>5. T \in SUBSET Nat /\ T # {}
    BY <2>2, <2>3, <2>4
  <2>6. PICK m \in R : \A l \in R : t[m] <= t[l]
    <3>1. PICK x \in T : \A y \in T : x <= y
      BY <2>5, LeastNat
    <3> QED
      BY <2>4, <3>1
  <2>7. PICK q : q = [i \in 1 .. k + 1 |-> IF i = k + 1 THEN m ELSE p[i]]
    OBVIOUS
  <2>8. /\ q \in [1 .. k + 1 -> 1 .. n] /\ q[k + 1] = m
        /\ \A i \in 1 .. k : q[i] = p[i] /\ i \in 1 .. k + 1
        /\ \A i \in 1 .. k + 1 : i = k + 1 \/ i \in 1 .. k
    BY <2>1, <2>2, <2>6, <2>7 DEF Selected
  <2>9. \A i \in 1 .. k : p[i] # m /\ t[p[i]] <= t[m]
    BY <2>1, <2>2, <2>6 DEF Selected
  <2>10. ASSUME NEW i \in 1 .. k + 1, NEW j \in 1 .. k + 1, q[i] = q[j] PROVE i = j
    <3>1. \A x, y \in 1 .. k : p[x] = p[y] => x = y
      BY <2>1 DEF Selected
    <3>2. CASE i = k + 1
      BY <2>8, <2>9, <2>10, <3>2
    <3>3. CASE j = k + 1
      BY <2>8, <2>9, <2>10, <3>3
    <3>4. CASE i \in 1 .. k /\ j \in 1 .. k
      BY <2>8, <2>10, <3>1, <3>4
    <3> QED
      BY <2>8, <3>2, <3>3, <3>4
  <2>11. ASSUME NEW i \in 1 .. k + 1, NEW j \in 1 .. k + 1, i < j PROVE t[q[i]] <= t[q[j]]
    <3>1. CASE j = k + 1
      BY <2>8, <2>9, <2>11, <3>1
    <3>2. CASE i \in 1 .. k /\ j \in 1 .. k
      BY <2>1, <2>8, <2>11, <3>2 DEF Selected
    <3> QED
      BY <2>8, <2>11, <3>1, <3>2
  <2>12. ASSUME NEW i \in 1 .. k + 1, NEW l \in 1 .. n, \A j \in 1 .. k + 1 : q[j] # l PROVE t[q[i]] <= t[l]
    <3>1. \A j \in 1 .. k : p[j] # l
      BY <2>8, <2>12
    <3>2. l \in R
      BY <2>2, <3>1
    <3> QED
      BY <2>1, <2>6, <2>8, <3>1, <3>2 DEF Selected
  <2>13. Selected(t, n, k + 1, q)
    BY <2>8, <2>10, <2>11, <2>12 DEF Selected
  <2> QED
    BY <2>13
<1>3. 0 .. n \subseteq I
  <2> HIDE DEF I
  <2> QED
    BY <1>1, <1>2, InductionUpTo
<1>4. PICK p : Selected(t, n, n, p)
  BY <1>3
<1>5. p \in Injection(1 .. n, 1 .. n)
  BY <1>4 DEF Selected, Injection, IsInjective
<1>6. p \in Bijection(1 .. n, 1 .. n)
  <2>1. PICK f \in Injection(1 .. n, 1 .. n) : f = p
    BY <1>5
  <2>2. f \in Surjection(1 .. n, 1 .. n)
    BY FS_Interval, FS_Injection
  <2> QED
    BY <2>1, <2>2 DEF Bijection
<1> QED
  BY <1>4, <1>6 DEF Selected

\* An instance has its own copies of the library's operators.
LEMMA SameBijections == \A S, T : Wiki!Bijection(S, T) = Bijection(S, T)
  BY DEF Wiki!Bijection, Wiki!Injection, Wiki!Surjection, Wiki!IsInjective, Bijection, Injection,
         Surjection, IsInjective

\* Sorting puts the notes in another order, by time.
LEMMA SortedIs ==
    ASSUME NEW s \in Seq(Wiki!Notes)
    PROVE  /\ Wiki!Sorted(s) \in Seq(Wiki!Notes) /\ Len(Wiki!Sorted(s)) = Len(s)
           /\ Wiki!Range(Wiki!Sorted(s)) = Wiki!Range(s)
           /\ \A i, j \in DOMAIN s : i < j => Wiki!Sorted(s)[i].time <= Wiki!Sorted(s)[j].time
           /\ (\A i, j \in DOMAIN s : s[i] = s[j] => i = j) =>
                 \A i, j \in DOMAIN s : Wiki!Sorted(s)[i] = Wiki!Sorted(s)[j] => i = j
<1>1. DOMAIN s = 1 .. Len(s) /\ Len(s) \in Nat /\ \A i \in DOMAIN s : s[i] \in Wiki!Notes
  OBVIOUS
<1>2. PICK t : t = [i \in 1 .. Len(s) |-> s[i].time]
  OBVIOUS
<1>3. t \in [1 .. Len(s) -> Nat] /\ \A i \in DOMAIN s : t[i] = s[i].time
  BY <1>1, <1>2, InstancesAssumption DEF Wiki!Notes, Wiki!NotesAssumption
<1>4. \E p \in Wiki!Bijection(DOMAIN s, DOMAIN s) : \A i, j \in DOMAIN s : i < j => s[p[i]].time <= s[p[j]].time
  <2>1. PICK p \in Bijection(1 .. Len(s), 1 .. Len(s)) : \A i, j \in 1 .. Len(s) : i < j => t[p[i]] <= t[p[j]]
    BY <1>1, <1>3, OrderExists
  <2>2. \A i \in DOMAIN s : p[i] \in DOMAIN s
    BY <1>1 DEF Bijection, Injection
  <2>3. p \in Wiki!Bijection(DOMAIN s, DOMAIN s)
    BY <1>1, <2>1, SameBijections
  <2> QED
    BY <1>1, <1>3, <2>1, <2>2, <2>3
<1>5. PICK p : p = CHOOSE q \in Wiki!Bijection(DOMAIN s, DOMAIN s) :
                       \A i, j \in DOMAIN s : i < j => s[q[i]].time <= s[q[j]].time
  OBVIOUS
<1>6. p \in Wiki!Bijection(DOMAIN s, DOMAIN s) /\ \A i, j \in DOMAIN s : i < j => s[p[i]].time <= s[p[j]].time
  BY <1>4, <1>5
<1>7. Wiki!Sorted(s) = [i \in DOMAIN s |-> s[p[i]]]
  BY <1>5 DEF Wiki!Sorted
<1>8. /\ p \in [DOMAIN s -> DOMAIN s] /\ \A i, j \in DOMAIN s : p[i] = p[j] => i = j
      /\ \A j \in DOMAIN s : \E i \in DOMAIN s : p[i] = j
  BY <1>6 DEF Wiki!Bijection, Wiki!Injection, Wiki!Surjection, Wiki!IsInjective
<1>9. Wiki!Sorted(s) \in Seq(Wiki!Notes) /\ Len(Wiki!Sorted(s)) = Len(s)
  BY <1>1, <1>7, <1>8
<1>10. Wiki!Range(Wiki!Sorted(s)) = Wiki!Range(s)
  BY <1>7, <1>8 DEF Wiki!Range
<1> QED
  BY <1>6, <1>7, <1>8, <1>9, <1>10

-----------------------------------------------------------------------------
(* Objects *)

\* What a worker has in each step of an action.
NoteHeld(x) ==
    /\ x.pc \in {"checkFetch", "add", "addFetch", "existingFetch", "edit"} => x.type \in Types
    /\ x.pc \notin {"existingFetch", "edit"} => x.payload = None /\ x.existing = None
    /\ x.pc = "existingFetch" => x.existing = None
    /\ x.pc \in {"existingFetch", "edit"} => x.payload \in Refs /\ x.note \in Wiki!Notes
    /\ x.pc = "edit" => x.existing \in Refs

NotesTyped == Wiki!TypeOK /\ \A w \in NoteWorkers : NoteHeld(noteWorker[w])

LEMMA ManyRefs ==
    /\ IsFiniteSet(NoteWorkers) /\ Cardinality(NoteWorkers) \in Nat
    /\ IsFiniteSet(Refs) /\ Cardinality(Refs) \in Nat
    /\ Cardinality(Refs) > 2 * Cardinality(NoteWorkers) + 2
<1>1. Wiki!IsFiniteSet(NoteWorkers) /\ Wiki!IsFiniteSet(Refs)
  BY InstancesAssumption DEF Wiki!NotesAssumption
<1>2. Wiki!Cardinality(Refs) > 2 * Wiki!Cardinality(NoteWorkers) + 2
  BY InstancesAssumption DEF Wiki!NotesAssumption
<1>3. IsFiniteSet(NoteWorkers) /\ IsFiniteSet(Refs)
  BY <1>1 DEF Wiki!IsFiniteSet, IsFiniteSet
<1>4. \A S : Wiki!Cardinality(S) = Cardinality(S)
  BY DEF Wiki!Cardinality, Cardinality
<1> QED
  BY <1>2, <1>3, <1>4, FS_CardinalityType

\* The values of a function are no more than its arguments.
LEMMA FewValues ==
    ASSUME NEW V, IsFiniteSet(V), NEW f, DOMAIN f = V, NEW T, T = {f[v] : v \in V}
    PROVE  IsFiniteSet(T) /\ Cardinality(T) <= Cardinality(V)
<1>1. [v \in V |-> f[v]] \in Surjection(V, T)
  BY DEF Surjection
<1>2. PICK g \in Surjection(V, T) : g = [v \in V |-> f[v]]
  BY <1>1
<1> QED
  BY FS_Surjection

\* The same of a union.
LEMMA FewInUnion ==
    ASSUME NEW S, IsFiniteSet(S), NEW T, IsFiniteSet(T), NEW m \in Nat, NEW n \in Nat,
           Cardinality(S) <= m, Cardinality(T) <= n
    PROVE  IsFiniteSet(S \cup T) /\ Cardinality(S \cup T) <= m + n
<1>1. /\ IsFiniteSet(S \cup T) /\ IsFiniteSet(S \cap T)
      /\ Cardinality(S \cup T) = Cardinality(S) + Cardinality(T) - Cardinality(S \cap T)
  BY FS_Union, FS_Intersection
<1>2. Cardinality(S) \in Nat /\ Cardinality(T) \in Nat /\ Cardinality(S \cap T) \in Nat
  BY <1>1, FS_CardinalityType
<1> QED
  BY <1>1, <1>2

\* Four are no more than four.
LEMMA FewOfFour ==
    ASSUME NEW a, NEW b, NEW c, NEW d
    PROVE  IsFiniteSet({a, b, c, d}) /\ Cardinality({a, b, c, d}) <= 4
<1>1. PICK f : f = [i \in 1 .. 4 |-> IF i = 1 THEN a ELSE IF i = 2 THEN b ELSE IF i = 3 THEN c ELSE d]
  OBVIOUS
<1>2. {a, b, c, d} = {f[i] : i \in 1 .. 4}
  BY <1>1
<1>3. IsFiniteSet(1 .. 4) /\ Cardinality(1 .. 4) = 4
  <2>1. PICK n : n = 4
    OBVIOUS
  <2>2. n \in Int /\ 1 \in Int
    BY <2>1
  <2>3. IsFiniteSet(1 .. n) /\ Cardinality(1 .. n) = IF 1 > n THEN 0 ELSE n - 1 + 1
    BY <2>2, FS_Interval
  <2> QED
    BY <2>1, <2>3
<1>4. DOMAIN f = 1 .. 4
  BY <1>1
<1> QED
  BY <1>2, <1>3, <1>4, FewValues

FewTaken(taken, a, b) == taken \subseteq {a, b}

\* There are objects enough for what a step needs.
LEMMA FreshIs ==
    ASSUME NotesTyped, NEW w \in NoteWorkers, noteWorker[w].existing = None, NEW a, NEW b, NEW taken,
           noteWorker[w].payload = None \/ noteWorker[w].payload = a, FewTaken(taken, a, b)
    PROVE  /\ Wiki!Fresh(taken) \in Refs /\ Wiki!Fresh(taken) \notin Wiki!InUse
           /\ Wiki!Fresh(taken) \notin taken
<1> USE InstancesAssumption, ManyRefs DEF Wiki!NotesAssumption
<1>1. SUFFICES \E r \in Refs : r \notin Wiki!InUse \cup taken
  <2>1. PICK r : r = CHOOSE q \in Refs : q \notin Wiki!InUse \cup taken
    OBVIOUS
  <2>2. r \in Refs /\ r \notin Wiki!InUse \cup taken
    BY <1>1, <2>1
  <2> QED
    BY <2>1, <2>2 DEF Wiki!Fresh
<1>2. SUFFICES ASSUME Refs \subseteq Wiki!InUse \cup taken PROVE FALSE
  OBVIOUS
<1>3. PICK V : V = NoteWorkers \ {w}
  OBVIOUS
<1>4. IsFiniteSet(V) /\ Cardinality(V) = Cardinality(NoteWorkers) - 1 /\ Cardinality(V) \in Nat
  BY <1>3, FS_RemoveElement, FS_CardinalityType
<1>5. PICK f : f = [v \in V |-> noteWorker[v].payload]
  OBVIOUS
<1>6. PICK g : g = [v \in V |-> noteWorker[v].existing]
  OBVIOUS
<1>7. PICK F : F = {f[v] : v \in V}
  OBVIOUS
<1>8. PICK G : G = {g[v] : v \in V}
  OBVIOUS
<1>9. IsFiniteSet(F) /\ Cardinality(F) <= Cardinality(V)
  BY <1>4, <1>5, <1>7, FewValues
<1>10. IsFiniteSet(G) /\ Cardinality(G) <= Cardinality(V)
  BY <1>4, <1>6, <1>8, FewValues
<1>11. IsFiniteSet(F \cup G) /\ Cardinality(F \cup G) <= Cardinality(V) + Cardinality(V)
  BY <1>4, <1>9, <1>10, FewInUnion
<1>12. PICK A : A = {payload, users, a, b}
  OBVIOUS
<1>13. IsFiniteSet(A) /\ Cardinality(A) <= 4
  BY <1>12, FewOfFour
<1>14. IsFiniteSet(A \cup (F \cup G)) /\ Cardinality(A \cup (F \cup G)) <= 4 + (Cardinality(V) + Cardinality(V))
  <2>1. 4 \in Nat /\ Cardinality(V) + Cardinality(V) \in Nat
    BY <1>4
  <2> QED
    BY <1>11, <1>13, <2>1, FewInUnion
<1>15. Refs \subseteq A \cup (F \cup G)
  <2> SUFFICES ASSUME NEW r \in Refs PROVE r \in A \cup (F \cup G)
    OBVIOUS
  <2>1. r # None
    OBVIOUS
  <2>2. CASE r \in taken \cup {payload, users, noteWorker[w].payload, noteWorker[w].existing}
    BY <1>12, <2>1, <2>2 DEF FewTaken
  <2>3. CASE \E v \in V : r = noteWorker[v].payload \/ r = noteWorker[v].existing
    BY <1>5, <1>6, <1>7, <1>8, <2>3
  <2> QED
    BY <1>2, <1>3, <2>2, <2>3 DEF Wiki!InUse
<1>16. Cardinality(Refs) <= Cardinality(A \cup (F \cup G))
  BY <1>14, <1>15, FS_Subset
<1>17. /\ Cardinality(Refs) \in Nat /\ Cardinality(NoteWorkers) \in Nat
       /\ Cardinality(A \cup (F \cup G)) \in Nat
  BY <1>14, FS_CardinalityType
<1> QED
  BY <1>4, <1>14, <1>16, <1>17

\* The heap holds what h did, as far as anyone can reach it.
LEMMA HeapHas ==
    ASSUME NEW h \in [Refs -> Seq(Wiki!Notes)], Wiki!HeapIs(h)
    PROVE  heap' \in [Refs -> Seq(Wiki!Notes)] /\ \A r \in Refs : r \in Wiki!InUse' => heap'[r] = h[r]
<1>1. PICK reachable : reachable = Wiki!InUse' /\ heap' = [r \in Refs |-> IF r \in reachable THEN h[r] ELSE <<>>]
  BY DEF Wiki!HeapIs
<1>2. <<>> \in Seq(Wiki!Notes)
  OBVIOUS
<1> QED
  BY <1>1, <1>2

\* A worker without objects, and one with a payload, can take new ones.
LEMMA NewObjects ==
    ASSUME NotesTyped, NEW w \in NoteWorkers, noteWorker[w].existing = None
    PROVE  /\ Wiki!Fresh({}) \in Refs /\ Wiki!Fresh({}) \notin Wiki!InUse
           /\ \A p : Wiki!Fresh({p}) \in Refs /\ Wiki!Fresh({p}) \notin Wiki!InUse /\ Wiki!Fresh({p}) # p
           /\ noteWorker[w].payload = None =>
                 \A p, c : /\ Wiki!Fresh({p, c}) \in Refs /\ Wiki!Fresh({p, c}) \notin Wiki!InUse
                           /\ Wiki!Fresh({p, c}) # p /\ Wiki!Fresh({p, c}) # c
<1>1. PICK a : a = noteWorker[w].payload
  OBVIOUS
<1>2. Wiki!Fresh({}) \in Refs /\ Wiki!Fresh({}) \notin Wiki!InUse
  <2>1. FewTaken({}, a, a)
    BY DEF FewTaken
  <2> QED
    BY <1>1, <2>1, FreshIs
<1>3. ASSUME NEW p PROVE /\ Wiki!Fresh({p}) \in Refs /\ Wiki!Fresh({p}) \notin Wiki!InUse
                         /\ Wiki!Fresh({p}) # p
  <2>1. PICK taken : taken = {p}
    OBVIOUS
  <2>2. FewTaken(taken, a, p)
    BY <2>1 DEF FewTaken
  <2>3. Wiki!Fresh(taken) \in Refs /\ Wiki!Fresh(taken) \notin Wiki!InUse /\ Wiki!Fresh(taken) \notin taken
    BY <1>1, <2>2, FreshIs
  <2> QED
    BY <2>1, <2>3
<1>4. ASSUME noteWorker[w].payload = None, NEW p, NEW c
      PROVE  /\ Wiki!Fresh({p, c}) \in Refs /\ Wiki!Fresh({p, c}) \notin Wiki!InUse
             /\ Wiki!Fresh({p, c}) # p /\ Wiki!Fresh({p, c}) # c
  <2>1. PICK taken : taken = {p, c}
    OBVIOUS
  <2>2. FewTaken(taken, p, c)
    BY <2>1 DEF FewTaken
  <2>3. Wiki!Fresh(taken) \in Refs /\ Wiki!Fresh(taken) \notin Wiki!InUse /\ Wiki!Fresh(taken) \notin taken
    BY <1>4, <2>2, FreshIs
  <2> QED
    BY <2>1, <2>3
<1> QED
  BY <1>2, <1>3, <1>4

-----------------------------------------------------------------------------
(* Types of user notes *)

LEMMA NotesTypedInit == Wiki!Init => NotesTyped
<1> SUFFICES ASSUME Wiki!Init PROVE NotesTyped
  OBVIOUS
<1>1. Wiki!Idle \in Wiki!Worker /\ NoteHeld(Wiki!Idle)
  BY DEF Wiki!Idle, Wiki!Worker, NoteHeld, Wiki!Optional
<1>2. Wiki!TypeOK
  BY <1>1, InstancesAssumption DEF Wiki!Init, Wiki!TypeOK, Wiki!NotesAssumption, Wiki!Optional
<1> QED
  BY <1>1, <1>2 DEF Wiki!Init, NotesTyped

\* A step of w that leaves the others as they are, seen from its own state.
LEMMA NotesTypedStep ==
    ASSUME NotesTyped, NEW w \in NoteWorkers, NEW x, x \in Wiki!Worker, NoteHeld(x),
           noteWorker' = [noteWorker EXCEPT ![w] = x],
           UNCHANGED <<ttl, store>>, page' \in Seq(Wiki!Notes), clock' \in 0 .. MaxUserNotes,
           failed' \subseteq Wiki!Notes,
           heap' \in [Refs -> Seq(Wiki!Notes)], payload' \in Wiki!Optional(Refs), users' \in Wiki!Optional(Refs)
    PROVE  NotesTyped'
  BY DEF NotesTyped, Wiki!TypeOK

\* The state of a worker that is about to fetch the page, or to add a note.
Doing(pc, type, checks) ==
    [pc |-> pc, checks |-> checks, type |-> type, note |-> None,
     payload |-> None, existing |-> None, text |-> <<>>]

LEMMA DoingUnchecked ==
    ASSUME NEW pc, NEW type
    PROVE  [Wiki!Idle EXCEPT !.pc = pc, !.type = type] = Doing(pc, type, FALSE)
<1>1. PICK x : x = [Wiki!Idle EXCEPT !.pc = pc, !.type = type]
  OBVIOUS
<1>2. x = [f \in {"pc", "checks", "type", "note", "payload", "existing", "text"} |-> x[f]]
  BY <1>1 DEF Wiki!Idle
<1>3. x.pc = pc /\ x.type = type
  BY <1>1 DEF Wiki!Idle
<1>4. x.checks = FALSE /\ x.note = None
  BY <1>1 DEF Wiki!Idle
<1>5. x.payload = None /\ x.existing = None /\ x.text = <<>>
  BY <1>1 DEF Wiki!Idle
<1>6. x = Doing(pc, type, FALSE)
  BY <1>2, <1>3, <1>4, <1>5 DEF Doing
<1> QED
  BY <1>1, <1>6

LEMMA DoingChecked ==
    ASSUME NEW pc, NEW type
    PROVE  [Wiki!Idle EXCEPT !.pc = pc, !.type = type, !.checks = TRUE] = Doing(pc, type, TRUE)
<1>1. PICK x : x = [Wiki!Idle EXCEPT !.pc = pc, !.type = type, !.checks = TRUE]
  OBVIOUS
<1>2. x = [f \in {"pc", "checks", "type", "note", "payload", "existing", "text"} |-> x[f]]
  BY <1>1 DEF Wiki!Idle
<1>3. x.pc = pc /\ x.type = type
  BY <1>1 DEF Wiki!Idle
<1>4. x.checks = TRUE /\ x.note = None
  BY <1>1 DEF Wiki!Idle
<1>5. x.payload = None /\ x.existing = None /\ x.text = <<>>
  BY <1>1 DEF Wiki!Idle
<1>6. x = Doing(pc, type, TRUE)
  BY <1>2, <1>3, <1>4, <1>5 DEF Doing
<1> QED
  BY <1>1, <1>6

LEMMA NewStates ==
    ASSUME NEW type \in Types, NEW pc \in {"checkFetch", "add", "addFetch"}, NEW checks \in BOOLEAN
    PROVE  Doing(pc, type, checks) \in Wiki!Worker /\ NoteHeld(Doing(pc, type, checks))
<1>1. type \in Wiki!Optional(Types) /\ \A S : None \in Wiki!Optional(S)
  BY DEF Wiki!Optional
<1>2. Doing(pc, type, checks) \in Wiki!Worker
  BY <1>1 DEF Wiki!Worker, Doing
<1>3. NoteHeld(Doing(pc, type, checks))
  BY DEF NoteHeld, Doing
<1> QED
  BY <1>2, <1>3

LEMMA WorkerStates ==
    ASSUME NotesTyped, NEW w \in NoteWorkers
    PROVE  /\ Wiki!Idle \in Wiki!Worker /\ NoteHeld(Wiki!Idle)
           /\ noteWorker[w] \in Wiki!Worker /\ NoteHeld(noteWorker[w]) /\ DOMAIN noteWorker = NoteWorkers
           /\ noteWorker[w].pc \in {"idle", "otherFetch", "checkFetch", "add", "addFetch"} =>
                 noteWorker[w].payload = None /\ noteWorker[w].existing = None
<1>1. Wiki!Idle \in Wiki!Worker /\ NoteHeld(Wiki!Idle)
  BY DEF Wiki!Idle, Wiki!Worker, NoteHeld, Wiki!Optional
<1>2. noteWorker[w] \in Wiki!Worker /\ NoteHeld(noteWorker[w]) /\ DOMAIN noteWorker = NoteWorkers
  BY DEF NotesTyped, Wiki!TypeOK
<1> QED
  BY <1>1, <1>2 DEF NoteHeld

\* The list that is built from notes, and where it is kept.
LEMMA SortedInSeq ==
    ASSUME NEW list \in Seq(Wiki!Notes), NEW r \in Wiki!Optional(Refs)
    PROVE  Wiki!Sorted(list) \in Seq(Wiki!Notes) /\ Wiki!Kept(r, list) \in Wiki!Optional(Refs)
  BY SortedIs DEF Wiki!Kept, Wiki!Optional

LEMMA OthersTyped ==
    ASSUME NotesTyped, NEW w \in NoteWorkers, Wiki!ReadOther(w) \/ Wiki!OtherFetched(w)
    PROVE  NotesTyped'
<1>1. CASE Wiki!ReadOther(w)
  <2>1. PICK x : x = [noteWorker[w] EXCEPT !.pc = "otherFetch"]
    OBVIOUS
  <2>2. x \in Wiki!Worker /\ NoteHeld(x)
    <3>1. noteWorker[w] \in Wiki!Worker /\ noteWorker[w].payload = None /\ noteWorker[w].existing = None
      BY <1>1, WorkerStates DEF Wiki!ReadOther
    <3>2. x \in Wiki!Worker
      BY <2>1, <3>1 DEF Wiki!Worker
    <3>3. x.pc = "otherFetch" /\ x.payload = None /\ x.existing = None
      BY <2>1, <3>1 DEF Wiki!Worker
    <3> QED
      BY <3>2, <3>3 DEF NoteHeld
  <2>3. noteWorker' = [noteWorker EXCEPT ![w] = x]
    BY <1>1, <2>1 DEF Wiki!ReadOther
  <2> QED
    BY <1>1, <2>2, <2>3, NotesTypedStep DEF Wiki!ReadOther, NotesTyped, Wiki!TypeOK
<1>2. CASE Wiki!OtherFetched(w)
  <2>1. PICK p : p = Wiki!Fresh({})
    OBVIOUS
  <2>2. p \in Refs
    BY <1>2, <2>1, NewObjects, WorkerStates DEF Wiki!OtherFetched
  <2>3. PICK h : h = [heap EXCEPT ![p] = page]
    OBVIOUS
  <2>4. h \in [Refs -> Seq(Wiki!Notes)]
    BY <2>2, <2>3 DEF NotesTyped, Wiki!TypeOK
  <2>5. Wiki!HeapIs(h) /\ payload' = Wiki!StoredAs(p) /\ users' = Wiki!UsersAfterFetch
    BY <1>2, <2>1, <2>3 DEF Wiki!OtherFetched
  <2>6. /\ heap' \in [Refs -> Seq(Wiki!Notes)] /\ payload' \in Wiki!Optional(Refs)
        /\ users' \in Wiki!Optional(Refs)
    BY <2>2, <2>4, <2>5, HeapHas DEF NotesTyped, Wiki!TypeOK, Wiki!StoredAs, Wiki!UsersAfterFetch,
                                     Wiki!Optional
  <2> QED
    BY <1>2, <2>6, WorkerStates, NotesTypedStep DEF Wiki!OtherFetched, NotesTyped, Wiki!TypeOK
<1> QED
  BY <1>1, <1>2

\* The check of notes leads to a state of its own.
LEMMA CheckedTyped ==
    ASSUME NotesTyped, NEW w \in NoteWorkers, NEW type \in Types, NEW list, Wiki!Checked(w, list, type)
    PROVE  \E x : x \in Wiki!Worker /\ NoteHeld(x) /\ noteWorker' = [noteWorker EXCEPT ![w] = x]
<1>1. PICK x : x = Doing("add", type, TRUE)
  OBVIOUS
<1>2. x \in Wiki!Worker /\ NoteHeld(x)
  BY <1>1, NewStates
<1>3. noteWorker' = [noteWorker EXCEPT ![w] = IF Wiki!CheckPasses(list, type) THEN x ELSE Wiki!Idle]
  BY <1>1, DoingChecked DEF Wiki!Checked
<1> QED
  BY <1>2, <1>3, WorkerStates

LEMMA ChecksTyped ==
    ASSUME NotesTyped, NEW w \in NoteWorkers, NEW type \in Types, Wiki!Check(w, type)
    PROVE  NotesTyped'
<1>1. noteWorker[w].payload = None /\ noteWorker[w].existing = None
  BY WorkerStates DEF Wiki!Check
<1>2. CASE users # None
  <2>1. Wiki!Checked(w, heap[users], type) /\ UNCHANGED <<users, heap>>
    BY <1>2 DEF Wiki!Check
  <2>2. PICK x : x \in Wiki!Worker /\ NoteHeld(x) /\ noteWorker' = [noteWorker EXCEPT ![w] = x]
    BY <2>1, CheckedTyped
  <2> QED
    BY <2>1, <2>2, NotesTypedStep DEF Wiki!Check, NotesTyped, Wiki!TypeOK
<1>3. CASE users = None /\ Wiki!CacheHit
  <2>1. PICK r : r = Wiki!Fresh({})
    OBVIOUS
  <2>2. r \in Refs /\ payload \in Refs
    BY <1>1, <1>3, <2>1, NewObjects DEF Wiki!CacheHit, NotesTyped, Wiki!TypeOK, Wiki!Optional
  <2>3. PICK list : list = Wiki!Sorted(heap[payload])
    OBVIOUS
  <2>4. list \in Seq(Wiki!Notes) /\ Wiki!Kept(r, list) \in Wiki!Optional(Refs)
    BY <2>2, <2>3, SortedInSeq DEF NotesTyped, Wiki!TypeOK, Wiki!Optional
  <2>5. PICK h : h = [heap EXCEPT ![r] = list]
    OBVIOUS
  <2>6. h \in [Refs -> Seq(Wiki!Notes)]
    BY <2>2, <2>4, <2>5 DEF NotesTyped, Wiki!TypeOK
  <2>7. Wiki!HeapIs(h) /\ users' = Wiki!Kept(r, list) /\ Wiki!Checked(w, list, type)
    BY <1>3, <2>1, <2>3, <2>5 DEF Wiki!Check
  <2>8. PICK x : x \in Wiki!Worker /\ NoteHeld(x) /\ noteWorker' = [noteWorker EXCEPT ![w] = x]
    BY <2>7, CheckedTyped
  <2>9. heap' \in [Refs -> Seq(Wiki!Notes)] /\ users' \in Wiki!Optional(Refs)
    BY <2>4, <2>6, <2>7, HeapHas
  <2> QED
    BY <2>8, <2>9, NotesTypedStep DEF Wiki!Check, NotesTyped, Wiki!TypeOK
<1>4. CASE users = None /\ ~Wiki!CacheHit
  <2>1. PICK x : x = Doing("checkFetch", type, FALSE)
    OBVIOUS
  <2>2. x \in Wiki!Worker /\ NoteHeld(x)
    BY <2>1, NewStates
  <2>3. noteWorker' = [noteWorker EXCEPT ![w] = x] /\ UNCHANGED <<users, heap>>
    BY <1>4, <2>1, DoingUnchecked DEF Wiki!Check
  <2> QED
    BY <2>2, <2>3, NotesTypedStep DEF Wiki!Check, NotesTyped, Wiki!TypeOK
<1> QED
  BY <1>2, <1>3, <1>4

LEMMA CheckFetchesTyped ==
    ASSUME NotesTyped, NEW w \in NoteWorkers, Wiki!CheckFetched(w)
    PROVE  NotesTyped'
<1>1. noteWorker[w].payload = None /\ noteWorker[w].existing = None /\ noteWorker[w].type \in Types
  BY WorkerStates DEF Wiki!CheckFetched, NoteHeld
<1>2. PICK p : p = Wiki!Fresh({})
  OBVIOUS
<1>3. PICK r : r = Wiki!Fresh({p})
  OBVIOUS
<1>4. p \in Refs /\ r \in Refs
  BY <1>1, <1>2, <1>3, NewObjects
<1>5. PICK list : list = Wiki!Sorted(page)
  OBVIOUS
<1>6. list \in Seq(Wiki!Notes) /\ Wiki!Kept(r, list) \in Wiki!Optional(Refs)
  BY <1>4, <1>5, SortedInSeq DEF NotesTyped, Wiki!TypeOK, Wiki!Optional
<1>7. PICK h : h = [heap EXCEPT ![p] = page, ![r] = list]
  OBVIOUS
<1>8. h \in [Refs -> Seq(Wiki!Notes)]
  BY <1>4, <1>6, <1>7 DEF NotesTyped, Wiki!TypeOK
<1>9. /\ Wiki!HeapIs(h) /\ payload' = Wiki!StoredAs(p) /\ users' = Wiki!Kept(r, list)
      /\ Wiki!Checked(w, list, noteWorker[w].type)
  BY <1>2, <1>3, <1>5, <1>7 DEF Wiki!CheckFetched
<1>10. PICK x : x \in Wiki!Worker /\ NoteHeld(x) /\ noteWorker' = [noteWorker EXCEPT ![w] = x]
  BY <1>1, <1>9, CheckedTyped
<1>11. /\ heap' \in [Refs -> Seq(Wiki!Notes)] /\ users' \in Wiki!Optional(Refs)
       /\ payload' \in Wiki!Optional(Refs)
  BY <1>4, <1>6, <1>8, <1>9, HeapHas DEF NotesTyped, Wiki!TypeOK, Wiki!StoredAs, Wiki!Optional
<1> QED
  BY <1>10, <1>11, NotesTypedStep DEF Wiki!CheckFetched, NotesTyped, Wiki!TypeOK

LEMMA AddsUncheckedTyped ==
    ASSUME NotesTyped, NEW w \in NoteWorkers, NEW type \in Types, Wiki!AddUnchecked(w, type)
    PROVE  NotesTyped'
<1>1. PICK x : x = Doing("add", type, FALSE)
  OBVIOUS
<1>2. x \in Wiki!Worker /\ NoteHeld(x)
  BY <1>1, NewStates
<1>3. noteWorker' = [noteWorker EXCEPT ![w] = x]
  BY <1>1, DoingUnchecked DEF Wiki!AddUnchecked
<1> QED
  BY <1>2, <1>3, NotesTypedStep DEF Wiki!AddUnchecked, NotesTyped, Wiki!TypeOK

\* What the worker that has added its note to the payload p has.
Adding(x, pc, note, p, existing, text) ==
    [pc |-> pc, checks |-> x.checks, type |-> x.type, note |-> note,
     payload |-> p, existing |-> existing, text |-> text]

WorkerFields == {"pc", "checks", "type", "note", "payload", "existing", "text"}

LEMMA WorkerIsItsFields ==
    ASSUME NEW x \in Wiki!Worker
    PROVE  /\ DOMAIN x = WorkerFields /\ x = [f \in WorkerFields |-> x[f]]
           /\ x.checks \in BOOLEAN /\ x.type \in Wiki!Optional(Types) /\ x.note \in Wiki!Optional(Wiki!Notes)
           /\ x.payload \in Wiki!Optional(Refs) /\ x.existing \in Wiki!Optional(Refs)
           /\ x.text \in Seq(Wiki!Notes)
  BY DEF Wiki!Worker, WorkerFields

LEMMA AddingTyped ==
    ASSUME NEW x \in Wiki!Worker, x.type \in Types, NEW pc \in {"edit", "existingFetch"},
           NEW note \in Wiki!Notes, NEW p \in Refs,
           NEW existing, pc = "edit" => existing \in Refs, pc = "existingFetch" => existing = None,
           NEW text \in Seq(Wiki!Notes)
    PROVE  Adding(x, pc, note, p, existing, text) \in Wiki!Worker /\ NoteHeld(Adding(x, pc, note, p, existing, text))
<1>1. /\ x.checks \in BOOLEAN /\ x.type \in Wiki!Optional(Types) /\ note \in Wiki!Optional(Wiki!Notes)
      /\ p \in Wiki!Optional(Refs) /\ existing \in Wiki!Optional(Refs)
  BY WorkerIsItsFields DEF Wiki!Optional
<1>2. Adding(x, pc, note, p, existing, text) \in Wiki!Worker
  BY <1>1 DEF Wiki!Worker, Adding
<1>3. NoteHeld(Adding(x, pc, note, p, existing, text))
  BY DEF NoteHeld, Adding
<1> QED
  BY <1>2, <1>3

\* addUserNote, in three ways: the list is known, built, or not there to be built.
AddedKnowing(w, p, u, n, added) ==
    /\ u # None
    /\ noteWorker' = [noteWorker EXCEPT ![w] = Adding(noteWorker[w], "edit", n, p, u, added[p])]
    /\ users' = u /\ Wiki!HeapIs(added)

AddedBuilding(w, p, c, u, n, added, r) ==
    /\ u = None /\ Wiki!Caching /\ c # None
    /\ noteWorker' = [noteWorker EXCEPT ![w] = Adding(noteWorker[w], "edit", n, p, r, added[p])]
    /\ users' = Wiki!Kept(r, Wiki!Sorted(added[c]))
    /\ Wiki!HeapIs([added EXCEPT ![r] = Wiki!Sorted(added[c])])

AddedAsking(w, p, c, u, n, added) ==
    /\ u = None /\ ~ (Wiki!Caching /\ c # None)
    /\ noteWorker' = [noteWorker EXCEPT ![w] = Adding(noteWorker[w], "existingFetch", n, p, u, added[p])]
    /\ users' = u /\ Wiki!HeapIs(added)

LEMMA AddToWays ==
    ASSUME NEW w \in NoteWorkers, noteWorker[w] \in Wiki!Worker, NEW h, NEW p, NEW c, NEW u,
           Wiki!AddTo(w, h, p, c, u),
           NEW n, n = Wiki!NewNote(w), NEW added, added = [h EXCEPT ![p] = Append(@, n)],
           NEW r, r = Wiki!Fresh({p, c})
    PROVE  /\ clock < MaxUserNotes /\ clock' = clock + 1 /\ payload' = c
           /\ \/ AddedKnowing(w, p, u, n, added)
              \/ AddedBuilding(w, p, c, u, n, added, r)
              \/ AddedAsking(w, p, c, u, n, added)
<1>1. clock < MaxUserNotes /\ clock' = clock + 1 /\ payload' = c
  BY DEF Wiki!AddTo
<1>2. PICK adding : adding = [Wiki!Edits(w, added, p, u) EXCEPT !.note = n]
  OBVIOUS
<1>3. /\ adding = Adding(noteWorker[w], "edit", n, p, u, added[p])
      /\ [adding EXCEPT !.existing = r] = Adding(noteWorker[w], "edit", n, p, r, added[p])
      /\ [adding EXCEPT !.pc = "existingFetch"] = Adding(noteWorker[w], "existingFetch", n, p, u, added[p])
  <2>1. PICK x : x = noteWorker[w]
    OBVIOUS
  <2>2. x \in Wiki!Worker /\ DOMAIN x = WorkerFields
    BY <2>1, WorkerIsItsFields
  <2>4. adding = [[x EXCEPT !.pc = "edit", !.payload = p, !.existing = u, !.text = added[p]] EXCEPT !.note = n]
    BY <2>1, <1>2 DEF Wiki!Edits
  <2>5. DOMAIN adding = WorkerFields /\ adding = [f \in WorkerFields |-> adding[f]]
    <3>1. PICK y : y = [x EXCEPT !.pc = "edit", !.payload = p, !.existing = u, !.text = added[p]]
      OBVIOUS
    <3>2. DOMAIN y = WorkerFields
      BY <2>2, <3>1
    <3>3. adding = [y EXCEPT !.note = n]
      BY <2>4, <3>1
    <3> QED
      BY <3>2, <3>3
  <2>6. adding.pc = "edit" /\ adding.checks = x.checks /\ adding.type = x.type /\ adding.note = n
    BY <2>2, <2>4 DEF WorkerFields
  <2>7. adding.payload = p /\ adding.existing = u /\ adding.text = added[p]
    BY <2>2, <2>4 DEF WorkerFields
  <2>8. adding = Adding(x, "edit", n, p, u, added[p])
    BY <2>5, <2>6, <2>7 DEF WorkerFields, Adding
  <2>9. [adding EXCEPT !.existing = r] = Adding(x, "edit", n, p, r, added[p])
    <3>1. PICK y : y = [adding EXCEPT !.existing = r]
      OBVIOUS
    <3>2. y = [f \in WorkerFields |-> y[f]]
      BY <2>5, <3>1 DEF WorkerFields
    <3>3. y.pc = "edit" /\ y.checks = x.checks /\ y.type = x.type /\ y.note = n
      BY <2>5, <2>6, <3>1 DEF WorkerFields
    <3>4. y.payload = p /\ y.existing = r /\ y.text = added[p]
      BY <2>5, <2>7, <3>1 DEF WorkerFields
    <3> QED
      BY <3>1, <3>2, <3>3, <3>4 DEF WorkerFields, Adding
  <2>10. [adding EXCEPT !.pc = "existingFetch"] = Adding(x, "existingFetch", n, p, u, added[p])
    <3>1. PICK y : y = [adding EXCEPT !.pc = "existingFetch"]
      OBVIOUS
    <3>2. y = [f \in WorkerFields |-> y[f]]
      BY <2>5, <3>1 DEF WorkerFields
    <3>3. y.pc = "existingFetch" /\ y.checks = x.checks /\ y.type = x.type /\ y.note = n
      BY <2>5, <2>6, <3>1 DEF WorkerFields
    <3>4. y.payload = p /\ y.existing = u /\ y.text = added[p]
      BY <2>5, <2>7, <3>1 DEF WorkerFields
    <3> QED
      BY <3>1, <3>2, <3>3, <3>4 DEF WorkerFields, Adding
  <2> QED
    BY <2>1, <2>8, <2>9, <2>10
<1>4. IF u # None
      THEN /\ noteWorker' = [noteWorker EXCEPT ![w] = adding]
           /\ users' = u
           /\ Wiki!HeapIs(added)
      ELSE IF Wiki!Caching /\ c # None
      THEN /\ noteWorker' = [noteWorker EXCEPT ![w] = [adding EXCEPT !.existing = r]]
           /\ users' = Wiki!Kept(r, Wiki!Sorted(added[c]))
           /\ Wiki!HeapIs([added EXCEPT ![r] = Wiki!Sorted(added[c])])
      ELSE /\ noteWorker' = [noteWorker EXCEPT ![w] = [adding EXCEPT !.pc = "existingFetch"]]
           /\ users' = u
           /\ Wiki!HeapIs(added)
  BY <1>2 DEF Wiki!AddTo
<1>5. CASE u # None
  BY <1>1, <1>3, <1>4, <1>5 DEF AddedKnowing
<1>6. CASE u = None /\ Wiki!Caching /\ c # None
  BY <1>1, <1>3, <1>4, <1>6 DEF AddedBuilding
<1>7. CASE u = None /\ ~ (Wiki!Caching /\ c # None)
  BY <1>1, <1>3, <1>4, <1>7 DEF AddedAsking
<1> QED
  BY <1>1, <1>5, <1>6, <1>7

LEMMA AddToTyped ==
    ASSUME NotesTyped, NEW w \in NoteWorkers, noteWorker[w].pc \in {"add", "addFetch"},
           NEW h \in [Refs -> Seq(Wiki!Notes)], NEW p \in Refs, NEW c \in Wiki!Optional(Refs),
           NEW u \in Wiki!Optional(Refs),
           Wiki!AddTo(w, h, p, c, u), UNCHANGED <<ttl, store, page, failed>>
    PROVE  NotesTyped'
<1>1. /\ noteWorker[w] \in Wiki!Worker /\ NoteHeld(noteWorker[w])
      /\ noteWorker[w].payload = None /\ noteWorker[w].existing = None /\ noteWorker[w].type \in Types
  BY WorkerStates DEF NoteHeld
<1>2. PICK n : n = Wiki!NewNote(w)
  OBVIOUS
<1>3. PICK added : added = [h EXCEPT ![p] = Append(@, n)]
  OBVIOUS
<1>4. PICK r : r = Wiki!Fresh({p, c})
  OBVIOUS
<1>5. r \in Refs /\ r \notin Wiki!InUse /\ r # p /\ r # c
  BY <1>1, <1>4, NewObjects
<1>6. clock < MaxUserNotes /\ clock' = clock + 1 /\ payload' = c
  BY <1>1, <1>2, <1>3, <1>4, AddToWays
<1>7. clock' \in 0 .. MaxUserNotes /\ clock + 1 \in 1 .. MaxUserNotes
  BY <1>6, InstancesAssumption DEF Wiki!NotesAssumption, NotesTyped, Wiki!TypeOK
<1>8. n \in Wiki!Notes
  BY <1>1, <1>2, <1>7, WorkerIsItsFields DEF Wiki!NewNote, Wiki!Notes
<1>9. added \in [Refs -> Seq(Wiki!Notes)]
  BY <1>3, <1>8
<1>10. /\ page' \in Seq(Wiki!Notes) /\ failed' \subseteq Wiki!Notes /\ payload' \in Wiki!Optional(Refs)
       /\ UNCHANGED <<ttl, store>>
  BY <1>6 DEF NotesTyped, Wiki!TypeOK
<1>11. CASE AddedKnowing(w, p, u, n, added)
  <2>1. PICK x : x = Adding(noteWorker[w], "edit", n, p, u, added[p])
    OBVIOUS
  <2>2. x \in Wiki!Worker /\ NoteHeld(x)
    BY <1>1, <1>8, <1>9, <1>11, <2>1, AddingTyped DEF Wiki!Optional, AddedKnowing
  <2>3. heap' \in [Refs -> Seq(Wiki!Notes)] /\ users' \in Wiki!Optional(Refs)
    BY <1>9, <1>11, HeapHas DEF AddedKnowing
  <2> QED
    BY <1>7, <1>10, <1>11, <2>1, <2>2, <2>3, NotesTypedStep DEF AddedKnowing
<1>12. CASE AddedBuilding(w, p, c, u, n, added, r)
  <2>1. PICK x : x = Adding(noteWorker[w], "edit", n, p, r, added[p])
    OBVIOUS
  <2>2. x \in Wiki!Worker /\ NoteHeld(x)
    BY <1>1, <1>5, <1>8, <1>9, <2>1, AddingTyped
  <2>3. PICK list : list = Wiki!Sorted(added[c])
    OBVIOUS
  <2>4. list \in Seq(Wiki!Notes) /\ Wiki!Kept(r, list) \in Wiki!Optional(Refs)
    <3>1. added[c] \in Seq(Wiki!Notes) /\ r \in Wiki!Optional(Refs)
      BY <1>5, <1>9, <1>12 DEF Wiki!Optional, AddedBuilding
    <3> QED
      BY <2>3, <3>1, SortedInSeq
  <2>5. PICK g : g = [added EXCEPT ![r] = list]
    OBVIOUS
  <2>6. g \in [Refs -> Seq(Wiki!Notes)]
    BY <1>9, <2>4, <2>5
  <2>7. heap' \in [Refs -> Seq(Wiki!Notes)] /\ users' \in Wiki!Optional(Refs)
    BY <1>12, <2>3, <2>4, <2>5, <2>6, HeapHas DEF AddedBuilding
  <2> QED
    BY <1>7, <1>10, <1>12, <2>1, <2>2, <2>7, NotesTypedStep DEF AddedBuilding
<1>13. CASE AddedAsking(w, p, c, u, n, added)
  <2>1. PICK x : x = Adding(noteWorker[w], "existingFetch", n, p, u, added[p])
    OBVIOUS
  <2>2. x \in Wiki!Worker /\ NoteHeld(x)
    BY <1>1, <1>8, <1>9, <1>13, <2>1, AddingTyped DEF AddedAsking
  <2>3. heap' \in [Refs -> Seq(Wiki!Notes)] /\ users' \in Wiki!Optional(Refs)
    BY <1>9, <1>13, HeapHas DEF AddedAsking
  <2> QED
    BY <1>7, <1>10, <1>13, <2>1, <2>2, <2>3, NotesTypedStep DEF AddedAsking
<1>14. \/ AddedKnowing(w, p, u, n, added)
       \/ AddedBuilding(w, p, c, u, n, added, r)
       \/ AddedAsking(w, p, c, u, n, added)
  BY <1>1, <1>2, <1>3, <1>4, AddToWays
<1> QED
  BY <1>11, <1>12, <1>13, <1>14

LEMMA AddsTyped ==
    ASSUME NotesTyped, NEW w \in NoteWorkers, Wiki!Add(w)
    PROVE  NotesTyped'
<1>1. /\ noteWorker[w] \in Wiki!Worker /\ NoteHeld(noteWorker[w]) /\ noteWorker[w].pc = "add"
      /\ noteWorker[w].payload = None /\ noteWorker[w].existing = None /\ noteWorker[w].type \in Types
  BY WorkerStates DEF NoteHeld, Wiki!Add
<1>2. /\ UNCHANGED <<ttl, store, page, failed>> /\ heap \in [Refs -> Seq(Wiki!Notes)]
      /\ payload \in Wiki!Optional(Refs) /\ users \in Wiki!Optional(Refs)
  BY DEF Wiki!Add, NotesTyped, Wiki!TypeOK
<1>3. CASE Wiki!CacheHit
  <2>1. PICK p : p = Wiki!Handed(Wiki!Fresh({}))
    OBVIOUS
  <2>2. p \in Refs
    <3>1. Wiki!Fresh({}) \in Refs
      BY <1>1, NewObjects
    <3> QED
      BY <1>2, <1>3, <2>1, <3>1 DEF Wiki!Handed, Wiki!CacheHit, Wiki!Optional
  <2>3. PICK h : h = [heap EXCEPT ![p] = heap[payload]]
    OBVIOUS
  <2>4. h \in [Refs -> Seq(Wiki!Notes)]
    BY <1>2, <1>3, <2>2, <2>3 DEF Wiki!CacheHit, Wiki!Optional
  <2>5. Wiki!AddTo(w, h, p, payload, users)
    BY <1>3, <2>1, <2>3 DEF Wiki!Add
  <2> QED
    BY <1>1, <1>2, <2>2, <2>4, <2>5, AddToTyped
<1>4. CASE ~Wiki!CacheHit
  <2>1. PICK x : x = [noteWorker[w] EXCEPT !.pc = "addFetch"]
    OBVIOUS
  <2>2. x \in Wiki!Worker /\ NoteHeld(x)
    <3>1. x \in Wiki!Worker
      BY <1>1, <2>1 DEF Wiki!Worker
    <3>2. x.pc = "addFetch" /\ x.type \in Types /\ x.payload = None /\ x.existing = None
      BY <1>1, <2>1 DEF Wiki!Worker
    <3> QED
      BY <3>1, <3>2 DEF NoteHeld
  <2>3. noteWorker' = [noteWorker EXCEPT ![w] = x] /\ UNCHANGED <<clock, heap, payload, users>>
    BY <1>4, <2>1 DEF Wiki!Add
  <2> QED
    BY <1>2, <2>2, <2>3, NotesTypedStep DEF NotesTyped, Wiki!TypeOK
<1> QED
  BY <1>3, <1>4

LEMMA AddFetchesTyped ==
    ASSUME NotesTyped, NEW w \in NoteWorkers, Wiki!AddFetched(w)
    PROVE  NotesTyped'
<1>1. noteWorker[w].pc = "addFetch" /\ noteWorker[w].payload = None /\ noteWorker[w].existing = None
  BY WorkerStates DEF Wiki!AddFetched
<1>2. PICK p : p = Wiki!Fresh({})
  OBVIOUS
<1>3. PICK q : q = IF store = "memory" THEN p ELSE Wiki!Fresh({p})
  OBVIOUS
<1>4. p \in Refs /\ q \in Refs
  <2>1. p \in Refs
    BY <1>1, <1>2, NewObjects
  <2>2. Wiki!Fresh({p}) \in Refs
    BY <1>1, NewObjects
  <2> QED
    BY <1>3, <2>1, <2>2
<1>5. PICK h : h = [heap EXCEPT ![p] = page, ![q] = page]
  OBVIOUS
<1>6. h \in [Refs -> Seq(Wiki!Notes)] /\ UNCHANGED <<ttl, store, page, failed>>
  BY <1>4, <1>5 DEF NotesTyped, Wiki!TypeOK, Wiki!AddFetched
<1>7. Wiki!StoredAs(q) \in Wiki!Optional(Refs) /\ Wiki!UsersAfterFetch \in Wiki!Optional(Refs)
  BY <1>4 DEF Wiki!StoredAs, Wiki!UsersAfterFetch, Wiki!Optional, NotesTyped, Wiki!TypeOK
<1>8. Wiki!AddTo(w, h, p, Wiki!StoredAs(q), Wiki!UsersAfterFetch)
  BY <1>2, <1>3, <1>5 DEF Wiki!AddFetched
<1> QED
  BY <1>1, <1>4, <1>6, <1>7, <1>8, AddToTyped

\* The page has come a second time.
LEMMA ExistingFetchedIs ==
    ASSUME NotesTyped, NEW w \in NoteWorkers, Wiki!ExistingFetched(w), NEW q, q = Wiki!Fresh({}), NEW r,
           r = Wiki!Fresh({q}),
           NEW x, x = noteWorker[w]
    PROVE  /\ x.pc = "existingFetch" /\ q \in Refs /\ r \in Refs /\ r # q /\ x.payload \in Refs
           /\ q \notin Wiki!InUse /\ r \notin Wiki!InUse
           /\ noteWorker' = [noteWorker EXCEPT ![w] = Adding(x, "edit", x.note, x.payload, r, heap[x.payload])]
<1>1. /\ x \in Wiki!Worker /\ NoteHeld(x) /\ x.pc = "existingFetch" /\ x.existing = None
      /\ x.payload \in Refs /\ noteWorker[w].existing = None
  BY WorkerStates DEF Wiki!ExistingFetched, NoteHeld
<1>2. q \in Refs /\ q \notin Wiki!InUse
  BY <1>1, NewObjects
<1>3. r \in Refs /\ r \notin Wiki!InUse /\ r # q
  BY <1>1, NewObjects
<1>4. PICK y : y = Wiki!Edits(w, heap, x.payload, r)
  OBVIOUS
<1>5. y = [x EXCEPT !.pc = "edit", !.payload = x.payload, !.existing = r, !.text = heap[x.payload]]
  BY <1>4 DEF Wiki!Edits
<1>6. DOMAIN x = WorkerFields
  BY <1>1, WorkerIsItsFields
<1>7. y = [f \in WorkerFields |-> y[f]]
  BY <1>5, <1>6
<1>8. y.pc = "edit" /\ y.checks = x.checks /\ y.type = x.type /\ y.note = x.note
  BY <1>5, <1>6 DEF WorkerFields
<1>9. y.payload = x.payload /\ y.existing = r /\ y.text = heap[x.payload]
  BY <1>5, <1>6 DEF WorkerFields
<1>10. y = Adding(x, "edit", x.note, x.payload, r, heap[x.payload])
  BY <1>7, <1>8, <1>9 DEF WorkerFields, Adding
<1>11. noteWorker' = [noteWorker EXCEPT ![w] = y]
  BY <1>4 DEF Wiki!ExistingFetched
<1> QED
  BY <1>1, <1>2, <1>3, <1>10, <1>11

LEMMA ExistingFetchesTyped ==
    ASSUME NotesTyped, NEW w \in NoteWorkers, Wiki!ExistingFetched(w)
    PROVE  NotesTyped'
<1>1. PICK q : q = Wiki!Fresh({})
  OBVIOUS
<1>2. PICK r : r = Wiki!Fresh({q})
  OBVIOUS
<1>3. PICK x : x = noteWorker[w]
  OBVIOUS
<1>4. PICK y : y = Adding(x, "edit", x.note, x.payload, r, heap[x.payload])
  OBVIOUS
<1>5. /\ x.pc = "existingFetch" /\ q \in Refs /\ r \in Refs /\ x.payload \in Refs
      /\ noteWorker' = [noteWorker EXCEPT ![w] = y]
  BY <1>1, <1>2, <1>3, <1>4, ExistingFetchedIs
<1>6. heap[x.payload] \in Seq(Wiki!Notes) /\ x \in Wiki!Worker /\ x.note \in Wiki!Notes /\ x.type \in Types
  BY <1>3, <1>5, WorkerStates DEF NotesTyped, Wiki!TypeOK, NoteHeld
<1>7. y \in Wiki!Worker /\ NoteHeld(y)
  BY <1>4, <1>5, <1>6, AddingTyped
<1>8. PICK list : list = Wiki!Sorted(page)
  OBVIOUS
<1>9. list \in Seq(Wiki!Notes) /\ Wiki!Kept(r, list) \in Wiki!Optional(Refs)
  BY <1>5, <1>8, SortedInSeq DEF NotesTyped, Wiki!TypeOK, Wiki!Optional
<1>10. PICK h : h = [heap EXCEPT ![q] = page, ![r] = list]
  OBVIOUS
<1>11. h \in [Refs -> Seq(Wiki!Notes)]
  BY <1>5, <1>9, <1>10 DEF NotesTyped, Wiki!TypeOK
<1>12. payload' = Wiki!StoredAs(q) /\ users' = Wiki!Kept(r, list) /\ Wiki!HeapIs(h)
  BY <1>1, <1>2, <1>8, <1>10 DEF Wiki!ExistingFetched
<1>13. /\ heap' \in [Refs -> Seq(Wiki!Notes)] /\ payload' \in Wiki!Optional(Refs)
       /\ users' \in Wiki!Optional(Refs)
  BY <1>5, <1>9, <1>11, <1>12, HeapHas DEF NotesTyped, Wiki!TypeOK, Wiki!StoredAs, Wiki!Optional
<1> QED
  BY <1>5, <1>7, <1>13, NotesTypedStep DEF Wiki!ExistingFetched, NotesTyped, Wiki!TypeOK

LEMMA EditsTyped ==
    ASSUME NotesTyped, NEW w \in NoteWorkers, Wiki!Edited(w) \/ Wiki!EditFails(w)
    PROVE  NotesTyped'
<1>1. /\ noteWorker[w] \in Wiki!Worker /\ NoteHeld(noteWorker[w]) /\ noteWorker[w].pc = "edit"
      /\ noteWorker[w].text \in Seq(Wiki!Notes)
      /\ noteWorker[w].payload \in Refs /\ noteWorker[w].existing \in Refs /\ noteWorker[w].note \in Wiki!Notes
  BY WorkerStates, WorkerIsItsFields DEF Wiki!Edited, Wiki!EditFails, NoteHeld
<1>2. /\ noteWorker' = [noteWorker EXCEPT ![w] = Wiki!Idle] /\ Wiki!Idle \in Wiki!Worker
      /\ NoteHeld(Wiki!Idle) /\ UNCHANGED <<ttl, store, clock>>
  BY WorkerStates DEF Wiki!Edited, Wiki!EditFails
<1>3. CASE Wiki!Edited(w)
  <2>1. Wiki!WithNote(w) \in [Refs -> Seq(Wiki!Notes)]
    BY <1>1 DEF Wiki!WithNote, NotesTyped, Wiki!TypeOK
  <2>2. /\ Wiki!HeapIs(Wiki!WithNote(w)) /\ page' = noteWorker[w].text
        /\ payload' = Wiki!StoredAs(noteWorker[w].payload) /\ UNCHANGED failed
    BY <1>3 DEF Wiki!Edited
  <2>3. users' = IF Wiki!Caching THEN noteWorker[w].existing ELSE Wiki!UsersAfterFetch
    BY <1>3 DEF Wiki!Edited
  <2>4. /\ heap' \in [Refs -> Seq(Wiki!Notes)] /\ payload' \in Wiki!Optional(Refs)
        /\ users' \in Wiki!Optional(Refs)
    BY <1>1, <2>1, <2>2, <2>3, HeapHas DEF NotesTyped, Wiki!TypeOK, Wiki!StoredAs, Wiki!UsersAfterFetch,
                                           Wiki!Optional
  <2> QED
    BY <1>1, <1>2, <2>2, <2>4, NotesTypedStep DEF NotesTyped, Wiki!TypeOK
<1>4. CASE Wiki!EditFails(w)
  <2>1. /\ page' = page \/ page' = noteWorker[w].text
        /\ Wiki!HeapIs(heap) /\ failed' = failed \cup {noteWorker[w].note} /\ UNCHANGED <<payload, users>>
    BY <1>4 DEF Wiki!EditFails
  <2>2. heap' \in [Refs -> Seq(Wiki!Notes)]
    BY <2>1, HeapHas DEF NotesTyped, Wiki!TypeOK
  <2> QED
    BY <1>1, <1>2, <2>1, <2>2, NotesTypedStep DEF NotesTyped, Wiki!TypeOK
<1> QED
  BY <1>3, <1>4

LEMMA EnvironmentTyped ==
    ASSUME NotesTyped, Wiki!Expire \/ \E type \in Types : Wiki!ModeratorAdds(type)
    PROVE  NotesTyped'
<1>1. CASE Wiki!Expire
  <2>1. heap' \in [Refs -> Seq(Wiki!Notes)]
    BY <1>1, HeapHas DEF Wiki!Expire, NotesTyped, Wiki!TypeOK
  <2> QED
    BY <1>1, <2>1 DEF Wiki!Expire, NotesTyped, Wiki!TypeOK, Wiki!Optional
<1>2. ASSUME NEW type \in Types, Wiki!ModeratorAdds(type) PROVE NotesTyped'
  <2>1. clock + 1 \in 1 .. MaxUserNotes /\ clock' = clock + 1
    BY <1>2, InstancesAssumption DEF Wiki!ModeratorAdds, Wiki!NotesAssumption, NotesTyped, Wiki!TypeOK
  <2>2. PICK n : n = [time |-> clock + 1, type |-> type, checked |-> FALSE]
    OBVIOUS
  <2>3. n \in Wiki!Notes
    BY <2>1, <2>2 DEF Wiki!Notes
  <2>4. page' \in Seq(Wiki!Notes) /\ UNCHANGED <<ttl, store, heap, payload, users, noteWorker, failed>>
    BY <1>2, <2>2, <2>3 DEF Wiki!ModeratorAdds, NotesTyped, Wiki!TypeOK
  <2> QED
    BY <2>1, <2>4, InstancesAssumption DEF Wiki!NotesAssumption, NotesTyped, Wiki!TypeOK
<1> QED
  BY <1>1, <1>2

\* Every step keeps the types.
LEMMA NotesTypedNext == NotesTyped /\ [Wiki!Next]_noteVars => NotesTyped'
<1> SUFFICES ASSUME NotesTyped, [Wiki!Next]_noteVars PROVE NotesTyped'
  OBVIOUS
<1>1. ASSUME NEW w \in NoteWorkers, Wiki!Action(w) \/ Wiki!ReadOther(w) \/ Wiki!OtherFetched(w) PROVE NotesTyped'
  BY <1>1, OthersTyped, ChecksTyped, CheckFetchesTyped, AddsUncheckedTyped, AddsTyped, AddFetchesTyped,
     ExistingFetchesTyped, EditsTyped DEF Wiki!Action
<1>2. CASE UNCHANGED noteVars
  BY <1>2 DEF noteVars, NotesTyped, Wiki!TypeOK
<1> QED
  BY <1>1, <1>2, EnvironmentTyped DEF Wiki!Next

-----------------------------------------------------------------------------
(* What one worker keeps of user notes *)

\* The worker has added its note to its payload, and not yet edited the page.
Pending(x) == x.pc \in {"existingFetch", "edit"}

\* The list in users is an object of its own; the payload that is to be saved, and
\* what is cached, has all that the page has.
NothingMissing(x) ==
    /\ users # None => Wiki!Caching /\ users # payload
    /\ Pending(x) => x.payload # users /\ heap[x.payload] = x.text /\ Wiki!Range(page) \subseteq Wiki!Range(x.text)
    /\ x.pc = "existingFetch" => ~Wiki!Caching
    /\ x.pc = "edit" => x.existing # x.payload
    /\ Wiki!Caching /\ payload # None => Wiki!Range(page) \subseteq Wiki!Range(heap[payload])

\* No two notes of the page are of one time; the note that is to be saved is later
\* than them, and than those of failed actions.
OneOfEach(list) == \A i, j \in DOMAIN list : list[i].time = list[j].time => i = j

InTime(x) ==
    /\ OneOfEach(page)
    /\ \A i \in DOMAIN page : page[i].time <= clock
    /\ \A n \in failed : n.time <= clock /\ n \notin Wiki!Range(page)
    /\ Pending(x) => /\ x.note.time = clock /\ x.note.checked = x.checks /\ x.note.type = x.type
                     /\ \A i \in DOMAIN page : page[i].time < clock
                     /\ \A n \in failed : n.time < clock

\* The note that a check looks at.
Newest(list) == list[Len(list)]

\* A list from which an action can tell what the page holds.
Shows(list) ==
    /\ Wiki!Range(page) \subseteq Wiki!Range(list)
    /\ page = <<>> => list = <<>>
    /\ page # <<>> => list # <<>> /\ Newest(list) = Newest(Wiki!Sorted(page))
    /\ store = "redis" => list = Wiki!Sorted(page)

\* What is kept is what the page holds, but for the note that is to be saved, which
\* the memory store has in what it holds.
SameAsPage(x) ==
    /\ Pending(x) => x.text = Append(page, x.note)
    /\ Wiki!Caching /\ payload # None =>
          heap[payload] = IF x.pc = "edit" /\ store = "memory" THEN x.text ELSE page
    /\ users # None /\ (x.pc # "edit" \/ store = "redis") => Shows(heap[users])
    /\ x.pc = "edit" /\ Wiki!Caching => /\ Wiki!Range(page) \subseteq Wiki!Range(heap[x.existing])
                                        /\ store = "redis" => heap[x.existing] = Wiki!Sorted(page)

\* The check of a note holds until the page is edited.
CheckHolds(x) ==
    x.pc \in {"add", "addFetch", "existingFetch", "edit"} /\ x.checks => Wiki!CheckPasses(Wiki!Sorted(page), x.type)

NotesInv(n) ==
    /\ NotesTyped
    /\ NothingMissing(noteWorker[n])
    /\ Wiki!NoTraces => InTime(noteWorker[n]) /\ SameAsPage(noteWorker[n]) /\ CheckHolds(noteWorker[n])
    /\ Wiki!NeverTwiceInARow

-----------------------------------------------------------------------------
(* One order *)

Ascending(list) == \A i, j \in DOMAIN list : i < j => list[i].time < list[j].time

LEMMA NotesAre ==
    /\ \A note \in Wiki!Notes : note.time \in Nat
    /\ \A s \in Seq(Wiki!Notes) : /\ Len(s) \in Nat /\ DOMAIN s = 1 .. Len(s)
                                  /\ \A i \in DOMAIN s : s[i] \in Wiki!Notes /\ s[i].time \in Nat
<1>1. ASSUME NEW note \in Wiki!Notes PROVE note.time \in Nat
  BY InstancesAssumption DEF Wiki!Notes, Wiki!NotesAssumption
<1>2. ASSUME NEW s \in Seq(Wiki!Notes) PROVE Len(s) \in Nat /\ DOMAIN s = 1 .. Len(s) /\ \A i \in DOMAIN s : s[i] \in Wiki!Notes
  OBVIOUS
<1> QED
  BY <1>1, <1>2

\* Notes of different times have one order.
LEMMA OneOrder ==
    ASSUME NEW s \in Seq(Wiki!Notes), NEW t \in Seq(Wiki!Notes), Len(s) = Len(t),
           Wiki!Range(s) = Wiki!Range(t), Ascending(s), Ascending(t)
    PROVE  s = t
<1>1. /\ DOMAIN s = 1 .. Len(s) /\ DOMAIN t = DOMAIN s /\ Len(s) \in Nat
      /\ \A i \in DOMAIN s : s[i].time \in Nat /\ t[i].time \in Nat
  BY NotesAre
<1>2. SUFFICES ASSUME NEW i \in DOMAIN s, s[i] # t[i], \A j \in DOMAIN s : j < i => s[j] = t[j] PROVE FALSE
  <2>1. PICK D : D = {i \in DOMAIN s : s[i] # t[i]}
    OBVIOUS
  <2>2. CASE D = {}
    BY <1>1, <2>1, <2>2
  <2>3. CASE D # {}
    <3>1. D \in SUBSET Nat
      BY <1>1, <2>1
    <3>2. PICK i \in D : \A j \in D : i <= j
      BY <2>3, <3>1, LeastNat
    <3> QED
      BY <1>1, <1>2, <2>1, <3>2
  <2> QED
    BY <2>2, <2>3
<1>3. s[i] \in Wiki!Range(t) /\ t[i] \in Wiki!Range(s)
  BY <1>1, <1>2 DEF Wiki!Range
<1>4. PICK j \in DOMAIN t : t[j] = s[i]
  BY <1>3 DEF Wiki!Range
<1>5. PICK k \in DOMAIN s : s[k] = t[i]
  BY <1>3 DEF Wiki!Range
<1>6. i < j
  <2>1. ~ (j < i)
    BY <1>1, <1>2, <1>4 DEF Ascending
  <2> QED
    BY <1>1, <1>2, <1>4, <2>1
<1>7. i < k
  <2>1. ~ (k < i)
    BY <1>1, <1>2, <1>5 DEF Ascending
  <2> QED
    BY <1>1, <1>2, <1>5, <2>1
<1>8. t[i].time < s[i].time
  BY <1>1, <1>4, <1>6 DEF Ascending
<1>9. s[i].time < t[i].time
  BY <1>1, <1>5, <1>7 DEF Ascending
<1> QED
  BY <1>1, <1>8, <1>9

LEMMA SortedAscends ==
    ASSUME NEW s \in Seq(Wiki!Notes), OneOfEach(s)
    PROVE  /\ Wiki!Sorted(s) \in Seq(Wiki!Notes) /\ Len(Wiki!Sorted(s)) = Len(s)
           /\ Wiki!Range(Wiki!Sorted(s)) = Wiki!Range(s) /\ Ascending(Wiki!Sorted(s))
<1>1. PICK t : t = Wiki!Sorted(s)
  OBVIOUS
<1>2. /\ t \in Seq(Wiki!Notes) /\ Len(t) = Len(s) /\ Wiki!Range(t) = Wiki!Range(s)
      /\ \A i, j \in DOMAIN s : i < j => t[i].time <= t[j].time
      /\ (\A i, j \in DOMAIN s : s[i] = s[j] => i = j) => \A i, j \in DOMAIN s : t[i] = t[j] => i = j
  BY <1>1, SortedIs
<1>3. \A i, j \in DOMAIN s : s[i] = s[j] => i = j
  BY DEF OneOfEach
<1>4. /\ DOMAIN s = 1 .. Len(s) /\ DOMAIN t = DOMAIN s /\ Len(s) \in Nat
      /\ \A i \in DOMAIN s : t[i].time \in Nat
  BY <1>2, NotesAre
<1>5. ASSUME NEW i \in DOMAIN t, NEW j \in DOMAIN t, i < j PROVE t[i].time < t[j].time
  <2>1. t[i] # t[j]
    BY <1>2, <1>3, <1>4, <1>5
  <2>2. t[i] \in Wiki!Range(s) /\ t[j] \in Wiki!Range(s)
    BY <1>2 DEF Wiki!Range
  <2>3. t[i].time # t[j].time
    BY <2>1, <2>2 DEF Wiki!Range, OneOfEach
  <2> QED
    BY <1>2, <1>4, <1>5, <2>3
<1> QED
  BY <1>1, <1>2, <1>5 DEF Ascending

\* A note that is later than the others comes last, wherever the page has it.
LEMMA SortedWith ==
    ASSUME NEW s \in Seq(Wiki!Notes), OneOfEach(s), NEW note \in Wiki!Notes,
           \A i \in DOMAIN s : s[i].time < note.time,
           NEW t \in Seq(Wiki!Notes), t = Append(s, note) \/ t = <<note>> \o s
    PROVE  /\ OneOfEach(t) /\ Wiki!Range(t) = Wiki!Range(s) \cup {note} /\ t # <<>>
           /\ Wiki!Sorted(t) = Append(Wiki!Sorted(s), note)
           /\ \A i \in DOMAIN t : t[i].time <= note.time
<1>1. /\ DOMAIN s = 1 .. Len(s) /\ Len(s) \in Nat /\ note.time \in Nat
      /\ \A i \in DOMAIN s : s[i].time \in Nat
  BY NotesAre
<1>2. Len(t) = Len(s) + 1 /\ DOMAIN t = 1 .. Len(s) + 1 /\ t # <<>>
  OBVIOUS
<1>3. \/ \A i \in DOMAIN t : t[i] = IF i = Len(s) + 1 THEN note ELSE s[i]
      \/ \A i \in DOMAIN t : t[i] = IF i = 1 THEN note ELSE s[i - 1]
  BY <1>1, <1>2
<1>4. OneOfEach(t)
  <2> SUFFICES ASSUME NEW i \in DOMAIN t, NEW j \in DOMAIN t, t[i].time = t[j].time PROVE i = j
    BY DEF OneOfEach
  <2>1. CASE \A k \in DOMAIN t : t[k] = IF k = Len(s) + 1 THEN note ELSE s[k]
    BY <1>1, <1>2, <2>1 DEF OneOfEach
  <2>2. CASE \A k \in DOMAIN t : t[k] = IF k = 1 THEN note ELSE s[k - 1]
    <3>1. ASSUME NEW k \in DOMAIN t, k # 1 PROVE k - 1 \in DOMAIN s /\ t[k] = s[k - 1] /\ t[k].time < note.time
      BY <1>1, <1>2, <2>2, <3>1
    <3>2. t[1] = note /\ 1 \in DOMAIN t
      BY <1>1, <1>2, <2>2
    <3>3. CASE i = 1 \/ j = 1
      BY <1>1, <3>1, <3>2, <3>3
    <3>4. CASE i # 1 /\ j # 1
      <4>1. i - 1 = j - 1
        BY <3>1, <3>4 DEF OneOfEach
      <4> QED
        BY <1>1, <1>2, <4>1
    <3> QED
      BY <3>3, <3>4
  <2> QED
    BY <1>3, <2>1, <2>2
<1>5. ASSUME NEW i \in DOMAIN t PROVE t[i] = note \/ \E k \in DOMAIN s : t[i] = s[k]
  <2>1. CASE \A k \in DOMAIN t : t[k] = IF k = Len(s) + 1 THEN note ELSE s[k]
    BY <1>1, <1>2, <2>1
  <2>2. CASE \A k \in DOMAIN t : t[k] = IF k = 1 THEN note ELSE s[k - 1]
    <3>1. CASE i # 1
      <4>1. i - 1 \in DOMAIN s
        BY <1>1, <1>2, <3>1
      <4> QED
        BY <2>2, <3>1, <4>1
    <3> QED
      BY <2>2, <3>1
  <2> QED
    BY <1>3, <2>1, <2>2
<1>6. Wiki!Range(t) = Wiki!Range(s) \cup {note}
  <2>1. \A i \in DOMAIN t : t[i] \in Wiki!Range(s) \cup {note}
    BY <1>5 DEF Wiki!Range
  <2>2. \E i \in DOMAIN t : t[i] = note
    BY <1>1, <1>2, <1>3
  <2>3. ASSUME NEW i \in DOMAIN s PROVE \E k \in DOMAIN t : t[k] = s[i]
    <3>1. i \in DOMAIN t /\ i + 1 \in DOMAIN t /\ i # Len(s) + 1 /\ i + 1 # 1 /\ i + 1 - 1 = i
      BY <1>1, <1>2
    <3> QED
      BY <1>3, <3>1
  <2> QED
    BY <2>1, <2>2, <2>3 DEF Wiki!Range
<1>7. PICK u : u = Wiki!Sorted(s)
  OBVIOUS
<1>8. PICK v : v = Append(u, note)
  OBVIOUS
<1>9. u \in Seq(Wiki!Notes) /\ Len(u) = Len(s) /\ Wiki!Range(u) = Wiki!Range(s) /\ Ascending(u)
  BY <1>7, SortedAscends
<1>10. /\ v \in Seq(Wiki!Notes) /\ Len(v) = Len(s) + 1 /\ DOMAIN v = 1 .. Len(s) + 1 /\ DOMAIN u = 1 .. Len(s)
      /\ \A i \in DOMAIN v : v[i] = IF i = Len(s) + 1 THEN note ELSE u[i]
  BY <1>1, <1>8, <1>9
<1>11. Wiki!Range(v) = Wiki!Range(u) \cup {note}
  <2>1. \A i \in DOMAIN v : v[i] \in Wiki!Range(u) \cup {note}
    BY <1>10 DEF Wiki!Range
  <2>2. v[Len(s) + 1] = note /\ Len(s) + 1 \in DOMAIN v
    BY <1>1, <1>10
  <2>3. \A i \in DOMAIN u : i \in DOMAIN v /\ v[i] = u[i]
    BY <1>1, <1>10
  <2> QED
    BY <2>1, <2>2, <2>3 DEF Wiki!Range
<1>12. Ascending(v)
  <2> SUFFICES ASSUME NEW i \in DOMAIN v, NEW j \in DOMAIN v, i < j PROVE v[i].time < v[j].time
    BY DEF Ascending
  <2>1. i \in DOMAIN u /\ v[i] = u[i]
    BY <1>1, <1>10
  <2>2. CASE j = Len(s) + 1
    <3>1. u[i] \in Wiki!Range(s)
      BY <1>9, <2>1 DEF Wiki!Range
    <3> QED
      BY <1>10, <2>1, <2>2, <3>1 DEF Wiki!Range
  <2>3. CASE j # Len(s) + 1
    BY <1>1, <1>9, <1>10, <2>1, <2>3 DEF Ascending
  <2> QED
    BY <2>2, <2>3
<1>13. /\ Wiki!Sorted(t) \in Seq(Wiki!Notes) /\ Len(Wiki!Sorted(t)) = Len(t)
       /\ Wiki!Range(Wiki!Sorted(t)) = Wiki!Range(t) /\ Ascending(Wiki!Sorted(t))
  BY <1>4, SortedAscends
<1>14. Wiki!Sorted(t) = v
  BY <1>2, <1>6, <1>9, <1>10, <1>11, <1>12, <1>13, OneOrder
<1>15. \A i \in DOMAIN t : t[i].time <= note.time
  BY <1>1, <1>5
<1> QED
  BY <1>2, <1>4, <1>6, <1>7, <1>8, <1>14, <1>15

\* Nothing sorted is nothing.
LEMMA SortedNothing ==
    ASSUME NEW s \in Seq(Wiki!Notes)
    PROVE  /\ Wiki!Sorted(s) \in Seq(Wiki!Notes) /\ (Wiki!Sorted(s) = <<>> <=> s = <<>>)
           /\ Wiki!Range(Wiki!Sorted(s)) = Wiki!Range(s)
<1>1. /\ Wiki!Sorted(s) \in Seq(Wiki!Notes) /\ Len(Wiki!Sorted(s)) = Len(s)
      /\ Wiki!Range(Wiki!Sorted(s)) = Wiki!Range(s)
  BY SortedIs
<1> QED
  BY <1>1


\* The objects that one worker and the caches use.
LEMMA InUseOfOne ==
    ASSUME NEW n, NoteWorkers = {n}
    PROVE  /\ Wiki!InUse = {payload, users, noteWorker[n].payload, noteWorker[n].existing}
           /\ Wiki!InUse' = {payload', users', noteWorker'[n].payload, noteWorker'[n].existing}
<1>1. Wiki!InUse = {payload, users, noteWorker[n].payload, noteWorker[n].existing}
  BY DEF Wiki!InUse
<1>2. Wiki!InUse' = {payload', users', noteWorker'[n].payload, noteWorker'[n].existing}
  BY DEF Wiki!InUse
<1> QED
  BY <1>1, <1>2

\* The heap after a step of the one worker.
LEMMA HeapOfOne ==
    ASSUME NEW n, NoteWorkers = {n}, NEW h \in [Refs -> Seq(Wiki!Notes)], Wiki!HeapIs(h)
    PROVE  \A r \in Refs : r = payload' \/ r = users' \/ r = noteWorker'[n].payload \/ r = noteWorker'[n].existing =>
               heap'[r] = h[r]
  BY HeapHas, InUseOfOne

LEMMA PropertiesOfNotesInv ==
    ASSUME NEW n, NoteWorkers = {n}, NotesInv(n)
    PROVE  Wiki!NothingFromFailures /\ Wiki!KnowsPage /\ Wiki!NeverTwiceInARow
<1>1. Wiki!NothingFromFailures
  BY DEF NotesInv, Wiki!NothingFromFailures, InTime
<1>2. Wiki!KnowsPage
  <2> SUFFICES ASSUME Wiki!NoTraces, noteWorker[n].pc = "idle", users # None
               PROVE  /\ Wiki!Range(page) \subseteq Wiki!Range(heap[users])
                      /\ (store = "redis" => heap[users] = Wiki!Sorted(page))
    BY DEF Wiki!KnowsPage, Wiki!Quiet
  <2>1. Shows(heap[users])
    BY DEF NotesInv, SameAsPage
  <2> QED
    BY <2>1 DEF Shows
<1> QED
  BY <1>1, <1>2 DEF NotesInv

LEMMA NotesInvInit ==
    ASSUME NEW n, NoteWorkers = {n}, Wiki!Init
    PROVE  NotesInv(n)
<1>1. NotesTyped
  BY NotesTypedInit
<1>2. /\ noteWorker[n] = Wiki!Idle /\ payload = None /\ users = None /\ failed = {} /\ page = <<>>
      /\ Wiki!Idle.pc = "idle"
  BY DEF Wiki!Init, Wiki!Idle
<1>3. NothingMissing(noteWorker[n])
  BY <1>2 DEF NothingMissing, Pending
<1>4. InTime(noteWorker[n]) /\ SameAsPage(noteWorker[n]) /\ CheckHolds(noteWorker[n])
  BY <1>2 DEF InTime, SameAsPage, CheckHolds, Pending, OneOfEach
<1>5. Wiki!NeverTwiceInARow
  <2>1. <<>> \in Seq(Wiki!Notes)
    OBVIOUS
  <2>2. Wiki!Sorted(page) = <<>>
    BY <1>2, <2>1, SortedNothing
  <2> QED
    BY <2>2 DEF Wiki!NeverTwiceInARow
<1> QED
  BY <1>1, <1>3, <1>4, <1>5 DEF NotesInv

-----------------------------------------------------------------------------

\* The list of what the page has, in order, shows it.
LEMMA SortedShows ==
    ASSUME page \in Seq(Wiki!Notes), NEW list, list = Wiki!Sorted(page)
    PROVE  Shows(list)
  BY SortedNothing DEF Shows

\* What is read from a list that shows the page is what the page tells.
LEMMA CheckedOnPage ==
    ASSUME page \in Seq(Wiki!Notes), NEW list, Shows(list), NEW type, Wiki!CheckPasses(list, type)
    PROVE  Wiki!CheckPasses(Wiki!Sorted(page), type)
  BY SortedNothing DEF Shows, Newest, Wiki!CheckPasses

\* A step that reads: nothing is added, nothing is about to be.
Reads(n) ==
    /\ UNCHANGED <<ttl, store, page, clock, failed>>
    /\ ~Pending(noteWorker[n]) /\ ~Pending(noteWorker'[n])
    /\ Wiki!NoTraces /\ noteWorker'[n].pc \in {"add", "addFetch"} /\ noteWorker'[n].checks =>
          Wiki!CheckPasses(Wiki!Sorted(page), noteWorker'[n].type)
    /\ users' # None => /\ Wiki!Caching /\ users' # payload'
                           /\ \/ users' = users /\ heap'[users'] = heap[users]
                              \/ Wiki!NoTraces => heap'[users'] = Wiki!Sorted(page)
    /\ Wiki!Caching /\ payload' # None => \/ payload' = payload /\ heap'[payload'] = heap[payload]
                                          \/ heap'[payload'] = page

LEMMA ReadsKeep ==
    ASSUME NEW n, NoteWorkers = {n}, NotesInv(n), NotesTyped', Reads(n)
    PROVE  NotesInv(n)'
<1>1. /\ (Wiki!NoTraces' <=> Wiki!NoTraces) /\ (Wiki!Caching' <=> Wiki!Caching)
      /\ page \in Seq(Wiki!Notes) /\ page' = page
  BY DEF NotesInv, NotesTyped, Wiki!TypeOK, Reads, Wiki!NoTraces, Wiki!Caching
<1>2. noteWorker[n].pc \notin {"existingFetch", "edit"} /\ noteWorker'[n].pc \notin {"existingFetch", "edit"}
  BY DEF Reads, Pending
<1>3. NothingMissing(noteWorker[n])'
  BY <1>1, <1>2 DEF NotesInv, NothingMissing, Reads, Pending
<1>4. Wiki!NeverTwiceInARow'
  BY <1>1 DEF NotesInv, Wiki!NeverTwiceInARow, Reads
<1>5. ASSUME Wiki!NoTraces' PROVE InTime(noteWorker[n])' /\ SameAsPage(noteWorker[n])' /\ CheckHolds(noteWorker[n])'
  <2>1. InTime(noteWorker[n]) /\ SameAsPage(noteWorker[n]) /\ CheckHolds(noteWorker[n])
    BY <1>1, <1>5 DEF NotesInv
  <2>2. InTime(noteWorker[n])'
    BY <1>2, <2>1 DEF InTime, Reads, Pending
  <2>3. CheckHolds(noteWorker[n])'
    BY <1>1, <1>2, <1>5 DEF CheckHolds, Reads
  <2>4. ASSUME Wiki!Caching', payload' # None PROVE heap'[payload'] = page'
    BY <1>1, <1>2, <2>1, <2>4 DEF SameAsPage, Reads
  <2>5. ASSUME users' # None PROVE Shows(heap[users])'
    <3>1. CASE users' = users /\ heap'[users'] = heap[users]
      <4>1. Shows(heap[users])
        BY <1>2, <2>1, <2>5, <3>1 DEF SameAsPage
      <4> QED
        BY <3>1, <4>1 DEF Shows, Reads
    <3>2. CASE heap'[users'] = Wiki!Sorted(page)
      <4>1. Shows(heap'[users'])
        BY <1>1, <3>2, SortedShows
      <4> QED
        BY <4>1 DEF Shows, Reads
    <3> QED
      BY <1>1, <1>5, <2>5, <3>1, <3>2 DEF Reads
  <2>6. SameAsPage(noteWorker[n])'
    BY <1>2, <2>4, <2>5 DEF SameAsPage, Pending
  <2> QED
    BY <2>2, <2>3, <2>6
<1> QED
  BY <1>3, <1>4, <1>5 DEF NotesInv


\* After a check, the worker has been told nothing else than the page tells.
LEMMA CheckedReads ==
    ASSUME NEW n \in NoteWorkers, NotesTyped, NEW type, NEW list, Wiki!Checked(n, list, type),
           Wiki!NoTraces => (Wiki!CheckPasses(list, type) => Wiki!CheckPasses(Wiki!Sorted(page), type))
    PROVE  /\ ~Pending(noteWorker'[n])
           /\ Wiki!NoTraces /\ noteWorker'[n].pc \in {"add", "addFetch"} /\ noteWorker'[n].checks =>
                 Wiki!CheckPasses(Wiki!Sorted(page), noteWorker'[n].type)
<1>1. noteWorker' = [noteWorker EXCEPT
                        ![n] = IF Wiki!CheckPasses(list, type) THEN Doing("add", type, TRUE) ELSE Wiki!Idle]
  BY DoingChecked DEF Wiki!Checked
<1>2. noteWorker'[n] = IF Wiki!CheckPasses(list, type) THEN Doing("add", type, TRUE) ELSE Wiki!Idle
  BY <1>1, WorkerStates
<1> QED
  BY <1>2 DEF Pending, Doing, Wiki!Idle

LEMMA CheckReads ==
    ASSUME NEW n, NoteWorkers = {n}, NotesInv(n), NotesTyped', NEW type \in Types, Wiki!Check(n, type)
    PROVE  Reads(n)
<1>1. /\ n \in NoteWorkers /\ NotesTyped /\ page \in Seq(Wiki!Notes) /\ heap \in [Refs -> Seq(Wiki!Notes)]
      /\ noteWorker[n].pc = "idle" /\ UNCHANGED <<ttl, store, page, clock, payload, failed>>
      /\ payload \in Wiki!Optional(Refs) /\ users \in Wiki!Optional(Refs) /\ noteWorker[n].existing = None
  BY WorkerStates DEF Wiki!Check, NotesInv, NotesTyped, Wiki!TypeOK
<1>2. ~Pending(noteWorker[n]) /\ NothingMissing(noteWorker[n]) /\ (Wiki!NoTraces => SameAsPage(noteWorker[n]))
  BY <1>1 DEF Pending, NotesInv
<1>3. CASE users # None
  <2>1. Wiki!Checked(n, heap[users], type) /\ UNCHANGED <<users, heap>>
    BY <1>3 DEF Wiki!Check
  <2>2. Wiki!NoTraces => Shows(heap[users])
    BY <1>1, <1>2, <1>3 DEF SameAsPage
  <2>3. /\ ~Pending(noteWorker'[n])
        /\ Wiki!NoTraces /\ noteWorker'[n].pc \in {"add", "addFetch"} /\ noteWorker'[n].checks =>
              Wiki!CheckPasses(Wiki!Sorted(page), noteWorker'[n].type)
    BY <1>1, <2>1, <2>2, CheckedOnPage, CheckedReads
  <2> QED
    BY <1>1, <1>2, <1>3, <2>1, <2>3 DEF Reads, NothingMissing
<1>4. CASE users = None /\ Wiki!CacheHit
  <2>1. PICK r : r = Wiki!Fresh({})
    OBVIOUS
  <2>2. r \in Refs /\ r \notin Wiki!InUse
    BY <1>1, <2>1, NewObjects
  <2>3. PICK list : list = Wiki!Sorted(heap[payload])
    OBVIOUS
  <2>4. PICK h : h = [heap EXCEPT ![r] = list]
    OBVIOUS
  <2>5. Wiki!Checked(n, list, type) /\ users' = Wiki!Kept(r, list) /\ Wiki!HeapIs(h)
    BY <1>4, <2>1, <2>3, <2>4 DEF Wiki!Check
  <2>6. Wiki!NoTraces => list = Wiki!Sorted(page)
    BY <1>1, <1>2, <1>4, <2>3 DEF SameAsPage, Wiki!CacheHit
  <2>7. /\ ~Pending(noteWorker'[n])
        /\ Wiki!NoTraces /\ noteWorker'[n].pc \in {"add", "addFetch"} /\ noteWorker'[n].checks =>
              Wiki!CheckPasses(Wiki!Sorted(page), noteWorker'[n].type)
    BY <1>1, <2>5, <2>6, CheckedReads
  <2>8. payload \in Refs /\ payload # r
    BY <1>1, <1>4, <2>2 DEF Wiki!CacheHit, Wiki!Optional, Wiki!InUse
  <2>9. h \in [Refs -> Seq(Wiki!Notes)]
    BY <1>1, <2>2, <2>3, <2>4, <2>8, SortedNothing
  <2>10. heap'[payload] = heap[payload]
    <3>1. heap'[payload] = h[payload]
      BY <1>1, <2>5, <2>8, <2>9, HeapOfOne
    <3> QED
      BY <1>1, <2>2, <2>4, <2>8, <3>1
  <2>11. users' # None => Wiki!Caching /\ users' = r /\ heap'[users'] = list
    <3> SUFFICES ASSUME users' # None PROVE Wiki!Caching /\ users' = r /\ heap'[users'] = list
      OBVIOUS
    <3>1. users' = r /\ Wiki!Caching
      BY <2>5 DEF Wiki!Kept
    <3>2. heap'[r] = h[r]
      BY <2>2, <2>5, <2>9, <3>1, HeapOfOne
    <3> QED
      BY <1>1, <2>2, <2>4, <3>1, <3>2
  <2> QED
    BY <1>1, <1>2, <2>6, <2>7, <2>8, <2>10, <2>11 DEF Reads
<1>5. CASE users = None /\ ~Wiki!CacheHit
  <2>1. noteWorker' = [noteWorker EXCEPT ![n] = Doing("checkFetch", type, FALSE)] /\ UNCHANGED <<users, heap>>
    BY <1>5, DoingUnchecked DEF Wiki!Check
  <2>2. noteWorker'[n] = Doing("checkFetch", type, FALSE)
    BY <1>1, <2>1, WorkerStates
  <2>3. noteWorker'[n].pc = "checkFetch"
    BY <2>2 DEF Doing
  <2> QED
    BY <1>1, <1>2, <1>5, <2>1, <2>3 DEF Reads, Pending
<1> QED
  BY <1>3, <1>4, <1>5

LEMMA CheckFetchedReads ==
    ASSUME NEW n, NoteWorkers = {n}, NotesInv(n), NotesTyped', Wiki!CheckFetched(n)
    PROVE  Reads(n)
<1>1. /\ n \in NoteWorkers /\ NotesTyped /\ page \in Seq(Wiki!Notes) /\ heap \in [Refs -> Seq(Wiki!Notes)]
      /\ noteWorker[n].pc = "checkFetch" /\ UNCHANGED <<ttl, store, page, clock, failed>>
      /\ payload \in Wiki!Optional(Refs) /\ users \in Wiki!Optional(Refs) /\ noteWorker[n].existing = None
  BY WorkerStates DEF Wiki!CheckFetched, NotesInv, NotesTyped, Wiki!TypeOK
<1>2. ~Pending(noteWorker[n])
  BY <1>1 DEF Pending
<1>3. PICK p : p = Wiki!Fresh({})
  OBVIOUS
<1>4. PICK r : r = Wiki!Fresh({p})
  OBVIOUS
<1>5. p \in Refs /\ r \in Refs /\ p \notin Wiki!InUse /\ r \notin Wiki!InUse /\ r # p
  BY <1>1, <1>3, <1>4, NewObjects
<1>6. PICK list : list = Wiki!Sorted(page)
  OBVIOUS
<1>7. PICK h : h = [heap EXCEPT ![p] = page, ![r] = list]
  OBVIOUS
<1>8. /\ Wiki!Checked(n, list, noteWorker[n].type) /\ payload' = Wiki!StoredAs(p)
      /\ users' = Wiki!Kept(r, list) /\ Wiki!HeapIs(h)
  BY <1>3, <1>4, <1>6, <1>7 DEF Wiki!CheckFetched
<1>9. h \in [Refs -> Seq(Wiki!Notes)] /\ h[p] = page /\ h[r] = list
  BY <1>1, <1>5, <1>6, <1>7, SortedNothing
<1>10. /\ ~Pending(noteWorker'[n])
       /\ Wiki!NoTraces /\ noteWorker'[n].pc \in {"add", "addFetch"} /\ noteWorker'[n].checks =>
             Wiki!CheckPasses(Wiki!Sorted(page), noteWorker'[n].type)
  BY <1>1, <1>6, <1>8, CheckedReads
<1>11. users' # None => Wiki!Caching /\ users' = r /\ heap'[users'] = list
  BY <1>5, <1>8, <1>9, HeapOfOne DEF Wiki!Kept
<1>12. Wiki!Caching => payload' = p /\ heap'[payload'] = page
  BY <1>5, <1>8, <1>9, HeapOfOne DEF Wiki!StoredAs, Wiki!Caching
<1> QED
  BY <1>1, <1>2, <1>5, <1>6, <1>10, <1>11, <1>12 DEF Reads

\* The other steps that read, or change no more than what the worker awaits.
LEMMA OthersRead ==
    ASSUME NEW n, NoteWorkers = {n}, NotesInv(n), NotesTyped', Wiki!ReadOther(n) \/ Wiki!OtherFetched(n)
    PROVE  Reads(n)
<1>1. /\ n \in NoteWorkers /\ NotesTyped /\ page \in Seq(Wiki!Notes) /\ heap \in [Refs -> Seq(Wiki!Notes)]
      /\ noteWorker[n].pc \in {"idle", "otherFetch"} /\ UNCHANGED <<ttl, store, page, clock, failed>>
      /\ payload \in Wiki!Optional(Refs) /\ users \in Wiki!Optional(Refs) /\ noteWorker[n].existing = None
      /\ noteWorker[n] \in Wiki!Worker /\ DOMAIN noteWorker = NoteWorkers
  BY WorkerStates DEF Wiki!ReadOther, Wiki!OtherFetched, NotesInv, NotesTyped, Wiki!TypeOK
<1>2. ~Pending(noteWorker[n]) /\ NothingMissing(noteWorker[n])
  BY <1>1 DEF Pending, NotesInv
<1>3. CASE Wiki!ReadOther(n)
  <2>1. UNCHANGED <<heap, payload, users>> /\ noteWorker'[n].pc = "otherFetch"
    BY <1>1, <1>3 DEF Wiki!ReadOther, Wiki!Worker
  <2> QED
    BY <1>1, <1>2, <2>1 DEF Reads, Pending, NothingMissing
<1>4. CASE Wiki!OtherFetched(n)
  <2>1. PICK p : p = Wiki!Fresh({})
    OBVIOUS
  <2>2. p \in Refs /\ p \notin Wiki!InUse
    BY <1>1, <2>1, NewObjects
  <2>3. PICK h : h = [heap EXCEPT ![p] = page]
    OBVIOUS
  <2>4. /\ Wiki!HeapIs(h) /\ payload' = Wiki!StoredAs(p) /\ users' = Wiki!UsersAfterFetch
        /\ noteWorker'[n].pc = "idle"
    BY <1>1, <1>4, <2>1, <2>3 DEF Wiki!OtherFetched, Wiki!Idle
  <2>5. h \in [Refs -> Seq(Wiki!Notes)] /\ h[p] = page
    BY <1>1, <2>2, <2>3
  <2>6. users' = None
    BY <1>2, <2>4 DEF Wiki!UsersAfterFetch, NothingMissing, Wiki!Caching
  <2>7. Wiki!Caching => heap'[payload'] = page
    BY <2>2, <2>4, <2>5, HeapOfOne DEF Wiki!StoredAs, Wiki!Caching
  <2> QED
    BY <1>1, <1>2, <2>4, <2>6, <2>7 DEF Reads, Pending
<1> QED
  BY <1>3, <1>4

LEMMA BeginningsRead ==
    ASSUME NEW n, NoteWorkers = {n}, NotesInv(n), NotesTyped',
           (\E type \in Types : Wiki!AddUnchecked(n, type)) \/ (Wiki!Add(n) /\ ~Wiki!CacheHit)
    PROVE  Reads(n)
<1>1. /\ n \in NoteWorkers /\ NotesTyped /\ noteWorker[n].pc \in {"idle", "add"}
      /\ UNCHANGED <<ttl, store, page, clock, failed, heap, payload, users>>
      /\ noteWorker[n] \in Wiki!Worker /\ DOMAIN noteWorker = NoteWorkers
  BY WorkerStates DEF Wiki!AddUnchecked, Wiki!Add, NotesInv, NotesTyped, Wiki!TypeOK
<1>2. ~Pending(noteWorker[n]) /\ NothingMissing(noteWorker[n])
  BY <1>1 DEF Pending, NotesInv
<1>3. ASSUME NEW type \in Types, Wiki!AddUnchecked(n, type)
      PROVE  noteWorker'[n].pc = "add" /\ ~noteWorker'[n].checks
  <2>1. noteWorker'[n] = Doing("add", type, FALSE)
    BY <1>1, <1>3, DoingUnchecked DEF Wiki!AddUnchecked
  <2> QED
    BY <2>1 DEF Doing
<1>4. CASE Wiki!Add(n) /\ ~Wiki!CacheHit
  <2>1. /\ noteWorker[n].pc = "add" /\ noteWorker'[n].pc = "addFetch"
        /\ noteWorker'[n].type = noteWorker[n].type /\ noteWorker'[n].checks = noteWorker[n].checks
    BY <1>1, <1>4 DEF Wiki!Add, Wiki!Worker
  <2>2. Wiki!NoTraces => CheckHolds(noteWorker[n])
    BY DEF NotesInv
  <2> QED
    BY <1>1, <1>2, <2>1, <2>2 DEF Reads, Pending, NothingMissing, CheckHolds
<1>5. CASE \E type \in Types : Wiki!AddUnchecked(n, type)
  <2>1. noteWorker'[n].pc = "add" /\ ~noteWorker'[n].checks
    BY <1>3, <1>5
  <2> QED
    BY <1>1, <1>2, <2>1 DEF Reads, Pending, NothingMissing
<1> QED
  BY <1>4, <1>5


\* What addUserNote finds: a payload, what the store holds, and the list of the map.
Found(h, p, c, u) ==
    /\ h \in [Refs -> Seq(Wiki!Notes)] /\ p \in Refs /\ c \in Wiki!Optional(Refs) /\ u \in Wiki!Optional(Refs)
    /\ u # None => Wiki!Caching /\ u # c /\ u # p
    /\ Wiki!Range(page) \subseteq Wiki!Range(h[p])
    /\ Wiki!Caching => c # None /\ Wiki!Range(page) \subseteq Wiki!Range(h[c]) /\ (store = "memory" => c = p)
    /\ store # "memory" => c # p
    /\ Wiki!NoTraces => h[p] = page /\ (Wiki!Caching => h[c] = page) /\ (u # None => Shows(h[u]))

\* What the step leads to: y is the worker, g the heap and r the list built for it.
Added(n, y, g, p, c) ==
    /\ noteWorker' = [noteWorker EXCEPT ![n] = y] /\ payload' = c /\ heap' \in [Refs -> Seq(Wiki!Notes)]
    /\ y.pc \in {"edit", "existingFetch"} /\ y.payload = p /\ y.checks = noteWorker[n].checks
    /\ y.type = noteWorker[n].type
    /\ y.note = Wiki!NewNote(n) /\ y.text = Append(g, y.note)
    /\ heap'[p] = y.text
    /\ y.pc = "existingFetch" => ~Wiki!Caching /\ users' = None
    /\ users' # None => Wiki!Caching /\ users' = y.existing /\ users' # c
    /\ y.pc = "edit" => y.existing # p /\ y.existing \in Refs

LEMMA AddedKeeps ==
    ASSUME NEW n, NoteWorkers = {n}, NotesInv(n), NotesTyped', NEW h, NEW p, NEW c, NEW u, Found(h, p, c, u),
           NEW y, Added(n, y, h[p], p, c),
           noteWorker[n].pc \in {"add", "addFetch"}, clock < MaxUserNotes, clock' = clock + 1, UNCHANGED <<ttl, store, page, failed>>,
           Wiki!Caching => heap'[c] = IF store = "memory" THEN y.text ELSE h[c],
           Wiki!NoTraces /\ y.pc = "edit" /\ Wiki!Caching => /\ Wiki!Range(page) \subseteq Wiki!Range(heap'[y.existing])
                                                             /\ store = "redis" => Shows(heap'[y.existing])
    PROVE  NotesInv(n)'
<1>1. /\ n \in NoteWorkers /\ NotesTyped /\ page \in Seq(Wiki!Notes) /\ clock \in Nat
      /\ DOMAIN noteWorker = NoteWorkers
      /\ store \in {"memory", "redis"} /\ (Wiki!NoTraces' <=> Wiki!NoTraces) /\ (Wiki!Caching' <=> Wiki!Caching)
      /\ h \in [Refs -> Seq(Wiki!Notes)] /\ p \in Refs /\ h[p] \in Seq(Wiki!Notes)
  BY InstancesAssumption DEF NotesInv, NotesTyped, Wiki!TypeOK, Wiki!NotesAssumption, Wiki!NoTraces,
                             Wiki!Caching, Found
<1>2. noteWorker'[n] = y /\ y.pc \in {"edit", "existingFetch"} /\ y.note.time = clock' /\ y.note.checked = y.checks
      /\ y.note.type = y.type
  BY <1>1 DEF Added, Wiki!NewNote
<1>3. Wiki!Range(page) \subseteq Wiki!Range(y.text) /\ (Wiki!NoTraces => y.text = Append(page, y.note))
  <2>1. Wiki!Range(h[p]) \subseteq Wiki!Range(Append(h[p], y.note))
    BY <1>1 DEF Wiki!Range
  <2> QED
    BY <2>1 DEF Added, Found
<1>4. NothingMissing(noteWorker[n])'
  <2>1. users' # None => Wiki!Caching /\ users' # payload' /\ users' # p
    BY <1>2 DEF Added
  <2>2. Pending(y) /\ y.payload = p /\ heap'[p] = y.text /\ (y.pc = "edit" => y.existing # p)
    BY <1>2 DEF Pending, Added
  <2>3. Wiki!Caching => Wiki!Range(page) \subseteq Wiki!Range(heap'[c])
    BY <1>3 DEF Found
  <2>4. payload' = c /\ page' = page /\ (y.pc = "existingFetch" => ~Wiki!Caching)
    BY DEF Added
  <2>5. users' # None => Wiki!Caching' /\ users' # payload'
    BY <1>1, <2>1
  <2>6. /\ noteWorker'[n].payload # users' /\ heap'[noteWorker'[n].payload] = noteWorker'[n].text
        /\ Wiki!Range(page') \subseteq Wiki!Range(noteWorker'[n].text)
    BY <1>2, <1>3, <2>1, <2>2, <2>4, InstancesAssumption DEF Wiki!NotesAssumption, Found
  <2>7. /\ noteWorker'[n].pc = "existingFetch" => ~Wiki!Caching'
        /\ noteWorker'[n].pc = "edit" => noteWorker'[n].existing # noteWorker'[n].payload
        /\ Wiki!Caching' /\ payload' # None => Wiki!Range(page') \subseteq Wiki!Range(heap'[payload'])
    BY <1>1, <1>2, <2>2, <2>3, <2>4
  <2> QED
    BY <2>5, <2>6, <2>7 DEF NothingMissing
<1>5. Wiki!NeverTwiceInARow'
  BY <1>1 DEF NotesInv, Wiki!NeverTwiceInARow
<1>6. ASSUME Wiki!NoTraces' PROVE InTime(noteWorker[n])' /\ SameAsPage(noteWorker[n])' /\ CheckHolds(noteWorker[n])'
  <2>1. InTime(noteWorker[n]) /\ SameAsPage(noteWorker[n]) /\ CheckHolds(noteWorker[n])
    BY <1>1, <1>6 DEF NotesInv
  <2>2. InTime(noteWorker[n])'
    <3>1. \A i \in DOMAIN page : page[i].time \in Nat
      BY <1>1, NotesAre
    <3>2. \A m \in failed : m.time \in Nat
      BY <1>1, NotesAre DEF NotesTyped, Wiki!TypeOK
    <3> QED
      BY <1>1, <1>2, <2>1, <3>1, <3>2 DEF InTime, Added
  <2>3. CheckHolds(noteWorker[n])'
    BY <1>1, <1>2, <2>1 DEF CheckHolds, Added
  <2>4. ASSUME Wiki!Caching, payload' # None
        PROVE  heap'[payload'] = IF y.pc = "edit" /\ store = "memory" THEN y.text ELSE page
    BY <1>1, <1>2, <1>6, <2>4 DEF Added, Found
  <2>5. ASSUME users' # None, store = "redis" PROVE Shows(heap[users])'
    <3>1. users' = y.existing /\ y.pc = "edit" /\ Wiki!Caching
      BY <1>2, <2>5 DEF Added
    <3>2. Shows(heap'[users'])
      BY <1>1, <1>6, <2>5, <3>1
    <3> QED
      BY <3>2 DEF Shows
  <2>6. y.pc = "edit" /\ Wiki!Caching => /\ Wiki!Range(page) \subseteq Wiki!Range(heap'[y.existing])
                                         /\ store = "redis" => heap'[y.existing] = Wiki!Sorted(page)
    BY <1>1, <1>6 DEF Shows
  <2>7. ASSUME users' # None PROVE y.pc = "edit"
    BY <1>2, <2>7 DEF Added
  <2>8. SameAsPage(noteWorker[n])'
    BY <1>1, <1>2, <1>3, <1>6, <2>4, <2>5, <2>6, <2>7 DEF SameAsPage
  <2> QED
    BY <2>2, <2>3, <2>8
<1> QED
  BY <1>4, <1>5, <1>6 DEF NotesInv

LEMMA AddToKeeps ==
    ASSUME NEW n, NoteWorkers = {n}, NotesInv(n), NotesTyped', NEW h, NEW p, NEW c, NEW u, Found(h, p, c, u),
           Wiki!AddTo(n, h, p, c, u), noteWorker[n].pc \in {"add", "addFetch"}, UNCHANGED <<ttl, store, page, failed>>
    PROVE  NotesInv(n)'
<1>1. /\ n \in NoteWorkers /\ NotesTyped /\ noteWorker[n] \in Wiki!Worker /\ DOMAIN noteWorker = NoteWorkers
      /\ noteWorker[n].payload = None /\ noteWorker[n].existing = None /\ noteWorker[n].type \in Types
      /\ heap' \in [Refs -> Seq(Wiki!Notes)] /\ page \in Seq(Wiki!Notes) /\ store \in {"memory", "redis"}
  BY WorkerStates, InstancesAssumption DEF NotesInv, NotesTyped, Wiki!TypeOK, NoteHeld, Wiki!NotesAssumption
<1>2. /\ h \in [Refs -> Seq(Wiki!Notes)] /\ p \in Refs /\ c \in Wiki!Optional(Refs)
      /\ u \in Wiki!Optional(Refs)
      /\ u # None => Wiki!Caching /\ u # c /\ u # p /\ u \in Refs
      /\ Wiki!Caching => c # None /\ c \in Refs /\ (store = "memory" => c = p)
      /\ store # "memory" => c # p
  BY DEF Found, Wiki!Optional
<1>3. PICK note : note = Wiki!NewNote(n)
  OBVIOUS
<1>4. PICK added : added = [h EXCEPT ![p] = Append(@, note)]
  OBVIOUS
<1>5. PICK r : r = Wiki!Fresh({p, c})
  OBVIOUS
<1>6. r \in Refs /\ r # p /\ r # c
  BY <1>1, <1>5, NewObjects
<1>7. /\ clock < MaxUserNotes /\ clock' = clock + 1 /\ payload' = c
      /\ \/ AddedKnowing(n, p, u, note, added)
         \/ AddedBuilding(n, p, c, u, note, added, r)
         \/ AddedAsking(n, p, c, u, note, added)
  BY <1>1, <1>3, <1>4, <1>5, AddToWays
<1>8. note \in Wiki!Notes
  <2>1. clock + 1 \in 1 .. MaxUserNotes
    BY <1>1, <1>7, InstancesAssumption DEF Wiki!NotesAssumption, NotesTyped, Wiki!TypeOK
  <2> QED
    BY <1>1, <1>3, <2>1, WorkerIsItsFields DEF Wiki!NewNote, Wiki!Notes
<1>9. /\ added \in [Refs -> Seq(Wiki!Notes)] /\ added[p] = Append(h[p], note)
      /\ \A q \in Refs : q # p => added[q] = h[q]
  BY <1>2, <1>4, <1>8
<1>10. Wiki!Range(h[p]) \subseteq Wiki!Range(added[p])
  BY <1>2, <1>9 DEF Wiki!Range
<1>11. CASE AddedKnowing(n, p, u, note, added)
  <2>1. PICK y : y = Adding(noteWorker[n], "edit", note, p, u, added[p])
    OBVIOUS
  <2>2. /\ u # None /\ noteWorker' = [noteWorker EXCEPT ![n] = y] /\ users' = u /\ Wiki!HeapIs(added)
    BY <1>11, <2>1 DEF AddedKnowing
  <2>3. noteWorker'[n] = y /\ y.payload = p /\ y.existing = u
    BY <1>1, <2>1, <2>2 DEF Adding
  <2>4. heap'[p] = added[p] /\ heap'[u] = added[u] /\ (Wiki!Caching => heap'[c] = added[c])
    <3>1. \A q \in Refs : q = payload' \/ q = users' \/ q = noteWorker'[n].payload \/ q = noteWorker'[n].existing =>
              heap'[q] = added[q]
      BY <1>9, <2>2, HeapOfOne
    <3> QED
      BY <1>2, <1>7, <2>2, <2>3, <3>1
  <2>5. Added(n, y, h[p], p, c)
    BY <1>1, <1>2, <1>3, <1>7, <1>9, <2>1, <2>2, <2>4 DEF Added, Adding
  <2>6. Wiki!Caching => heap'[c] = IF store = "memory" THEN y.text ELSE h[c]
    BY <1>1, <1>2, <1>9, <2>1, <2>4 DEF Adding
  <2>7. Wiki!NoTraces => Shows(heap'[y.existing])
    BY <1>2, <1>9, <2>2, <2>3, <2>4 DEF Found
  <2> QED
    BY <1>7, <2>5, <2>6, <2>7, AddedKeeps DEF Shows
<1>12. CASE AddedBuilding(n, p, c, u, note, added, r)
  <2>1. PICK y : y = Adding(noteWorker[n], "edit", note, p, r, added[p])
    OBVIOUS
  <2>2. PICK list : list = Wiki!Sorted(added[c])
    OBVIOUS
  <2>3. PICK g : g = [added EXCEPT ![r] = list]
    OBVIOUS
  <2>4. /\ u = None /\ Wiki!Caching /\ c # None /\ noteWorker' = [noteWorker EXCEPT ![n] = y]
        /\ users' = Wiki!Kept(r, list) /\ Wiki!HeapIs(g)
    BY <1>12, <2>1, <2>2, <2>3 DEF AddedBuilding
  <2>5. noteWorker'[n] = y /\ y.payload = p /\ y.existing = r
    BY <1>1, <2>1, <2>4 DEF Adding
  <2>6. list \in Seq(Wiki!Notes) /\ Wiki!Range(list) = Wiki!Range(added[c])
    BY <1>2, <1>9, <2>2, <2>4, SortedNothing
  <2>7. g \in [Refs -> Seq(Wiki!Notes)] /\ g[r] = list /\ \A q \in Refs : q # r => g[q] = added[q]
    BY <1>6, <1>9, <2>3, <2>6
  <2>8. heap'[p] = added[p] /\ heap'[r] = list /\ heap'[c] = added[c]
    <3>1. \A q \in Refs : q = payload' \/ q = users' \/ q = noteWorker'[n].payload \/ q = noteWorker'[n].existing =>
              heap'[q] = g[q]
      BY <2>4, <2>7, HeapOfOne
    <3> QED
      BY <1>2, <1>6, <1>7, <2>4, <2>5, <2>7, <3>1
  <2>9. Added(n, y, h[p], p, c)
    BY <1>1, <1>3, <1>6, <1>7, <1>9, <2>1, <2>4, <2>8 DEF Added, Adding, Wiki!Kept
  <2>10. heap'[c] = IF store = "memory" THEN y.text ELSE h[c]
    BY <1>1, <1>2, <1>9, <2>1, <2>4, <2>8 DEF Adding
  <2>11. Wiki!Range(page) \subseteq Wiki!Range(list)
    BY <1>2, <1>9, <1>10, <2>4, <2>6 DEF Found
  <2>12. Wiki!NoTraces /\ store = "redis" => Shows(list)
    BY <1>1, <1>2, <1>9, <2>2, <2>4, SortedShows DEF Found
  <2> QED
    BY <1>7, <2>5, <2>8, <2>9, <2>10, <2>11, <2>12, AddedKeeps
<1>13. CASE AddedAsking(n, p, c, u, note, added)
  <2>1. PICK y : y = Adding(noteWorker[n], "existingFetch", note, p, u, added[p])
    OBVIOUS
  <2>2. /\ u = None /\ ~ (Wiki!Caching /\ c # None) /\ noteWorker' = [noteWorker EXCEPT ![n] = y]
        /\ users' = u /\ Wiki!HeapIs(added)
    BY <1>13, <2>1 DEF AddedAsking
  <2>3. noteWorker'[n] = y /\ y.payload = p /\ y.pc = "existingFetch"
    BY <1>1, <2>1, <2>2 DEF Adding
  <2>4. heap'[p] = added[p] /\ ~Wiki!Caching
    <3>1. \A q \in Refs : q = payload' \/ q = users' \/ q = noteWorker'[n].payload \/ q = noteWorker'[n].existing =>
              heap'[q] = added[q]
      BY <1>9, <2>2, HeapOfOne
    <3> QED
      BY <1>2, <2>2, <2>3, <3>1 DEF Wiki!Optional
  <2>5. Added(n, y, h[p], p, c)
    BY <1>1, <1>3, <1>7, <1>9, <2>1, <2>2, <2>4 DEF Added, Adding
  <2> QED
    BY <1>7, <2>3, <2>4, <2>5, AddedKeeps
<1> QED
  BY <1>7, <1>11, <1>12, <1>13


LEMMA AddKeeps ==
    ASSUME NEW n, NoteWorkers = {n}, NotesInv(n), NotesTyped', Wiki!Add(n), Wiki!CacheHit
    PROVE  NotesInv(n)'
<1>1. /\ n \in NoteWorkers /\ NotesTyped /\ noteWorker[n].pc = "add" /\ noteWorker[n].existing = None
      /\ noteWorker[n].payload = None
      /\ heap \in [Refs -> Seq(Wiki!Notes)] /\ page \in Seq(Wiki!Notes)
      /\ payload \in Wiki!Optional(Refs) /\ users \in Wiki!Optional(Refs)
      /\ UNCHANGED <<ttl, store, page, failed>>
  BY WorkerStates DEF Wiki!Add, NotesInv, NotesTyped, Wiki!TypeOK
<1>2. Wiki!Caching /\ payload \in Refs /\ payload # None
  BY <1>1, InstancesAssumption DEF Wiki!CacheHit, Wiki!Optional, Wiki!NotesAssumption
<1>3. PICK p : p = Wiki!Handed(Wiki!Fresh({}))
  OBVIOUS
<1>4. PICK h : h = [heap EXCEPT ![p] = heap[payload]]
  OBVIOUS
<1>5. Wiki!AddTo(n, h, p, payload, users)
  BY <1>3, <1>4 DEF Wiki!Add
<1>6. Wiki!Fresh({}) \in Refs /\ Wiki!Fresh({}) # payload /\ Wiki!Fresh({}) # users
  <2>1. Wiki!Fresh({}) \in Refs /\ Wiki!Fresh({}) \notin Wiki!InUse
    BY <1>1, NewObjects
  <2> QED
    BY <2>1 DEF Wiki!InUse
<1>7. p \in Refs /\ (store = "memory" => payload = p) /\ (store # "memory" => payload # p)
  BY <1>2, <1>3, <1>6 DEF Wiki!Handed
<1>8. NothingMissing(noteWorker[n]) /\ (Wiki!NoTraces => SameAsPage(noteWorker[n]))
  BY DEF NotesInv
<1>9. users # None => users # payload /\ users # p /\ users \in Refs
  BY <1>1, <1>3, <1>6, <1>8 DEF NothingMissing, Wiki!Handed, Wiki!Optional
<1>10. /\ h \in [Refs -> Seq(Wiki!Notes)] /\ h[p] = heap[payload] /\ h[payload] = heap[payload]
       /\ (users # None => h[users] = heap[users])
  BY <1>1, <1>2, <1>4, <1>7, <1>9
<1>11. Wiki!Range(page) \subseteq Wiki!Range(heap[payload])
  BY <1>2, <1>8 DEF NothingMissing
<1>12. Wiki!NoTraces => heap[payload] = page /\ (users # None => Shows(heap[users]))
  BY <1>1, <1>2, <1>8 DEF SameAsPage
<1>13. Found(h, p, payload, users)
  BY <1>1, <1>2, <1>7, <1>9, <1>10, <1>11, <1>12 DEF Found
<1> QED
  BY <1>1, <1>5, <1>13, AddToKeeps

LEMMA AddFetchedKeeps ==
    ASSUME NEW n, NoteWorkers = {n}, NotesInv(n), NotesTyped', Wiki!AddFetched(n)
    PROVE  NotesInv(n)'
<1>1. /\ n \in NoteWorkers /\ NotesTyped /\ noteWorker[n].pc = "addFetch" /\ noteWorker[n].existing = None
      /\ heap \in [Refs -> Seq(Wiki!Notes)] /\ page \in Seq(Wiki!Notes)
      /\ payload \in Wiki!Optional(Refs) /\ users \in Wiki!Optional(Refs)
      /\ UNCHANGED <<ttl, store, page, failed>>
  BY WorkerStates DEF Wiki!AddFetched, NotesInv, NotesTyped, Wiki!TypeOK
<1>2. PICK p : p = Wiki!Fresh({})
  OBVIOUS
<1>3. PICK q : q = IF store = "memory" THEN p ELSE Wiki!Fresh({p})
  OBVIOUS
<1>4. p \in Refs /\ p # None /\ p # payload /\ q \in Refs /\ q # None /\ (store # "memory" => q # p)
  <2>1. p \in Refs /\ p \notin Wiki!InUse
    BY <1>1, <1>2, NewObjects
  <2>2. Wiki!Fresh({p}) \in Refs /\ Wiki!Fresh({p}) # p
    BY <1>1, NewObjects
  <2> QED
    BY <1>3, <2>1, <2>2, InstancesAssumption DEF Wiki!InUse, Wiki!NotesAssumption
<1>5. PICK h : h = [heap EXCEPT ![p] = page, ![q] = page]
  OBVIOUS
<1>6. Wiki!AddTo(n, h, p, Wiki!StoredAs(q), Wiki!UsersAfterFetch)
  BY <1>2, <1>3, <1>5 DEF Wiki!AddFetched
<1>7. Wiki!UsersAfterFetch = None
  <2>1. NothingMissing(noteWorker[n])
    BY DEF NotesInv
  <2> QED
    BY <2>1 DEF NothingMissing, Wiki!UsersAfterFetch, Wiki!Caching
<1>8. h \in [Refs -> Seq(Wiki!Notes)] /\ h[p] = page /\ h[q] = page
  BY <1>1, <1>4, <1>5
<1>9. /\ Wiki!StoredAs(q) \in Wiki!Optional(Refs) /\ (Wiki!Caching => Wiki!StoredAs(q) = q)
      /\ store # "memory" => Wiki!StoredAs(q) # p
  BY <1>1, <1>4 DEF Wiki!StoredAs, Wiki!Optional, Wiki!Caching
<1>10. Wiki!Caching /\ store = "memory" => Wiki!StoredAs(q) = p
  BY <1>3, <1>9
<1>11. Found(h, p, Wiki!StoredAs(q), Wiki!UsersAfterFetch)
  <2>1. Wiki!Caching => Wiki!StoredAs(q) # None /\ h[Wiki!StoredAs(q)] = page
    BY <1>4, <1>8, <1>9
  <2> QED
    BY <1>4, <1>7, <1>8, <1>9, <1>10, <2>1 DEF Found, Wiki!Optional
<1> QED
  BY <1>1, <1>6, <1>11, AddToKeeps

LEMMA ExistingFetchedKeeps ==
    ASSUME NEW n, NoteWorkers = {n}, NotesInv(n), NotesTyped', Wiki!ExistingFetched(n)
    PROVE  NotesInv(n)'
<1>1. /\ n \in NoteWorkers /\ NotesTyped /\ heap \in [Refs -> Seq(Wiki!Notes)] /\ page \in Seq(Wiki!Notes)
      /\ DOMAIN noteWorker = NoteWorkers
      /\ UNCHANGED <<ttl, store, page, clock, failed>>
      /\ (Wiki!NoTraces' <=> Wiki!NoTraces) /\ (Wiki!Caching' <=> Wiki!Caching)
  BY DEF Wiki!ExistingFetched, NotesInv, NotesTyped, Wiki!TypeOK, Wiki!NoTraces, Wiki!Caching
<1>2. PICK q : q = Wiki!Fresh({})
  OBVIOUS
<1>3. PICK r : r = Wiki!Fresh({q})
  OBVIOUS
<1>4. PICK x : x = noteWorker[n]
  OBVIOUS
<1>5. PICK y : y = Adding(x, "edit", x.note, x.payload, r, heap[x.payload])
  OBVIOUS
<1>6. /\ x.pc = "existingFetch" /\ q \in Refs /\ r \in Refs /\ r # q /\ x.payload \in Refs
      /\ q \notin Wiki!InUse /\ r \notin Wiki!InUse /\ noteWorker' = [noteWorker EXCEPT ![n] = y]
  <2>1. /\ x.pc = "existingFetch" /\ q \in Refs /\ r \in Refs /\ r # q /\ x.payload \in Refs
        /\ q \notin Wiki!InUse /\ r \notin Wiki!InUse
    BY <1>1, <1>2, <1>3, <1>4, ExistingFetchedIs
  <2>2. n \in NoteWorkers /\ NotesTyped /\ Wiki!ExistingFetched(n)
    BY <1>1
  <2>3. noteWorker' = [noteWorker EXCEPT ![n] = Adding(x, "edit", x.note, x.payload, r, heap[x.payload])]
    BY <1>2, <1>3, <1>4, <2>2, ExistingFetchedIs
  <2> QED
    BY <1>5, <2>1, <2>3
<1>7. NothingMissing(x) /\ (Wiki!NoTraces => InTime(x) /\ SameAsPage(x) /\ CheckHolds(x)) /\ Pending(x) /\ ~Wiki!Caching
  BY <1>4, <1>6 DEF NotesInv, NothingMissing, Pending
<1>8. x.payload # q /\ x.payload # r
  BY <1>1, <1>4, <1>6 DEF Wiki!InUse
<1>9. /\ noteWorker'[n] = y /\ y.pc = "edit" /\ y.payload = x.payload /\ y.existing = r /\ y.note = x.note
      /\ y.text = heap[x.payload] /\ y.checks = x.checks /\ y.type = x.type
  BY <1>1, <1>5, <1>6 DEF Adding
<1>10. PICK h : h = [heap EXCEPT ![q] = page, ![r] = Wiki!Sorted(page)]
  OBVIOUS
<1>11. Wiki!HeapIs(h) /\ users' = None
  BY <1>2, <1>3, <1>7, <1>10 DEF Wiki!ExistingFetched, Wiki!Kept
<1>12. h \in [Refs -> Seq(Wiki!Notes)] /\ h[x.payload] = heap[x.payload]
  BY <1>1, <1>6, <1>8, <1>10, SortedNothing
<1>13. heap'[x.payload] = heap[x.payload]
  <2>1. noteWorker'[n].payload = x.payload
    BY <1>9
  <2>2. heap'[x.payload] = h[x.payload]
    BY <1>6, <1>11, <1>12, <2>1, HeapOfOne
  <2> QED
    BY <1>12, <2>2
<1>14. y.text = x.text
  BY <1>7, <1>9 DEF NothingMissing
<1>15. NothingMissing(noteWorker[n])'
  BY <1>1, <1>6, <1>7, <1>8, <1>9, <1>11, <1>13, <1>14, InstancesAssumption DEF NothingMissing, Pending,
         Wiki!NotesAssumption
<1>16. Wiki!NeverTwiceInARow'
  BY <1>1 DEF NotesInv, Wiki!NeverTwiceInARow
<1>17. ASSUME Wiki!NoTraces' PROVE InTime(noteWorker[n])' /\ SameAsPage(noteWorker[n])' /\ CheckHolds(noteWorker[n])'
  <2>1. InTime(x) /\ SameAsPage(x) /\ CheckHolds(x)
    BY <1>1, <1>7, <1>17
  <2>2. InTime(noteWorker[n])'
    BY <1>1, <1>7, <1>9, <2>1 DEF InTime
  <2>3. SameAsPage(noteWorker[n])'
    BY <1>1, <1>7, <1>9, <1>11, <1>14, <2>1 DEF SameAsPage
  <2>4. CheckHolds(noteWorker[n])'
    BY <1>1, <1>6, <1>9, <2>1 DEF CheckHolds
  <2> QED
    BY <2>2, <2>3, <2>4
<1> QED
  BY <1>15, <1>16, <1>17 DEF NotesInv


\* A page that gets the latest note keeps its promises.
LEMMA LaterNote ==
    ASSUME page \in Seq(Wiki!Notes), page' \in Seq(Wiki!Notes), NEW note \in Wiki!Notes, OneOfEach(page),
           page' = Append(page, note) \/ page' = <<note>> \o page, \A i \in DOMAIN page : page[i].time < note.time,
           note.checked => Wiki!CheckPasses(Wiki!Sorted(page), note.type),
           \A i \in 2 .. Len(Wiki!Sorted(page)) :
               Wiki!Sorted(page)[i].checked => Wiki!Sorted(page)[i].type # Wiki!Sorted(page)[i - 1].type
    PROVE  \A i \in 2 .. Len(Wiki!Sorted(page')) :
               Wiki!Sorted(page')[i].checked => Wiki!Sorted(page')[i].type # Wiki!Sorted(page')[i - 1].type
<1>1. PICK s : s = Wiki!Sorted(page)
  OBVIOUS
<1>2. PICK t : t = Wiki!Sorted(page')
  OBVIOUS
<1>3. s \in Seq(Wiki!Notes)
  BY <1>1, SortedNothing
<1>4. t = Append(s, note)
  BY <1>1, <1>2, SortedWith
<1>5. /\ Len(s) \in Nat /\ Len(t) = Len(s) + 1 /\ t[Len(s) + 1] = note
      /\ \A i \in 1 .. Len(s) : t[i] = s[i]
  BY <1>3, <1>4
<1>6. ASSUME NEW i \in 2 .. Len(t), t[i].checked PROVE t[i].type # t[i - 1].type
  <2>1. CASE i \in 2 .. Len(s)
    <3>1. i \in 1 .. Len(s) /\ i - 1 \in 1 .. Len(s)
      BY <1>5, <2>1
    <3> QED
      BY <1>1, <1>5, <1>6, <2>1, <3>1
  <2>2. CASE i = Len(s) + 1
    <3>1. Len(s) \in 1 .. Len(s) /\ i - 1 = Len(s)
      BY <1>5, <1>6, <2>2
    <3>2. Wiki!CheckPasses(s, note.type) /\ s # <<>>
      BY <1>1, <1>5, <1>6, <2>2, <3>1
    <3>3. s[Len(s)].type # note.type
      BY <1>3, <3>2 DEF Wiki!CheckPasses, Newest
    <3> QED
      BY <1>5, <2>2, <3>1, <3>3
  <2> QED
    BY <1>5, <1>6, <2>1, <2>2
<1> QED
  BY <1>1, <1>2, <1>6

LEMMA EditedKeeps ==
    ASSUME NEW n, NoteWorkers = {n}, NotesInv(n), NotesTyped', Wiki!Edited(n)
    PROVE  NotesInv(n)'
<1>1. PICK x : x = noteWorker[n]
  OBVIOUS
<1>2. /\ n \in NoteWorkers /\ NotesTyped /\ heap \in [Refs -> Seq(Wiki!Notes)] /\ page \in Seq(Wiki!Notes)
      /\ DOMAIN noteWorker = NoteWorkers
      /\ page' \in Seq(Wiki!Notes) /\ UNCHANGED <<ttl, store, clock, failed>> /\ store \in {"memory", "redis"}
      /\ (Wiki!NoTraces' <=> Wiki!NoTraces) /\ (Wiki!Caching' <=> Wiki!Caching)
  BY InstancesAssumption DEF Wiki!Edited, NotesInv, NotesTyped, Wiki!TypeOK, Wiki!NoTraces, Wiki!Caching,
                             Wiki!NotesAssumption
<1>3. /\ x.pc = "edit" /\ x.payload \in Refs /\ x.existing \in Refs /\ x.note \in Wiki!Notes
      /\ x.text \in Seq(Wiki!Notes)
      /\ Pending(x)
  BY <1>1, <1>2, WorkerStates, WorkerIsItsFields DEF Wiki!Edited, NoteHeld, Pending
<1>4. /\ NothingMissing(x) /\ x.existing # x.payload /\ heap[x.payload] = x.text
      /\ Wiki!NoTraces => InTime(x) /\ SameAsPage(x) /\ CheckHolds(x)
  BY <1>1, <1>3 DEF NotesInv, NothingMissing
<1>5. /\ page' = x.text /\ payload' = Wiki!StoredAs(x.payload)
      /\ users' = (IF Wiki!Caching THEN x.existing ELSE Wiki!UsersAfterFetch)
      /\ Wiki!HeapIs(Wiki!WithNote(n))
      /\ noteWorker'[n].pc = "idle"
  BY <1>1, <1>2 DEF Wiki!Edited, Wiki!Idle
<1>6. users' = IF Wiki!Caching THEN x.existing ELSE None
  BY <1>4, <1>5 DEF NothingMissing, Wiki!UsersAfterFetch, Wiki!Caching
<1>7. PICK h : h = [heap EXCEPT ![x.existing] = Append(@, x.note)]
  OBVIOUS
<1>8. Wiki!HeapIs(h)
  BY <1>1, <1>3, <1>5, <1>7, InstancesAssumption DEF Wiki!WithNote, Wiki!NotesAssumption
<1>9. h \in [Refs -> Seq(Wiki!Notes)] /\ h[x.payload] = x.text /\ h[x.existing] = Append(heap[x.existing], x.note)
  BY <1>2, <1>3, <1>4, <1>7
<1>10. Wiki!Caching => /\ payload' = x.payload /\ heap'[x.payload] = x.text
                       /\ users' = x.existing /\ heap'[x.existing] = Append(heap[x.existing], x.note)
  BY <1>3, <1>5, <1>6, <1>8, <1>9, HeapOfOne DEF Wiki!StoredAs, Wiki!Caching
<1>11. NothingMissing(noteWorker[n])'
  BY <1>2, <1>4, <1>5, <1>6, <1>10 DEF NothingMissing, Pending
<1>12. ASSUME Wiki!NoTraces PROVE /\ InTime(noteWorker[n])' /\ SameAsPage(noteWorker[n])'
                                  /\ CheckHolds(noteWorker[n])' /\ Wiki!NeverTwiceInARow'
  <2>1. /\ page' = Append(page, x.note) /\ OneOfEach(page) /\ \A i \in DOMAIN page : page[i].time < x.note.time
        /\ x.note.time = clock /\ x.note.checked = x.checks /\ x.note.type = x.type
        /\ \A m \in failed : m.time < clock /\ m \notin Wiki!Range(page)
    BY <1>3, <1>4, <1>5, <1>12 DEF InTime, SameAsPage
  <2>2. /\ OneOfEach(page') /\ Wiki!Range(page') = Wiki!Range(page) \cup {x.note} /\ page' # <<>>
        /\ Wiki!Sorted(page') = Append(Wiki!Sorted(page), x.note)
        /\ \A i \in DOMAIN page' : page'[i].time <= x.note.time
    BY <1>2, <1>3, <2>1, SortedWith
  <2>3. InTime(noteWorker[n])'
    <3>1. \A m \in failed : m.time # clock /\ m.time \in Nat
      BY <1>2, <2>1, NotesAre DEF NotesTyped, Wiki!TypeOK
    <3>2. clock \in Nat
      BY <1>2, InstancesAssumption DEF NotesTyped, Wiki!TypeOK, Wiki!NotesAssumption
    <3>3. OneOfEach(page)'
      BY <2>2 DEF OneOfEach
    <3> QED
      BY <1>2, <1>5, <2>1, <2>2, <3>1, <3>2, <3>3 DEF InTime, Pending
  <2>4. ASSUME Wiki!Caching PROVE Shows(heap[users])'
    <3>1. PICK l : l = heap[x.existing]
      OBVIOUS
    <3>2. l \in Seq(Wiki!Notes) /\ Wiki!Range(page) \subseteq Wiki!Range(l) /\ (store = "redis" => l = Wiki!Sorted(page))
      BY <1>2, <1>3, <1>4, <1>12, <2>4, <3>1 DEF SameAsPage
    <3>3. PICK k : k = Append(l, x.note)
      OBVIOUS
    <3>4. Wiki!Range(k) = Wiki!Range(l) \cup {x.note} /\ k # <<>> /\ Newest(k) = x.note
      <4>1. /\ Len(l) \in Nat /\ DOMAIN l = 1 .. Len(l) /\ DOMAIN k = 1 .. Len(l) + 1 /\ Len(k) = Len(l) + 1
            /\ k[Len(l) + 1] = x.note /\ \A i \in 1 .. Len(l) : k[i] = l[i]
        BY <1>3, <3>2, <3>3
      <4> QED
        BY <4>1 DEF Wiki!Range, Newest
    <3>5. Newest(Wiki!Sorted(page')) = x.note
      <4>1. Wiki!Sorted(page) \in Seq(Wiki!Notes)
        BY <1>2, SortedNothing
      <4> QED
        BY <1>3, <2>2, <4>1 DEF Newest
    <3>6. heap'[users'] = k
      BY <1>10, <2>4, <3>1, <3>3
    <3> QED
      BY <1>2, <2>2, <3>2, <3>3, <3>4, <3>5, <3>6 DEF Shows
  <2>5. SameAsPage(noteWorker[n])'
    BY <1>2, <1>5, <1>6, <1>10, <2>4 DEF SameAsPage, Pending
  <2>6. CheckHolds(noteWorker[n])'
    BY <1>5 DEF CheckHolds
  <2>7. Wiki!NeverTwiceInARow'
    <3>1. x.note.checked => Wiki!CheckPasses(Wiki!Sorted(page), x.note.type)
      BY <1>3, <1>4, <1>12, <2>1 DEF CheckHolds
    <3>2. Wiki!NeverTwiceInARow
      BY DEF NotesInv
    <3> QED
      BY <1>2, <1>3, <1>12, <2>1, <3>1, <3>2, LaterNote DEF Wiki!NeverTwiceInARow
  <2> QED
    BY <2>3, <2>5, <2>6, <2>7
<1> QED
  BY <1>2, <1>11, <1>12 DEF NotesInv, Wiki!NeverTwiceInARow

LEMMA EditFailsKeeps ==
    ASSUME NEW n, NoteWorkers = {n}, NotesInv(n), NotesTyped', Wiki!EditFails(n)
    PROVE  NotesInv(n)'
<1>1. PICK x : x = noteWorker[n]
  OBVIOUS
<1>2. /\ n \in NoteWorkers /\ NotesTyped /\ heap \in [Refs -> Seq(Wiki!Notes)] /\ page \in Seq(Wiki!Notes)
      /\ DOMAIN noteWorker = NoteWorkers
      /\ UNCHANGED <<ttl, store, page, clock, payload, users>> /\ store \in {"memory", "redis"}
      /\ Wiki!HeapIs(heap) /\ failed' = failed \cup {x.note} /\ noteWorker'[n].pc = "idle"
      /\ payload \in Wiki!Optional(Refs) /\ users \in Wiki!Optional(Refs)
      /\ (Wiki!NoTraces' => Wiki!NoTraces /\ store = "redis") /\ (Wiki!Caching' <=> Wiki!Caching)
  BY <1>1, InstancesAssumption DEF Wiki!EditFails, NotesInv, NotesTyped, Wiki!TypeOK, Wiki!NoTraces,
                                   Wiki!Caching, Wiki!NotesAssumption, Wiki!Idle
<1>3. x.pc = "edit" /\ x.note \in Wiki!Notes /\ Pending(x)
  BY <1>1, <1>2, WorkerStates DEF Wiki!EditFails, NoteHeld, Pending
<1>4. NothingMissing(x) /\ (Wiki!NoTraces => InTime(x) /\ SameAsPage(x))
  BY <1>1 DEF NotesInv
<1>5. (payload # None => heap'[payload] = heap[payload]) /\ (users # None => heap'[users] = heap[users])
  BY <1>2, HeapOfOne DEF Wiki!Optional
<1>6. NothingMissing(noteWorker[n])'
  BY <1>2, <1>4, <1>5 DEF NothingMissing, Pending
<1>7. Wiki!NeverTwiceInARow'
  BY <1>2 DEF NotesInv, Wiki!NeverTwiceInARow
<1>8. ASSUME Wiki!NoTraces' PROVE InTime(noteWorker[n])' /\ SameAsPage(noteWorker[n])' /\ CheckHolds(noteWorker[n])'
  <2>1. InTime(x) /\ SameAsPage(x) /\ store = "redis"
    BY <1>2, <1>4, <1>8
  <2>2. x.note \notin Wiki!Range(page)
    <3>1. clock \in Nat /\ \A i \in DOMAIN page : page[i].time \in Nat
      BY <1>2, InstancesAssumption, NotesAre DEF NotesTyped, Wiki!TypeOK, Wiki!NotesAssumption
    <3> QED
      BY <1>3, <2>1, <3>1 DEF InTime, Wiki!Range
  <2>3. InTime(noteWorker[n])'
    <3>1. clock \in Nat
      BY <1>2, InstancesAssumption DEF NotesTyped, Wiki!TypeOK, Wiki!NotesAssumption
    <3>2. \A m \in failed' : m.time <= clock /\ m \notin Wiki!Range(page)
      BY <1>2, <1>3, <2>1, <2>2, <3>1 DEF InTime
    <3> QED
      BY <1>2, <2>1, <3>2 DEF InTime, Pending
  <2>4. users # None => Shows(heap[users])'
    <3>1. users # None => Shows(heap[users])
      BY <2>1 DEF SameAsPage
    <3> QED
      BY <1>2, <1>5, <3>1 DEF Shows
  <2>5. SameAsPage(noteWorker[n])'
    BY <1>2, <1>3, <1>5, <2>1, <2>4 DEF SameAsPage, Pending
  <2>6. CheckHolds(noteWorker[n])'
    BY <1>2 DEF CheckHolds
  <2> QED
    BY <2>3, <2>5, <2>6
<1> QED
  BY <1>6, <1>7, <1>8 DEF NotesInv

LEMMA ExpireKeepsNotes ==
    ASSUME NEW n, NoteWorkers = {n}, NotesInv(n), NotesTyped', Wiki!Expire
    PROVE  NotesInv(n)'
<1>1. PICK x : x = noteWorker[n]
  OBVIOUS
<1>2. /\ n \in NoteWorkers /\ NotesTyped /\ heap \in [Refs -> Seq(Wiki!Notes)] /\ page \in Seq(Wiki!Notes)
      /\ UNCHANGED <<ttl, store, page, clock, users, noteWorker, failed>> /\ payload' = None /\ Wiki!HeapIs(heap)
      /\ users \in Wiki!Optional(Refs) /\ noteWorker'[n] = x
      /\ (Wiki!NoTraces' <=> Wiki!NoTraces) /\ (Wiki!Caching' <=> Wiki!Caching)
  BY <1>1 DEF Wiki!Expire, NotesInv, NotesTyped, Wiki!TypeOK, Wiki!NoTraces, Wiki!Caching
<1>3. NothingMissing(x) /\ (Wiki!NoTraces => InTime(x) /\ SameAsPage(x) /\ CheckHolds(x))
  BY <1>1 DEF NotesInv
<1>4. /\ Pending(x) => x.payload \in Refs
      /\ x.pc = "edit" => x.existing \in Refs
  BY <1>1, <1>2, WorkerStates DEF NoteHeld, Pending
<1>5. /\ users # None => heap'[users] = heap[users]
      /\ Pending(x) => heap'[x.payload] = heap[x.payload]
      /\ x.pc = "edit" => heap'[x.existing] = heap[x.existing]
  BY <1>2, <1>4, HeapOfOne DEF Wiki!Optional
<1>6. NothingMissing(noteWorker[n])'
  BY <1>2, <1>3, <1>5 DEF NothingMissing, Pending
<1>7. Wiki!NeverTwiceInARow'
  BY <1>2 DEF NotesInv, Wiki!NeverTwiceInARow
<1>8. ASSUME Wiki!NoTraces' PROVE InTime(noteWorker[n])' /\ SameAsPage(noteWorker[n])' /\ CheckHolds(noteWorker[n])'
  <2>1. InTime(x) /\ SameAsPage(x) /\ CheckHolds(x)
    BY <1>2, <1>3, <1>8
  <2>2. InTime(noteWorker[n])'
    BY <1>2, <2>1 DEF InTime, Pending
  <2>3. users # None /\ (x.pc # "edit" \/ store = "redis") => Shows(heap[users])'
    <3>1. users # None /\ (x.pc # "edit" \/ store = "redis") => Shows(heap[users])
      BY <2>1 DEF SameAsPage
    <3> QED
      BY <1>2, <1>5, <3>1 DEF Shows
  <2>4. SameAsPage(noteWorker[n])'
    BY <1>2, <1>5, <2>1, <2>3 DEF SameAsPage, Pending
  <2>5. CheckHolds(noteWorker[n])'
    BY <1>2, <2>1 DEF CheckHolds
  <2> QED
    BY <2>2, <2>4, <2>5
<1> QED
  BY <1>6, <1>7, <1>8 DEF NotesInv

LEMMA ModeratorKeeps ==
    ASSUME NEW n, NoteWorkers = {n}, NotesInv(n), NotesTyped', NEW type \in Types, Wiki!ModeratorAdds(type)
    PROVE  NotesInv(n)'
<1>1. PICK note : note = [time |-> clock + 1, type |-> type, checked |-> FALSE]
  OBVIOUS
<1>2. /\ n \in NoteWorkers /\ NotesTyped /\ page \in Seq(Wiki!Notes) /\ page' \in Seq(Wiki!Notes)
      /\ clock \in Nat /\ clock' = clock + 1
      /\ UNCHANGED <<ttl, store, heap, payload, users, noteWorker, failed>> /\ page' = <<note>> \o page
      /\ noteWorker[n].pc = "idle" /\ (~Wiki!Caching \/ (payload = None /\ users = None))
      /\ (Wiki!NoTraces' <=> Wiki!NoTraces) /\ (Wiki!Caching' <=> Wiki!Caching)
  BY <1>1, InstancesAssumption DEF Wiki!ModeratorAdds, NotesInv, NotesTyped, Wiki!TypeOK, Wiki!NoTraces,
                                   Wiki!Caching, Wiki!NotesAssumption
<1>3. note \in Wiki!Notes /\ note.time = clock + 1 /\ ~note.checked
  <2>1. clock + 1 \in 1 .. MaxUserNotes
    BY <1>2, InstancesAssumption DEF Wiki!ModeratorAdds, Wiki!NotesAssumption, NotesTyped, Wiki!TypeOK
  <2> QED
    BY <1>1, <2>1 DEF Wiki!Notes
<1>4. NothingMissing(noteWorker[n]) /\ (Wiki!NoTraces => InTime(noteWorker[n])) /\ users = None
  BY <1>2 DEF NotesInv, NothingMissing
<1>5. NothingMissing(noteWorker[n])'
  BY <1>2, <1>4 DEF NothingMissing, Pending
<1>6. ASSUME Wiki!NoTraces PROVE /\ InTime(noteWorker[n])' /\ SameAsPage(noteWorker[n])'
                                 /\ CheckHolds(noteWorker[n])' /\ Wiki!NeverTwiceInARow'
  <2>1. /\ OneOfEach(page) /\ (\A i \in DOMAIN page : page[i].time <= clock)
        /\ \A m \in failed : m.time <= clock /\ m \notin Wiki!Range(page)
    BY <1>4, <1>6 DEF InTime
  <2>2. \A i \in DOMAIN page : page[i].time < note.time
    BY <1>2, <1>3, <2>1, NotesAre
  <2>3. /\ OneOfEach(page') /\ Wiki!Range(page') = Wiki!Range(page) \cup {note}
        /\ \A i \in DOMAIN page' : page'[i].time <= note.time
    BY <1>2, <1>3, <2>1, <2>2, SortedWith
  <2>4. InTime(noteWorker[n])'
    <3>1. OneOfEach(page)'
      BY <2>3 DEF OneOfEach
    <3>2. \A m \in failed : m.time \in Nat /\ m # note
      BY <1>2, <1>3, <2>1, NotesAre DEF NotesTyped, Wiki!TypeOK
    <3> QED
      BY <1>2, <1>3, <2>1, <2>3, <3>1, <3>2 DEF InTime, Pending
  <2>5. SameAsPage(noteWorker[n])' /\ CheckHolds(noteWorker[n])'
    BY <1>2, <1>4 DEF SameAsPage, CheckHolds, Pending
  <2>6. Wiki!NeverTwiceInARow'
    <3>1. Wiki!NeverTwiceInARow
      BY DEF NotesInv
    <3> QED
      BY <1>2, <1>3, <1>6, <2>1, <2>2, <3>1, LaterNote DEF Wiki!NeverTwiceInARow
  <2> QED
    BY <2>4, <2>5, <2>6
<1> QED
  BY <1>2, <1>5, <1>6 DEF NotesInv, Wiki!NeverTwiceInARow

\* Every step of one worker, and of moderators while nothing is remembered.
LEMMA NotesInvNext ==
    ASSUME NEW n, NoteWorkers = {n}, NotesInv(n), [Wiki!Next]_noteVars
    PROVE  NotesInv(n)'
<1>1. NotesTyped /\ NotesTyped'
  BY NotesTypedNext DEF NotesInv
<1>2. CASE Reads(n)
  BY <1>1, <1>2, ReadsKeep
<1>3. ASSUME Wiki!Action(n) PROVE NotesInv(n)'
  <2>1. CASE \E type \in Types : Wiki!Check(n, type) \/ Wiki!AddUnchecked(n, type)
    BY <1>1, <1>2, <2>1, CheckReads, BeginningsRead
  <2>2. CASE Wiki!CheckFetched(n)
    BY <1>1, <1>2, <2>2, CheckFetchedReads
  <2>3. CASE Wiki!Add(n)
    BY <1>1, <1>2, <2>3, BeginningsRead, AddKeeps
  <2>4. CASE Wiki!AddFetched(n)
    BY <1>1, <2>4, AddFetchedKeeps
  <2>5. CASE Wiki!ExistingFetched(n)
    BY <1>1, <2>5, ExistingFetchedKeeps
  <2>6. CASE Wiki!Edited(n)
    BY <1>1, <2>6, EditedKeeps
  <2>7. CASE Wiki!EditFails(n)
    BY <1>1, <2>7, EditFailsKeeps
  <2> QED
    BY <1>3, <2>1, <2>2, <2>3, <2>4, <2>5, <2>6, <2>7 DEF Wiki!Action
<1>4. ASSUME Wiki!ReadOther(n) \/ Wiki!OtherFetched(n) PROVE NotesInv(n)'
  BY <1>1, <1>2, <1>4, OthersRead
<1>5. CASE Wiki!Expire
  BY <1>1, <1>5, ExpireKeepsNotes
<1>6. CASE \E type \in Types : Wiki!ModeratorAdds(type)
  BY <1>1, <1>6, ModeratorKeeps
<1>7. CASE UNCHANGED noteVars
  BY <1>1, <1>7 DEF noteVars, NotesInv, NothingMissing, Wiki!NoTraces, InTime, OneOfEach, SameAsPage, CheckHolds,
                    Shows, Pending, Wiki!Caching, Wiki!NeverTwiceInARow
<1> QED
  BY <1>3, <1>4, <1>5, <1>6, <1>7 DEF Wiki!Next

\* No step drops a note from the page.
LEMMA NothingLostStep ==
    ASSUME NEW n, NoteWorkers = {n}, NotesInv(n), [Wiki!Next]_noteVars
    PROVE  Wiki!Range(page) \subseteq Wiki!Range(page')
<1>1. page \in Seq(Wiki!Notes)
  BY DEF NotesInv, NotesTyped, Wiki!TypeOK
<1>2. CASE Wiki!Edited(n)
  BY <1>2 DEF Wiki!Edited, NotesInv, NothingMissing, Pending
<1>3. ASSUME NEW type \in Types, Wiki!ModeratorAdds(type) PROVE Wiki!Range(page) \subseteq Wiki!Range(page')
  <2>1. PICK note : note = [time |-> clock + 1, type |-> type, checked |-> FALSE]
    OBVIOUS
  <2>2. page' = <<note>> \o page
    BY <1>3, <2>1 DEF Wiki!ModeratorAdds
  <2>3. \A i \in DOMAIN page : i + 1 \in DOMAIN page' /\ page'[i + 1] = page[i]
    BY <1>1, <2>2
  <2> QED
    BY <2>3 DEF Wiki!Range
<1>4. CASE UNCHANGED page
  BY <1>4
<1> QED
  BY <1>2, <1>3, <1>4 DEF Wiki!Next, noteVars, Wiki!Action, Wiki!Check, Wiki!AddUnchecked,
                          Wiki!CheckFetched, Wiki!Add, Wiki!AddFetched, Wiki!ExistingFetched,
                          Wiki!EditFails, Wiki!ReadOther, Wiki!OtherFetched, Wiki!Expire


\* User notes, of one worker, as long as every answer of an edit arrives and
\* moderators write while the bot remembers nothing: no edit drops a note from
\* the page, nor gives it one whose action failed; the list in users tells what
\* the page holds, and a checked note never follows one of its type.  For any
\* ttl, store, types and number of notes (getUserNotes, addUserNote,
\* existingNoteCheck).
THEOREM NotesCorrect == (\E n : NoteWorkers = {n}) /\ Spec => UserNotesKept
<1> SUFFICES ASSUME NEW n, NoteWorkers = {n} PROVE Spec => UserNotesKept
  OBVIOUS
<1> DEFINE Kept == Wiki!NothingFromFailures /\ Wiki!KnowsPage /\ Wiki!NeverTwiceInARow
<1> DEFINE Grows == Wiki!Range(page) \subseteq Wiki!Range(page')
<1>1. Init => NotesInv(n)
  BY NotesInvInit DEF Init
<1>2. NotesInv(n) /\ [Next]_allVars => NotesInv(n)' /\ Grows
  BY NotesInvNext, NothingLostStep, StepsOfParts
<1>3. NotesInv(n) => Kept
  BY PropertiesOfNotesInv
<1> HIDE DEF Kept, Grows
<1>4. Spec => []Kept
  BY <1>1, <1>2, <1>3, PTL DEF Spec
<1>5. Spec => [][Grows]_noteVars
  BY <1>1, <1>2, PTL DEF Spec
<1> QED
  BY <1>4, <1>5 DEF UserNotesKept, Wiki!NothingLost, Kept, Grows, Wiki!vars, noteVars

-----------------------------------------------------------------------------
(* Types *)

\* No total is more than what was counted in all.
CountedInv ==
    /\ counted \in 0 .. MaxCounted /\ saved <= counted
    /\ \A i \in 1 .. Current : instances[i].total <= counted
    /\ Loading => setting.total <= counted

\* The instance in use changes, and what it counts stays within what was counted.
LEMMA TotalsStay ==
    ASSUME StatsInv, CountedInv, Len(instances) # 0, NEW now \in Instances, NEW n \in Nat,
           counted <= n, now.total <= n
    PROVE  LET new == [instances EXCEPT ![Current] = now]
           IN new \in Seq(Instances) /\ Len(new) = Current /\ \A i \in 1 .. Current : new[i].total <= n
<1> DEFINE new == [instances EXCEPT ![Current] = now]
<1>1. /\ new \in Seq(Instances) /\ Len(new) = Current /\ new[Current] = now /\ Current \in Nat \ {0}
      /\ \A i \in 1 .. Current - 1 : new[i] = instances[i]
      /\ \A i \in 1 .. Current : instances[i] \in Instances
  BY InUse DEF StatsInv
<1> HIDE DEF new
<1>2. ASSUME NEW i \in 1 .. Current PROVE new[i].total <= n
  <2>1. CASE i = Current
    BY <1>1, <2>1
  <2>2. CASE i # Current
    <3>1. i \in 1 .. Current - 1
      BY <1>1, <2>2
    <3>2. instances[i].total \in Nat /\ instances[i].total <= counted /\ counted \in Nat
      BY <1>1, StatisticsAssumption DEF Instances, CountedInv
    <3> QED
      BY <1>1, <3>1, <3>2
  <2> QED
    BY <2>1, <2>2
<1> QED
  BY <1>1, <1>2 DEF new

LEMMA CountCounted == ASSUME StatsInv, CountedInv, CountStat PROVE CountedInv'
<1>1. PICK now : now = instances[Current]
  OBVIOUS
<1>2. PICK new : new = [now EXCEPT !.total = @ + 1]
  OBVIOUS
<1>3. /\ instances # <<>> /\ counted < MaxCounted /\ counted' = counted + 1 /\ UNCHANGED <<setting, saved>>
      /\ instances' = [instances EXCEPT ![Current] = new]
  BY <1>1, <1>2 DEF CountStat
<1>4. /\ Len(instances) # 0 /\ counted \in Nat /\ MaxCounted \in Nat /\ saved \in Nat
      /\ Loading => setting.total \in Nat
  BY <1>3, StatisticsAssumption DEF StatsInv, StatsTyped, CountedInv, Loading, Settings, Absent, SettingDone
<1>5. now \in Instances /\ now.total <= counted /\ Current \in Nat
  BY <1>1, <1>4, InUse DEF StatsInv, CountedInv
<1>6. new \in Instances /\ new.total <= counted + 1
  BY <1>2, <1>4, <1>5 DEF Instances
<1>7. Len(instances') = Current /\ \A i \in 1 .. Current : instances'[i].total <= counted + 1
  BY <1>3, <1>4, <1>6, TotalsStay
<1>8. counted' \in 0 .. MaxCounted /\ saved' <= counted' /\ (Loading' => setting'.total <= counted')
  BY <1>3, <1>4 DEF CountedInv, Loading
<1>9. Current' = Current
  BY <1>7 DEF Current
<1> QED
  BY <1>3, <1>7, <1>8, <1>9 DEF CountedInv

LEMMA SaveCounted == ASSUME StatsInv, CountedInv, NEW i \in 1 .. Current, SaveInterval(i) PROVE CountedInv'
<1>1. saved' \in {saved, instances[i].total} /\ UNCHANGED <<instances, setting, counted>>
  BY DEF SaveInterval, SavedBy
<1> QED
  BY <1>1 DEF CountedInv, Loading, Current

\* One more instance has counted nothing.
LEMMA MoreCounted ==
    ASSUME NEW list \in Seq(Instances), NEW freq \in Frequencies, NEW n \in Nat, \A i \in 1 .. Len(list) : list[i].total <= n
    PROVE  LET new == Append(list, NewInstance(freq)) IN \A i \in 1 .. Len(new) : new[i].total <= n
<1>1. PICK now : now = NewInstance(freq)
  OBVIOUS
<1>2. now \in Instances /\ now.total = 0
  BY <1>1 DEF NewInstance, Instances
<1>3. PICK new : new = Append(list, now)
  OBVIOUS
<1>4. Len(new) = Len(list) + 1 /\ new[Len(list) + 1] = now /\ Len(list) \in Nat /\ \A i \in 1 .. Len(list) : new[i] = list[i]
  BY <1>2, <1>3
<1>5. \A i \in 1 .. Len(new) : i = Len(list) + 1 \/ i \in 1 .. Len(list)
  BY <1>4
<1>6. \A i \in 1 .. Len(new) : new[i].total <= n
  BY <1>2, <1>4, <1>5
<1> QED
  BY <1>1, <1>3, <1>6

LEMMA MakeCounted == ASSUME StatsInv, CountedInv, NEW freq \in Frequencies, MakeResources(freq) PROVE CountedInv'
<1>1. /\ instances' = Append(instances, NewInstance(freq)) /\ setting' = [step |-> "making", total |-> saved]
      /\ UNCHANGED <<saved, counted>>
  BY DEF MakeResources
<1>2. instances \in Seq(Instances) /\ counted \in Nat
  BY StatisticsAssumption DEF StatsInv, StatsTyped, CountedInv
<1>3. \A i \in 1 .. Len(instances') : instances'[i].total <= counted
  BY <1>1, <1>2, MoreCounted DEF CountedInv, Current
<1> QED
  BY <1>1, <1>3 DEF CountedInv, Loading, Current

\* What is saved at the end was saved, or counted.
LEMMA EndCounted ==
    ASSUME StatsInv, CountedInv, Len(instances) # 0
    PROVE  SavedAtEnd <= counted
<1>1. SavedAtEnd \in {saved, instances[Current].total} /\ Current \in 1 .. Current
  BY InUse DEF StatsInv, SavedAtEnd, SavedBy
<1> QED
  BY <1>1 DEF CountedInv

LEMMA ConfigureCounted ==
    ASSUME StatsInv, CountedInv, NEW freq \in Frequencies, NEW otherCache \in BOOLEAN, Configure(freq, otherCache)
    PROVE  CountedInv'
<1>1. PICK now : now = instances[Current]
  OBVIOUS
<1>2. PICK ended : ended = [Cleared(now) EXCEPT !.freq = freq, !.renewed = TRUE]
  OBVIOUS
<1>3. PICK kept : kept = IF now.freq # freq THEN [instances EXCEPT ![Current] = ended] ELSE instances
  OBVIOUS
<1>4. /\ setting = SettingDone /\ saved' \in {saved, SavedAtEnd} /\ UNCHANGED counted
      /\ instances' = IF otherCache THEN Append(kept, NewInstance(freq)) ELSE kept
      /\ setting' = [step |-> "loading", total |-> saved']
  BY <1>1, <1>2, <1>3 DEF Configure
<1>5. Len(instances) # 0 /\ instances \in Seq(Instances) /\ counted \in Nat
  BY <1>4, StatisticsAssumption DEF StatsInv, StatsTyped, SettingDone, Absent, CountedInv
<1>6. now \in Instances /\ now.total <= counted
  BY <1>1, <1>5, InUse DEF StatsInv, CountedInv
<1>7. ended \in Instances /\ ended.total <= counted
  <2>1. Cleared(now) \in Instances /\ Cleared(now).total = now.total
    BY <1>6, ClearedIs
  <2> QED
    BY <1>2, <1>6, <2>1 DEF Instances
<1>8. kept \in Seq(Instances) /\ \A i \in 1 .. Len(kept) : kept[i].total <= counted
  <2>1. CASE now.freq # freq
    BY <1>3, <1>5, <1>7, <2>1, TotalsStay
  <2>2. CASE now.freq = freq
    BY <1>3, <1>5, <2>2 DEF CountedInv, Current
  <2> QED
    BY <2>1, <2>2
<1>9. \A i \in 1 .. Len(instances') : instances'[i].total <= counted
  <2>1. CASE otherCache
    BY <1>4, <1>5, <1>8, <2>1, MoreCounted
  <2>2. CASE ~otherCache
    BY <1>4, <1>8, <2>2
  <2> QED
    BY <2>1, <2>2
<1>10. saved' <= counted
  BY <1>4, <1>5, EndCounted DEF CountedInv
<1> QED
  BY <1>4, <1>9, <1>10 DEF CountedInv, Loading, Current

LEMMA LoadCounted == ASSUME StatsInv, CountedInv, LoadEnds PROVE CountedInv'
<1>1. PICK now : now = instances[Current]
  OBVIOUS
<1>2. PICK read : read = Loaded(now, setting.total)
  OBVIOUS
<1>3. /\ Loading /\ setting' = SettingDone /\ UNCHANGED <<saved, counted>>
      /\ \/ instances' = [instances EXCEPT ![Current] = WithTimer(read)]
         \/ instances' = [instances EXCEPT ![Current] = WithTimer(now)]
  BY <1>1, <1>2 DEF LoadEnds, Loading
<1>4. setting.total \in Nat /\ setting.total <= counted /\ counted \in Nat /\ Len(instances) # 0
  BY <1>3, StatisticsAssumption DEF StatsInv, StatsTyped, Settings, Loading, Absent, SettingDone, CountedInv
<1>5. now \in Instances /\ now.total <= counted
  BY <1>1, <1>4, InUse DEF StatsInv, CountedInv
<1>6. read \in Instances /\ read.total = setting.total
  BY <1>2, <1>4, <1>5 DEF Loaded, Instances
<1>7. \A x \in Instances : WithTimer(x) \in Instances /\ WithTimer(x).total = x.total
  BY DEF WithTimer, Instances
<1>8. PICK new : new \in Instances /\ new.total <= counted /\ instances' = [instances EXCEPT ![Current] = new]
  BY <1>3, <1>4, <1>5, <1>6, <1>7
<1>9. \A i \in 1 .. Len(instances') : instances'[i].total <= counted
  BY <1>4, <1>8, TotalsStay
<1>10. ~Loading'
  BY <1>3 DEF Loading, SettingDone
<1> QED
  BY <1>3, <1>9, <1>10 DEF CountedInv, Current

LEMMA DestroyCounted == ASSUME StatsInv, CountedInv, DestroyStats PROVE CountedInv'
<1>1. PICK now : now = instances[Current]
  OBVIOUS
<1>2. /\ setting = SettingDone /\ saved' = SavedAtEnd /\ setting' = Absent /\ UNCHANGED counted
      /\ instances' = [instances EXCEPT ![Current] = Cleared(now)]
  BY <1>1 DEF DestroyStats
<1>3. Len(instances) # 0 /\ counted \in Nat
  BY <1>2, StatisticsAssumption DEF StatsInv, StatsTyped, SettingDone, Absent, CountedInv
<1>4. now \in Instances /\ now.total <= counted
  BY <1>1, <1>3, InUse DEF StatsInv, CountedInv
<1>5. Cleared(now) \in Instances /\ Cleared(now).total <= counted
  BY <1>4, ClearedIs
<1>6. \A i \in 1 .. Len(instances') : instances'[i].total <= counted
  BY <1>2, <1>3, <1>5, TotalsStay
<1>7. saved' <= counted /\ ~Loading'
  BY <1>2, <1>3, EndCounted DEF Loading, Absent
<1> QED
  BY <1>2, <1>6, <1>7 DEF CountedInv, Current

LEMMA CountedNext == ASSUME StatsInv, CountedInv, [StatsNext]_statVars PROVE CountedInv'
<1>1. CASE CrashStats
  <2>1. Len(instances') = 0 /\ ~Loading' /\ UNCHANGED <<saved, counted>>
    BY <1>1 DEF CrashStats, Loading, Absent
  <2> QED
    BY <2>1 DEF CountedInv, Current
<1>2. CASE UNCHANGED statVars
  BY <1>2 DEF statVars, CountedInv, Loading, Current
<1> QED
  BY <1>1, <1>2, CountCounted, SaveCounted, MakeCounted, ConfigureCounted, LoadCounted, DestroyCounted DEF StatsNext

\* What StatsTypeOK says follows.
LEMMA StatsTypes == ASSUME StatsInv, CountedInv PROVE StatsTypeOK
<1>1. saved \in 0 .. counted /\ counted \in 0 .. MaxCounted
  BY DEF StatsInv, StatsTyped, CountedInv
<1>2. setting \in {Absent, SettingDone} \cup [step : {"making", "loading"}, total : 0 .. MaxCounted]
  <2>1. CASE setting \in {Absent, SettingDone}
    BY <2>1
  <2>2. CASE setting \in [step : {"making", "loading"}, total : Nat]
    <3>1. setting.total \in 0 .. MaxCounted
      BY <1>1, <2>2, StatisticsAssumption DEF CountedInv, Loading
    <3> QED
      BY <2>2, <3>1
  <2> QED
    BY <2>1, <2>2 DEF StatsInv, StatsTyped, Settings
<1>3. PICK S : S = [freq : Frequencies, total : 0 .. MaxCounted, loaded : BOOLEAN,
                    timer : {"unset", "running", "cleared"}, renewed : BOOLEAN]
  OBVIOUS
<1>4. instances \in Seq(Instances)
  BY DEF StatsInv, StatsTyped
<1>5. ASSUME NEW i \in 1 .. Len(instances) PROVE instances[i] \in S
  <2>1. instances[i] \in Instances
    BY <1>4
  <2>2. instances[i].total \in 0 .. MaxCounted
    BY <1>1, <2>1, StatisticsAssumption DEF CountedInv, Current, Instances
  <2> QED
    BY <1>3, <2>1, <2>2 DEF Instances
<1>6. instances \in Seq(S)
  BY <1>4, <1>5
<1> QED
  BY <1>1, <1>2, <1>3, <1>6 DEF StatsTypeOK

-----------------------------------------------------------------------------

FilesOf == UNION {[A -> Ids \cup {NoInvite}] : A \in SUBSET Accounts}

Makings == {Gone} \cup [pc : {"sent", "made"}, entry : Nat, id : Ids]

\* What the client has: whatever is asked or made was found among its instances,
\* and those stay.
ClientTyped ==
    /\ cm \in Seq(CMInstances)
    /\ ready \in BOOLEAN
    /\ rounds \in [Rounds -> RoundStates]
    /\ \A r \in Rounds : rounds[r].pc \in {"asked", "answered"} =>
          rounds[r].at \in Hosts /\ rounds[r].entry \in {0} \cup DOMAIN cm
    /\ issued \in [Hosts -> SUBSET Ids]
    /\ making \in Makings
    /\ making # Gone => making.entry \in DOMAIN cm

FilesTyped == file \in [Hosts -> FilesOf]

WebTyped == ClientTyped /\ ServersTyped /\ FilesTyped

\* One more round is made, or one goes on; the instances known stay.
LEMMA RoundTyped ==
    ASSUME ClientTyped, NEW r \in Rounds, NEW x \in RoundStates, rounds' = [rounds EXCEPT ![r] = x],
           cm' \in Seq(CMInstances), DOMAIN cm \subseteq DOMAIN cm', ready' \in BOOLEAN, UNCHANGED <<issued, making>>,
           x.pc \in {"asked", "answered"} => x.at \in Hosts /\ x.entry \in {0} \cup DOMAIN cm'
    PROVE  ClientTyped'
<1>1. /\ rounds' \in [Rounds -> RoundStates] /\ rounds'[r] = x
      /\ \A q \in Rounds : q # r => rounds'[q] = rounds[q]
  BY DEF ClientTyped
<1>2. ASSUME NEW q \in Rounds, rounds'[q].pc \in {"asked", "answered"}
      PROVE  rounds'[q].at \in Hosts /\ rounds'[q].entry \in {0} \cup DOMAIN cm'
  <2>1. CASE q = r
    BY <1>1, <1>2, <2>1
  <2>2. CASE q # r
    BY <1>1, <1>2, <2>2 DEF ClientTyped
  <2> QED
    BY <2>1, <2>2
<1>3. making' \in Makings /\ (making' # Gone => making'.entry \in DOMAIN cm') /\ issued' \in [Hosts -> SUBSET Ids]
  BY DEF ClientTyped
<1> QED
  BY <1>1, <1>2, <1>3 DEF ClientTyped

\* Some instances that are known change; or one that makes an invite does.
LEMMA KnownTyped ==
    ASSUME ClientTyped, cm' \in Seq(CMInstances), DOMAIN cm' = DOMAIN cm, UNCHANGED <<ready, rounds>>,
           issued' \in [Hosts -> SUBSET Ids], making' \in Makings, making' # Gone => making'.entry \in DOMAIN cm
    PROVE  ClientTyped'
  BY DEF ClientTyped

LEMMA FirstVisitTyped == ASSUME ClientTyped, NEW r \in Rounds, FirstVisit(r) PROVE ClientTyped'
<1>1. PICK x : x = [rounds[r] EXCEPT !.pc = "look"]
  OBVIOUS
<1>2. rounds' = [rounds EXCEPT ![r] = x] /\ UNCHANGED <<cm, ready, issued, making>>
  BY <1>1 DEF FirstVisit, servers
<1>3. rounds[r] \in RoundStates
  BY DEF ClientTyped
<1>4. x \in RoundStates /\ x.pc = "look"
  BY <1>1, <1>3 DEF RoundStates
<1>5. cm' \in Seq(CMInstances) /\ ready' \in BOOLEAN
  BY <1>2 DEF ClientTyped
<1> QED
  BY <1>2, <1>4, <1>5, RoundTyped

LEMMA LookTyped == ASSUME ClientTyped, NEW r \in Rounds, Look(r) PROVE ClientTyped'
<1>1. PICK old : old = rounds[r]
  OBVIOUS
<1>2. PICK k : k = Known(old.at)
  OBVIOUS
<1>3. old \in RoundStates /\ cm \in Seq(CMInstances) /\ ready \in BOOLEAN /\ rounds \in [Rounds -> RoundStates]
  BY <1>1 DEF ClientTyped
<1>4. k \in Nat /\ (k # 0 => k \in DOMAIN cm)
  BY <1>2, <1>3, KnownIs
<1>5. old.pc = "look" /\ UNCHANGED <<issued, making>>
  BY <1>1 DEF Look, servers
<1>6. CASE old.at \notin Hosts
  <2>1. /\ rounds' = [rounds EXCEPT ![r] = [Nowhere EXCEPT !.pc = "asleep"]]
        /\ ready' = TRUE /\ cm' = cm
    BY <1>1, <1>6 DEF Look
  <2>2. PICK x : x = [Nowhere EXCEPT !.pc = "asleep"]
    OBVIOUS
  <2>3. x \in RoundStates /\ x.pc = "asleep"
    BY <2>2, NowhereIs
  <2> QED
    BY <1>3, <1>5, <2>1, <2>2, <2>3, RoundTyped
<1>7. CASE old.at \in Hosts /\ k # 0 /\ ~ShouldCheck(cm[k])
  <2>1. PICK x : x = [old EXCEPT !.at = @ + 1]
    OBVIOUS
  <2>2. rounds' = [rounds EXCEPT ![r] = x] /\ UNCHANGED <<cm, ready>>
    BY <1>1, <1>2, <1>7, <2>1 DEF Look
  <2>3. x = [pc |-> old.pc, at |-> old.at + 1, entry |-> old.entry, invites |-> old.invites]
    BY <1>3, <2>1 DEF RoundStates
  <2>4. old.at + 1 \in Nat
    BY <1>3 DEF RoundStates
  <2>5. x \in RoundStates /\ x.pc = "look"
    BY <1>3, <1>5, <2>3, <2>4 DEF RoundStates
  <2> QED
    BY <1>3, <1>5, <2>2, <2>5, RoundTyped
<1>8. CASE old.at \in Hosts /\ ~ (k # 0 /\ ~ShouldCheck(cm[k]))
  <2>1. PICK x : x = [old EXCEPT !.pc = "asked", !.entry = k]
    OBVIOUS
  <2>2. /\ rounds' = [rounds EXCEPT ![r].pc = "asked", ![r].entry = k]
        /\ cm' = IF k = 0 THEN cm ELSE [cm EXCEPT ![k].due = FALSE]
        /\ ready' = ready
    BY <1>1, <1>2, <1>8 DEF Look
  <2>3. rounds' = [rounds EXCEPT ![r] = x]
    BY <1>1, <1>3, <2>1, <2>2 DEF RoundStates
  <2>4. x \in RoundStates /\ x.at = old.at /\ x.entry = k
    BY <1>3, <1>4, <2>1 DEF RoundStates
  <2>5. cm' \in Seq(CMInstances) /\ DOMAIN cm' = DOMAIN cm
    <3>1. CASE k = 0
      BY <1>3, <2>2, <3>1
    <3>2. CASE k # 0
      <4>1. PICK y : y = [cm[k] EXCEPT !.due = FALSE]
        OBVIOUS
      <4>2. cm[k] \in CMInstances
        BY <1>3, <1>4, <3>2
      <4>3. y \in CMInstances
        BY <4>1, <4>2 DEF CMInstances
      <4>4. cm' = [cm EXCEPT ![k] = y]
        BY <2>2, <3>2, <4>1
      <4> QED
        BY <1>3, <1>4, <3>2, <4>3, <4>4
    <3> QED
      BY <3>1, <3>2
  <2> QED
    BY <1>3, <1>4, <1>5, <1>8, <2>2, <2>3, <2>4, <2>5, RoundTyped
<1> QED
  BY <1>6, <1>7, <1>8

LEMMA AnswerTyped == ASSUME ClientTyped, NEW r \in Rounds, Answer(r) PROVE ClientTyped'
<1>1. PICK old : old = rounds[r]
  OBVIOUS
<1>2. PICK x : x = [old EXCEPT !.pc = "answered", !.invites = issued[old.at]]
  OBVIOUS
<1>3. /\ old.pc = "asked" /\ UNCHANGED <<cm, ready, issued, making>>
      /\ rounds' = [rounds EXCEPT ![r].pc = "answered", ![r].invites = issued[old.at]]
  BY <1>1 DEF Answer, servers
<1>4. old \in RoundStates /\ rounds \in [Rounds -> RoundStates] /\ old.at \in Hosts /\ old.entry \in {0} \cup DOMAIN cm
  BY <1>1, <1>3 DEF ClientTyped
<1>5. rounds' = [rounds EXCEPT ![r] = x]
  BY <1>1, <1>2, <1>3, <1>4 DEF RoundStates
<1>6. issued[old.at] \in SUBSET Ids
  BY <1>4 DEF ClientTyped
<1>7. x \in RoundStates /\ x.at = old.at /\ x.entry = old.entry
  BY <1>2, <1>4, <1>6 DEF RoundStates
<1>8. cm' \in Seq(CMInstances) /\ ready' \in BOOLEAN
  BY <1>3 DEF ClientTyped
<1> QED
  BY <1>3, <1>4, <1>5, <1>7, <1>8, RoundTyped

\* What was asked is written to the instance it was found for, or to a new one.
LEMMA RefreshedTyped ==
    ASSUME ClientTyped, NEW r \in Rounds, rounds[r].pc \in {"asked", "answered"}, NEW x \in CMInstances, Refreshed(r, x)
    PROVE  ClientTyped'
<1>1. PICK old : old = rounds[r]
  OBVIOUS
<1>2. PICK next : next = [Nowhere EXCEPT !.pc = "look", !.at = old.at + 1]
  OBVIOUS
<1>3. /\ cm' = IF old.entry = 0 THEN Append(cm, x) ELSE [cm EXCEPT ![old.entry] = x]
      /\ rounds' = [rounds EXCEPT ![r] = next] /\ UNCHANGED <<ready, issued, making>>
  BY <1>1, <1>2 DEF Refreshed, servers
<1>4. old \in RoundStates /\ old.entry \in {0} \cup DOMAIN cm /\ cm \in Seq(CMInstances) /\ ready \in BOOLEAN
  BY <1>1 DEF ClientTyped
<1>5. next \in RoundStates /\ next.pc = "look"
  <2>1. old.at + 1 \in Nat
    BY <1>4 DEF RoundStates
  <2> QED
    BY <1>2, <2>1, NowhereIs
<1>6. cm' \in Seq(CMInstances) /\ DOMAIN cm \subseteq DOMAIN cm'
  <2>1. CASE old.entry = 0
    BY <1>3, <1>4, <2>1
  <2>2. CASE old.entry # 0
    BY <1>3, <1>4, <2>2
  <2> QED
    BY <2>1, <2>2
<1> QED
  BY <1>3, <1>4, <1>5, <1>6, RoundTyped

LEMMA AnswersTyped ==
    ASSUME ClientTyped, NEW r \in Rounds, AnswerArrives(r) \/ AskingFails(r)
    PROVE  ClientTyped'
<1>1. PICK e : e = Entry(r)
  OBVIOUS
<1>2. rounds[r].pc \in {"asked", "answered"}
  BY DEF AnswerArrives, AskingFails
<1>3. /\ rounds[r].at \in Hosts /\ rounds[r].entry \in {0} \cup DOMAIN cm /\ rounds[r] \in RoundStates
      /\ cm \in Seq(CMInstances)
  BY <1>2 DEF ClientTyped
<1>4. e \in CMInstances
  <2>1. CASE rounds[r].entry = 0
    BY <1>1, <1>3, <2>1 DEF Entry, CMInstances
  <2>2. CASE rounds[r].entry # 0
    BY <1>1, <1>3, <2>2 DEF Entry
  <2> QED
    BY <2>1, <2>2
<1>5. rounds[r].invites \in SUBSET Ids
  BY <1>3 DEF RoundStates
<1>6. Updated(e, rounds[r].invites) \in CMInstances /\ [e EXCEPT !.online = FALSE] \in CMInstances
  BY <1>4, <1>5 DEF Updated, CMInstances
<1> QED
  BY <1>1, <1>2, <1>6, RefreshedTyped DEF AnswerArrives, AskingFails

LEMMA WakeTyped == ASSUME ClientTyped, NEW r \in Rounds, Wake(r) PROVE ClientTyped'
<1>1. PICK x : x = [Nowhere EXCEPT !.pc = "look"]
  OBVIOUS
<1>2. rounds' = [rounds EXCEPT ![r] = x] /\ UNCHANGED <<cm, ready, issued, making>>
  BY <1>1 DEF Wake, servers
<1>3. x \in RoundStates /\ x.pc = "look"
  BY <1>1, NowhereIs
<1>4. cm' \in Seq(CMInstances) /\ ready' \in BOOLEAN
  BY <1>2 DEF ClientTyped
<1> QED
  BY <1>2, <1>3, <1>4, RoundTyped

LEMMA ElapseTyped == ASSUME ClientTyped, NEW k \in DOMAIN cm, Elapse(k) PROVE ClientTyped'
<1>1. PICK y : y = [cm[k] EXCEPT !.due = TRUE]
  OBVIOUS
<1>2. cm' = [cm EXCEPT ![k] = y] /\ UNCHANGED <<ready, rounds, issued, making>>
  BY <1>1 DEF Elapse, servers
<1>3. cm \in Seq(CMInstances) /\ cm[k] \in CMInstances
  BY DEF ClientTyped
<1>4. y \in CMInstances
  BY <1>1, <1>3 DEF CMInstances
<1>5. cm' \in Seq(CMInstances) /\ DOMAIN cm' = DOMAIN cm
  BY <1>2, <1>3, <1>4
<1> QED
  BY <1>2, <1>5, KnownTyped DEF ClientTyped

LEMMA InviteMadeTyped == ASSUME ClientTyped, InviteMade PROVE ClientTyped'
<1>1. PICK m : m = making
  OBVIOUS
<1>2. PICK y : y = [cm[m.entry] EXCEPT !.invites = @ \cup {m.id}]
  OBVIOUS
<1>3. making # Gone /\ cm' = [cm EXCEPT ![m.entry] = y] /\ making' = Gone /\ UNCHANGED <<ready, rounds, issued>>
  BY <1>1, <1>2 DEF InviteMade, servers
<1>4. m.entry \in DOMAIN cm /\ m.id \in Ids /\ cm \in Seq(CMInstances) /\ cm[m.entry] \in CMInstances
  BY <1>1, <1>3 DEF ClientTyped, Makings
<1>5. y \in CMInstances
  BY <1>2, <1>4 DEF CMInstances
<1>6. cm' \in Seq(CMInstances) /\ DOMAIN cm' = DOMAIN cm
  BY <1>3, <1>4, <1>5
<1>7. making' \in Makings /\ making' = Gone /\ issued' \in [Hosts -> SUBSET Ids]
  BY <1>3 DEF Makings, ClientTyped
<1> QED
  BY <1>3, <1>6, <1>7, KnownTyped

\* What the instances and visitors do leaves the clients as they are.
LEMMA KnownStayTyped ==
    ASSUME ClientTyped, UNCHANGED <<cm, ready, rounds>>,
           \/ UNCHANGED <<issued, making>>
           \/ \E h \in Hosts : Stop(h)
           \/ \E k \in DOMAIN cm, id \in Ids : SendInvite(k, id)
           \/ RecordInvite
           \/ \E v \in Visitors : InviteDeleted(v)
    PROVE  ClientTyped'
<1>1. /\ issued \in [Hosts -> SUBSET Ids] /\ making \in Makings /\ (making # Gone => making.entry \in DOMAIN cm)
      /\ cm' \in Seq(CMInstances) /\ DOMAIN cm' = DOMAIN cm
  BY DEF ClientTyped
<1>2. CASE UNCHANGED <<issued, making>>
  BY <1>1, <1>2, KnownTyped
<1>3. ASSUME NEW h \in Hosts, Stop(h) PROVE ClientTyped'
  <2>1. issued' = issued /\ (making' = making \/ making' = Gone) /\ Gone \in Makings
    BY <1>3 DEF Stop, Makings
  <2> QED
    BY <1>1, <2>1, KnownTyped
<1>4. ASSUME NEW k \in DOMAIN cm, NEW id \in Ids, SendInvite(k, id) PROVE ClientTyped'
  <2>1. issued' = issued /\ making' = [pc |-> "sent", entry |-> k, id |-> id] /\ k \in Nat
    BY <1>4 DEF SendInvite, servers, ClientTyped
  <2>2. making' \in Makings /\ making'.entry = k
    BY <2>1 DEF Makings
  <2> QED
    BY <1>1, <2>1, <2>2, KnownTyped
<1>5. CASE RecordInvite
  <2>1. /\ making # Gone /\ making' = [making EXCEPT !.pc = "made"]
        /\ issued' = [issued EXCEPT ![cm[making.entry].host] = @ \cup {making.id}]
    BY <1>5 DEF RecordInvite
  <2>2. making \in [pc : {"sent", "made"}, entry : Nat, id : Ids]
    BY <1>1, <2>1 DEF Makings
  <2>3. making' \in [pc : {"sent", "made"}, entry : Nat, id : Ids] /\ making'.entry = making.entry /\ making.id \in Ids
    BY <2>1, <2>2
  <2>4. issued' \in [Hosts -> SUBSET Ids]
    BY <1>1, <2>1, <2>3
  <2>5. making' \in Makings
    BY <2>3 DEF Makings
  <2> QED
    BY <1>1, <2>1, <2>3, <2>4, <2>5, KnownTyped
<1>6. ASSUME NEW v \in Visitors, InviteDeleted(v) PROVE ClientTyped'
  <2>1. making' = making /\ issued' = [issued EXCEPT ![visitor[v].host] = @ \ {visitor[v].id}]
    BY <1>6 DEF InviteDeleted
  <2>2. issued' \in [Hosts -> SUBSET Ids]
    BY <1>1, <2>1
  <2> QED
    BY <1>1, <2>1, <2>2, KnownTyped
<1> QED
  BY <1>2, <1>3, <1>4, <1>5, <1>6

LEMMA ClientTypedNext == ASSUME ClientTyped, [WebNext]_webVars PROVE ClientTyped'
<1>1. ASSUME NEW r \in Rounds, FirstVisit(r) \/ RoundMoves(r) PROVE ClientTyped'
  BY <1>1, FirstVisitTyped, LookTyped, AnswerTyped, AnswersTyped, WakeTyped DEF RoundMoves
<1>2. ASSUME NEW h \in Hosts, Stop(h) PROVE ClientTyped'
  BY <1>2, KnownStayTyped DEF Stop, client
<1>3. ASSUME NEW h \in Hosts, Start(h) PROVE ClientTyped'
  BY <1>3, KnownStayTyped DEF Start, client
<1>4. ASSUME NEW k \in DOMAIN cm, NEW id \in Ids, SendInvite(k, id) PROVE ClientTyped'
  <2>1. UNCHANGED <<cm, ready, rounds>>
    BY <1>4 DEF SendInvite, client
  <2> QED
    BY <1>4, <2>1, KnownStayTyped
<1>5. CASE RecordInvite
  BY <1>5, KnownStayTyped DEF RecordInvite, client
<1>6. ASSUME NEW v \in Visitors, InviteDeleted(v) PROVE ClientTyped'
  <2>1. UNCHANGED <<cm, ready, rounds>>
    BY <1>6 DEF InviteDeleted, client
  <2> QED
    BY <1>6, <2>1, KnownStayTyped
<1>7. CASE UNCHANGED <<cm, ready, rounds, issued, making>>
  BY <1>7, Zenon DEF ClientTyped
<1>8. ASSUME NEW v \in Visitors,
             \/ \E id \in Ids : OpenInvite(v, id)
             \/ InviteRead(v)
             \/ \E a \in Accounts : Callback(v, a)
             \/ LookForBot(v) \/ BotDestroyed(v) \/ FileWritten(v) \/ BotStarted(v)
      PROVE  ClientTyped'
  BY <1>7, <1>8 DEF OpenInvite, InviteRead, Callback, LookForBot, BotDestroyed, FileWritten, BotStarted, servers, client
<1> QED
  BY <1>1, <1>2, <1>3, <1>4, <1>5, <1>6, <1>7, <1>8, ElapseTyped, InviteMadeTyped DEF WebNext, AddingBot, webVars, servers


\* A visit goes on, and nothing else that the instances have changes but its bots.
LEMMA VisitTyped ==
    ASSUME ServersTyped, NEW v \in Visitors, NEW x \in Visits, visitor' = [visitor EXCEPT ![v] = x],
           UNCHANGED <<up, file>>, DOMAIN bots' = Hosts, \A h \in Hosts : bots'[h] \in Seq(BotsOf)
    PROVE  ServersTyped'
  BY DEF ServersTyped

LEMMA VisitAloneTyped ==
    ASSUME ServersTyped, NEW v \in Visitors, NEW x \in Visits, visitor' = [visitor EXCEPT ![v] = x],
           UNCHANGED <<up, file, bots>>
    PROVE  ServersTyped'
  BY DEF ServersTyped

LEMMA OpenInviteTyped ==
    ASSUME ClientTyped, ServersTyped, NEW v \in Visitors, NEW id \in Ids, OpenInvite(v, id)
    PROVE  ServersTyped'
<1>1. PICK host : host = cm[ListedAt(id)].host
  OBVIOUS
<1>2. PICK x : x = [pc |-> "opening", id |-> id, host |-> host]
  OBVIOUS
<1>3. ListedAt(id) # 0 /\ visitor' = [visitor EXCEPT ![v] = x] /\ UNCHANGED <<up, file, bots>>
  BY <1>1, <1>2 DEF OpenInvite, servers
<1>4. host \in Hosts
  BY <1>1, <1>3, ListedIs DEF ClientTyped
<1>5. x \in Visits
  BY <1>2, <1>4 DEF Visits
<1> QED
  BY <1>3, <1>5, VisitAloneTyped

LEMMA InviteReadTyped == ASSUME ServersTyped, NEW v \in Visitors, InviteRead(v) PROVE ServersTyped'
<1>1. PICK old : old = visitor[v]
  OBVIOUS
<1>2. PICK x : x = IF old.host \in up /\ old.id \in issued[old.host] THEN [old EXCEPT !.pc = "authorizing"] ELSE Gone
  OBVIOUS
<1>3. /\ old # Gone /\ old.pc = "opening" /\ UNCHANGED <<up, file, bots>>
      /\ visitor' = [visitor EXCEPT ![v] = x]
  BY <1>1, <1>2 DEF InviteRead, servers
<1>4. old \in [pc : {"opening", "authorizing"}, id : Ids, host : Hosts]
  BY <1>1, <1>3, VisitIs
<1>5. x \in Visits
  BY <1>2, <1>4 DEF Visits
<1> QED
  BY <1>3, <1>5, VisitAloneTyped

LEMMA CallbackTyped ==
    ASSUME ClientTyped, ServersTyped, NEW v \in Visitors, NEW account \in Accounts, Callback(v, account)
    PROVE  ServersTyped'
<1>1. PICK old : old = visitor[v]
  OBVIOUS
<1>2. PICK k : k = ListedAt(old.id)
  OBVIOUS
<1>3. PICK host : host = cm[k].host
  OBVIOUS
<1>4. PICK x : x = IF k = 0 \/ host \notin up THEN Gone
                   ELSE [pc |-> "posting", id |-> old.id, host |-> host, account |-> account, found |-> FALSE]
  OBVIOUS
<1>5. old # Gone /\ UNCHANGED <<up, file, bots>> /\ visitor' = [visitor EXCEPT ![v] = x]
  BY <1>1, <1>2, <1>3, <1>4 DEF Callback, servers
<1>6. old.id \in Ids
  BY <1>1, <1>5, VisitIs
<1>7. k # 0 => host \in Hosts
  BY <1>2, <1>3, ListedIs DEF ClientTyped
<1>8. x \in Visits
  BY <1>4, <1>6, <1>7 DEF Visits, Posting
<1> QED
  BY <1>5, <1>8, VisitAloneTyped

\* The bots of one instance change.
LEMMA BotsTyped ==
    ASSUME ServersTyped, NEW h \in Hosts, NEW list \in Seq(BotsOf), bots' = [bots EXCEPT ![h] = list]
    PROVE  DOMAIN bots' = Hosts /\ \A g \in Hosts : bots'[g] \in Seq(BotsOf)
  BY DEF ServersTyped

LEMMA LookForBotTyped == ASSUME ServersTyped, NEW v \in Visitors, LookForBot(v) PROVE ServersTyped'
<1>1. PICK old : old = visitor[v]
  OBVIOUS
<1>2. PICK found : found = (old.id \in issued[old.host])
  OBVIOUS
<1>3. PICK pc : pc = IF Existing(old.host, old.account) = 0 THEN "writing" ELSE "destroying"
  OBVIOUS
<1>4. PICK x : x = [old EXCEPT !.found = found, !.pc = pc]
  OBVIOUS
<1>5. old # Gone /\ old.pc \in Posting /\ UNCHANGED <<up, file, bots>>
  BY <1>1 DEF LookForBot, At, Posting, servers
<1>6. old \in [pc : Posting, id : Ids, host : Hosts, account : Accounts, found : BOOLEAN]
  BY <1>1, <1>5, VisitIs
<1>7. visitor' = [visitor EXCEPT ![v] = x]
  <2>1. visitor' = [visitor EXCEPT ![v].found = found, ![v].pc = pc]
    BY <1>1, <1>2, <1>3 DEF LookForBot
  <2>2. visitor \in [Visitors -> Visits]
    BY DEF ServersTyped
  <2> QED
    BY <1>1, <1>4, <2>1, <2>2
<1>8. x \in Visits
  <2>1. pc \in Posting /\ found \in BOOLEAN
    BY <1>2, <1>3 DEF Posting
  <2> QED
    BY <1>4, <1>6, <2>1, PostingAs
<1> QED
  BY <1>5, <1>7, <1>8, VisitAloneTyped

LEMMA BotDestroyedTyped == ASSUME ServersTyped, NEW v \in Visitors, BotDestroyed(v) PROVE ServersTyped'
<1>1. PICK old : old = visitor[v]
  OBVIOUS
<1>2. PICK h : h = old.host
  OBVIOUS
<1>3. PICK k : k = Existing(h, old.account)
  OBVIOUS
<1>4. PICK x : x = [old EXCEPT !.pc = "writing"]
  OBVIOUS
<1>5. PICK less : less = WithoutBot(bots[h], k)
  OBVIOUS
<1>6. /\ old # Gone /\ old.pc \in Posting /\ UNCHANGED <<up, file>>
      /\ bots' = [bots EXCEPT ![h] = less] /\ visitor' = [visitor EXCEPT ![v] = x]
  BY <1>1, <1>2, <1>3, <1>4, <1>5 DEF BotDestroyed, At, Posting
<1>7. old \in [pc : Posting, id : Ids, host : Hosts, account : Accounts, found : BOOLEAN] /\ h \in Hosts
  BY <1>1, <1>2, <1>6, VisitIs
<1>8. x \in Visits
  BY <1>4, <1>7, PostingAs, Zenon DEF Posting
<1>9. PICK list : list = bots[h]
  OBVIOUS
<1>10. list \in Seq(BotsOf)
  BY <1>7, <1>9 DEF ServersTyped
<1>11. less \in Seq(BotsOf)
  <2>1. CASE list = <<>>
    BY <1>5, <1>9, <1>10, <2>1 DEF WithoutBot
  <2>2. CASE list # <<>> /\ k = 0
    <3>1. less = SubSeq(list, 1, Len(list) - 1)
      BY <1>5, <1>9, <2>2 DEF WithoutBot, Front
    <3> QED
      BY <1>10, <2>2, <3>1
  <2>3. CASE list # <<>> /\ k # 0
    <3>1. k \in 1 .. Len(list)
      BY <1>3, <1>7, <1>9, <2>3, ExistingIs
    <3>2. RemoveAt(list, k) \in Seq(BotsOf)
      BY <1>10, <3>1, RemovedAt
    <3> QED
      BY <1>5, <1>9, <2>3, <3>2 DEF WithoutBot
  <2> QED
    BY <2>1, <2>2, <2>3
<1>12. DOMAIN bots' = Hosts /\ \A g \in Hosts : bots'[g] \in Seq(BotsOf)
  BY <1>6, <1>7, <1>11, BotsTyped
<1> QED
  BY <1>6, <1>8, <1>12, VisitTyped

LEMMA InviteDeletedTyped == ASSUME ServersTyped, NEW v \in Visitors, InviteDeleted(v) PROVE ServersTyped'
<1>1. PICK old : old = visitor[v]
  OBVIOUS
<1>2. PICK h : h = old.host
  OBVIOUS
<1>3. PICK x : x = [old EXCEPT !.pc = "starting"]
  OBVIOUS
<1>4. PICK more : more = Append(bots[h], [account |-> old.account, named |-> FALSE])
  OBVIOUS
<1>5. /\ old # Gone /\ old.pc \in Posting /\ UNCHANGED <<up, file>>
      /\ bots' = [bots EXCEPT ![h] = more] /\ visitor' = [visitor EXCEPT ![v] = x]
  BY <1>1, <1>2, <1>3, <1>4 DEF InviteDeleted, At, Posting
<1>6. old \in [pc : Posting, id : Ids, host : Hosts, account : Accounts, found : BOOLEAN] /\ h \in Hosts
  BY <1>1, <1>2, <1>5, VisitIs
<1>7. x \in Visits
  BY <1>3, <1>6, PostingAs, Zenon DEF Posting
<1>8. more \in Seq(BotsOf)
  <2>1. bots[h] \in Seq(BotsOf)
    BY <1>6 DEF ServersTyped
  <2>2. [account |-> old.account, named |-> FALSE] \in BotsOf
    BY <1>6 DEF BotsOf
  <2> QED
    BY <1>4, <2>1, <2>2
<1>9. DOMAIN bots' = Hosts /\ \A g \in Hosts : bots'[g] \in Seq(BotsOf)
  BY <1>5, <1>6, <1>8, BotsTyped
<1> QED
  BY <1>5, <1>7, <1>9, VisitTyped

LEMMA BotStartedTyped == ASSUME ServersTyped, NEW v \in Visitors, BotStarted(v) PROVE ServersTyped'
<1>1. PICK old : old = visitor[v]
  OBVIOUS
<1>2. PICK h : h = old.host
  OBVIOUS
<1>3. PICK list : list = bots[h]
  OBVIOUS
<1>4. PICK k : k = Index(bots[h], LAMBDA b : ~b.named /\ b.account = old.account)
  OBVIOUS
<1>5. /\ old # Gone /\ old.pc \in Posting /\ UNCHANGED <<up, file>>
      /\ bots' = (IF k = 0 THEN bots ELSE [bots EXCEPT ![h][k].named = TRUE])
      /\ visitor' = [visitor EXCEPT ![v] = Gone]
  BY <1>1, <1>2, <1>4 DEF BotStarted, At, Posting
<1>6. h \in Hosts
  BY <1>1, <1>2, <1>5, VisitIs
<1>7. list \in Seq(BotsOf) /\ DOMAIN list = 1 .. Len(list)
  BY <1>3, <1>6 DEF ServersTyped
<1>8. k # 0 => k \in DOMAIN list
  <2> DEFINE positions == {i \in 1 .. Len(list) : ~list[i].named /\ list[i].account = old.account}
  <2>1. positions \subseteq Nat \ {0} /\ k = FirstOf(positions)
    BY <1>3, <1>4, <1>7 DEF Index, SelectInSeq, FirstOf
  <2>2. /\ positions = {} => k = 0
        /\ positions # {} => k \in positions
    BY <2>1, FirstIsOne
  <2> QED
    BY <1>7, <2>2
<1>9. DOMAIN bots' = Hosts /\ \A g \in Hosts : bots'[g] \in Seq(BotsOf)
  <2>1. CASE k = 0
    BY <1>5, <2>1 DEF ServersTyped
  <2>2. CASE k # 0
    <3>1. PICK b : b = [list[k] EXCEPT !.named = TRUE]
      OBVIOUS
    <3>2. PICK now : now = [list EXCEPT ![k] = b]
      OBVIOUS
    <3>3. list[k] \in BotsOf
      BY <1>7, <1>8, <2>2
    <3>4. b \in BotsOf
      BY <3>1, <3>3 DEF BotsOf
    <3>5. bots' = [bots EXCEPT ![h] = now]
      BY <1>3, <1>5, <2>2, <3>1, <3>2
    <3>6. now \in Seq(BotsOf)
      BY <1>7, <1>8, <2>2, <3>2, <3>4
    <3> QED
      BY <1>6, <3>5, <3>6, BotsTyped
  <2> QED
    BY <2>1, <2>2
<1>10. Gone \in Visits
  BY DEF Visits
<1> QED
  BY <1>5, <1>9, <1>10, VisitTyped

LEMMA FileWrittenTyped ==
    ASSUME ServersTyped, FilesTyped, NEW v \in Visitors, FileWritten(v)
    PROVE  ServersTyped' /\ FilesTyped'
<1>1. PICK old : old = visitor[v]
  OBVIOUS
<1>2. PICK h : h = old.host
  OBVIOUS
<1>3. PICK f : f = file[h]
  OBVIOUS
<1>4. PICK bound : bound = WithBot(f, old)
  OBVIOUS
<1>5. PICK x : x = [old EXCEPT !.pc = "deleting"]
  OBVIOUS
<1>6. /\ old # Gone /\ old.pc \in Posting /\ UNCHANGED <<up, bots>>
      /\ file' = [file EXCEPT ![h] = bound] /\ visitor' = [visitor EXCEPT ![v] = x]
  BY <1>1, <1>2, <1>3, <1>4, <1>5 DEF FileWritten, At, Posting
<1>7. old \in [pc : Posting, id : Ids, host : Hosts, account : Accounts, found : BOOLEAN] /\ h \in Hosts
  BY <1>1, <1>2, <1>6, VisitIs
<1>8. x \in Visits
  BY <1>5, <1>7, PostingAs, Zenon DEF Posting
<1>9. PICK A : A = DOMAIN f
  OBVIOUS
<1>10. IsFiniteSet(A) /\ A \subseteq Accounts /\ f \in [A -> Ids \cup {NoInvite}]
  BY <1>3, <1>7, <1>9 DEF ServersTyped, FilesTyped, FilesOf
<1>11. PICK B : B = A \cup {old.account}
  OBVIOUS
<1>12. IsFiniteSet(B) /\ B \subseteq Accounts
  <2>1. IsFiniteSet(A \cup {old.account})
    BY <1>10, FS_AddElement
  <2> QED
    BY <1>7, <1>10, <1>11, <2>1
<1>13. bound \in [B -> Ids \cup {NoInvite}]
  BY <1>4, <1>7, <1>9, <1>10, <1>11 DEF WithBot
<1>14. bound \in FilesOf /\ DOMAIN bound = B
  BY <1>12, <1>13 DEF FilesOf
<1>15. FilesTyped'
  BY <1>6, <1>14 DEF FilesTyped
<1>16. file'[h] = bound /\ DOMAIN file' = Hosts /\ \A g \in Hosts : g # h => file'[g] = file[g]
  BY <1>6, <1>7 DEF ServersTyped
<1>17. \A g \in Hosts : IsFiniteSet(DOMAIN file'[g]) /\ DOMAIN file'[g] \subseteq Accounts
  BY <1>12, <1>14, <1>16 DEF ServersTyped
<1>18. visitor' \in [Visitors -> Visits]
  BY <1>6, <1>8 DEF ServersTyped
<1> QED
  BY <1>6, <1>15, <1>16, <1>17, <1>18 DEF ServersTyped

LEMMA StopTyped == ASSUME ServersTyped, NEW h \in Hosts, Stop(h) PROVE ServersTyped'
<1>1. /\ up' = up \ {h} /\ bots' = [bots EXCEPT ![h] = <<>>] /\ UNCHANGED file
      /\ visitor' = [v \in Visitors |-> IF visitor[v] # Gone /\ visitor[v].host = h /\ visitor[v].pc \in Posting
                                        THEN Gone ELSE visitor[v]]
  BY DEF Stop
<1>2. DOMAIN bots' = Hosts /\ \A g \in Hosts : bots'[g] \in Seq(BotsOf)
  <2>1. <<>> \in Seq(BotsOf)
    OBVIOUS
  <2> QED
    BY <1>1, <2>1, BotsTyped
<1>3. visitor' \in [Visitors -> Visits]
  BY <1>1 DEF ServersTyped, Visits
<1> QED
  BY <1>1, <1>2, <1>3 DEF ServersTyped

\* The bots of a file, in any order.
LEMMA StartTyped == ASSUME ServersTyped, NEW h \in Hosts, Start(h) PROVE ServersTyped'
<1>1. PICK accounts : accounts = DOMAIN file[h]
  OBVIOUS
<1>2. PICK written : written = {[account |-> a, named |-> TRUE] : a \in accounts}
  OBVIOUS
<1>3. up' = up \cup {h} /\ bots' = [bots EXCEPT ![h] = SetToSeq(written)] /\ UNCHANGED <<file, visitor>>
  BY <1>1, <1>2 DEF Start
<1>4. IsFiniteSet(accounts) /\ accounts \subseteq Accounts
  BY <1>1 DEF ServersTyped
<1>5. IsFiniteSet(written)
  <2>1. PICK f : f = [a \in accounts |-> [account |-> a, named |-> TRUE]]
    OBVIOUS
  <2>2. DOMAIN f = accounts /\ written = {f[a] : a \in accounts}
    BY <1>2, <2>1
  <2> QED
    BY <1>4, <2>2, FewValues
<1>6. ASSUME NEW b \in written PROVE b \in BotsOf
  <2>1. PICK a \in accounts : b = [account |-> a, named |-> TRUE]
    BY <1>2
  <2> QED
    BY <1>4, <2>1 DEF BotsOf
<1>7. SetToSeq(written) \in Seq(written)
  BY <1>5, EachOnce
<1>8. SetToSeq(written) \in Seq(BotsOf)
  BY <1>6, <1>7
<1>9. DOMAIN bots' = Hosts /\ \A g \in Hosts : bots'[g] \in Seq(BotsOf)
  BY <1>3, <1>8, BotsTyped
<1> QED
  BY <1>3, <1>9 DEF ServersTyped

LEMMA ServersTypedNext ==
    ASSUME WebTyped, [WebNext]_webVars
    PROVE  ServersTyped' /\ FilesTyped'
<1> USE DEF WebTyped
<1>1. CASE UNCHANGED <<up, file, bots, visitor>>
  BY <1>1 DEF ServersTyped, FilesTyped
<1>2. ASSUME NEW h \in Hosts, Stop(h) \/ Start(h) PROVE ServersTyped' /\ FilesTyped'
  <2>1. UNCHANGED file
    BY <1>2 DEF Stop, Start
  <2> QED
    BY <1>2, <2>1, StopTyped, StartTyped DEF FilesTyped
<1>3. ASSUME NEW v \in Visitors, FileWritten(v) PROVE ServersTyped' /\ FilesTyped'
  BY <1>3, FileWrittenTyped
<1>4. ASSUME NEW v \in Visitors,
             \/ \E id \in Ids : OpenInvite(v, id)
             \/ InviteRead(v)
             \/ \E a \in Accounts : Callback(v, a)
             \/ LookForBot(v) \/ BotDestroyed(v) \/ InviteDeleted(v) \/ BotStarted(v)
      PROVE  ServersTyped' /\ FilesTyped'
  <2>1. UNCHANGED file
    BY <1>4, Zenon DEF OpenInvite, InviteRead, Callback, LookForBot, BotDestroyed, InviteDeleted, BotStarted, servers
  <2>2. ServersTyped'
    BY <1>4, OpenInviteTyped, InviteReadTyped, CallbackTyped, LookForBotTyped, BotDestroyedTyped, InviteDeletedTyped,
       BotStartedTyped
  <2> QED
    BY <2>1, <2>2, Zenon DEF FilesTyped
<1>5. ASSUME \/ \E r \in Rounds : FirstVisit(r) \/ RoundMoves(r)
             \/ \E k \in DOMAIN cm : Elapse(k)
             \/ \E k \in DOMAIN cm, id \in Ids : SendInvite(k, id)
             \/ RecordInvite \/ InviteMade \/ UNCHANGED webVars
      PROVE  UNCHANGED <<up, file, bots, visitor>>
  BY <1>5, Zenon DEF FirstVisit, RoundMoves, Look, Answer, AnswerArrives, AskingFails, Refreshed, Wake, Elapse, SendInvite,
              RecordInvite, InviteMade, webVars, servers
<1> QED
  BY <1>1, <1>2, <1>3, <1>4, <1>5 DEF WebNext, AddingBot

LEMMA WebTypedInit == WebInit => WebTyped
<1> SUFFICES ASSUME WebInit PROVE WebTyped
  OBVIOUS
<1>1. ClientTyped
  <2>1. Nowhere \in RoundStates /\ Nowhere.pc = "none"
    BY DEF Nowhere, RoundStates
  <2>2. cm = <<>> /\ ready \in BOOLEAN
    BY DEF WebInit
  <2>3. cm \in Seq(CMInstances)
    BY <2>2
  <2>4. rounds \in [Rounds -> RoundStates] /\ \A r \in Rounds : rounds[r].pc = "none"
    BY <2>1 DEF WebInit
  <2>5. issued \in [Hosts -> SUBSET Ids]
    BY DEF WebInit
  <2>6. making = Gone /\ making \in Makings
    BY DEF WebInit, Makings
  <2> QED
    BY <2>2, <2>3, <2>4, <2>5, <2>6 DEF ClientTyped
<1>2. FilesTyped
  <2>1. [a \in {} |-> NoInvite] \in FilesOf
    <3>1. [a \in {} |-> NoInvite] \in [{} -> Ids \cup {NoInvite}]
      OBVIOUS
    <3> QED
      BY <3>1 DEF FilesOf
  <2> QED
    BY <2>1 DEF WebInit, FilesTyped
<1>3. ServersTyped
  BY WebInvInit DEF ServersInv
<1> QED
  BY <1>1, <1>2, <1>3 DEF WebTyped

\* What WebTypeOK says follows.
LEMMA WebTypes == ASSUME WebTyped PROVE WebTypeOK
<1>1. \A v \in Visitors : visitor[v] # Gone => visitor[v].id \in Ids
  BY VisitIs DEF WebTyped
<1> QED
  BY <1>1 DEF WebTyped, ClientTyped, ServersTyped, FilesTyped, FilesOf, CMInstances, BotsOf, RoundStates, WebTypeOK

\* No answer is counted before anything is.
LEMMA CountedInit == StatsInit => CountedInv
<1> SUFFICES ASSUME StatsInit PROVE CountedInv
  OBVIOUS
<1>1. Len(instances) = 0 /\ counted = 0 /\ saved = 0 /\ ~Loading
  BY DEF StatsInit, Loading, Absent
<1> QED
  BY <1>1, StatisticsAssumption DEF CountedInv, Current

\* The types of the parts whose invariant says more than the type.
LEMMA TypesOfFragments == FragmentInv => FragmentTypeOK
<1> SUFFICES ASSUME FragmentInv PROVE FragmentTypeOK
  OBVIOUS
<1>1. fragment # None => fragment.page \in FragmentPage /\ fragment.left \in 0 .. Longest
  BY DEF FragmentInv, Entries
<1> QED
  BY <1>1 DEF FragmentInv, FragmentTypeOK

LEMMA TypesOfCaches == CachesInv => CachesTypeOK
  BY DEF CachesInv, CachesTyped, CachesTypeOK, Caches

\* Every part keeps its type, with any number of handlers and workers at a time,
\* of the user notes too, and whatever the rounds of the web client answer
\* (resources, caches, statistics, guests, user notes and the web client).
THEOREM TypesCorrect == Spec => []TypesOK
<1> DEFINE Inv ==
      /\ ItemsInv /\ AuthorsInv /\ FragmentInv /\ CachesInv
      /\ StatsInv /\ CountedInv /\ GuestsInv /\ WebTyped /\ NotesTyped
<1>1. Init => Inv
  BY ItemsInvInit, AuthorsInvInit, FragmentInvInit, CachesInvInit, StatsInvInit, CountedInit,
     GuestsInvInit, WebTypedInit, NotesTypedInit DEF Init
<1>2. Inv /\ [Next]_allVars => Inv'
  <2> SUFFICES ASSUME Inv, [Next]_allVars PROVE Inv'
    OBVIOUS
  <2>1. (ItemsInv /\ AuthorsInv /\ FragmentInv /\ CachesInv /\ GuestsInv /\ NotesTyped)'
    BY ItemsInvNext, AuthorsInvNext, FragmentInvNext, CachesInvNext, GuestsInvNext, NotesTypedNext,
       StepsOfParts
  <2>2. (StatsInv /\ CountedInv)'
    BY StatsInvNext, CountedNext, StepsOfParts
  <2>3. WebTyped'
    <3>1. WebTyped /\ ClientTyped /\ [WebNext]_webVars
      BY StepsOfParts DEF WebTyped
    <3>2. ClientTyped'
      BY <3>1, ClientTypedNext
    <3>3. ServersTyped' /\ FilesTyped'
      BY <3>1, ServersTypedNext
    <3> QED
      BY <3>2, <3>3 DEF WebTyped
  <2> QED
    BY <2>1, <2>2, <2>3
<1>3. Inv => TypesOK
  <2> SUFFICES ASSUME Inv PROVE TypesOK
    OBVIOUS
  <2>1. ItemTypeOK
    BY TypedItems DEF ItemsInv
  <2>2. AuthorTypeOK /\ GuestsTypeOK /\ Wiki!TypeOK
    BY DEF AuthorsInv, AuthorsTyped, GuestsInv, NotesTyped
  <2>3. FragmentTypeOK /\ CachesTypeOK
    BY TypesOfFragments, TypesOfCaches
  <2>4. StatsTypeOK /\ WebTypeOK
    BY StatsTypes, WebTypes
  <2> QED
    BY <2>1, <2>2, <2>3, <2>4 DEF TypesOK
<1> QED
  BY <1>1, <1>2, <1>3, PTL DEF Spec
=============================================================================
