---------------------------- MODULE ServicesProofs ----------------------------
(***************************************************************************)
(* Proofs about what runs around the handling of activities: the managers, *)
(* invites and shared stream of a bot, and the running states of a manager *)
(* that a user stopped.                                                    *)
(***************************************************************************)
EXTENDS MCServices, FiniteSetTheorems, TLAPS

(***************************************************************************)
(* Arrays without duplicates.                                              *)
(***************************************************************************)

Distinct(list) == \A i, j \in 1..Len(list) : list[i] = list[j] => i = j

\* A set of numbers has a least one.
LEMMA LeastNat ==
    ASSUME NEW S \in SUBSET Nat, S # {}
    PROVE  \E i \in S : \A j \in S : i <= j
<1> DEFINE R == {p \in Nat \X Nat : p[1] < p[2]}
<1>1. IsWellFoundedOn(R, Nat)
  <2>1. OpToRel(<, Nat) = R
    BY DEF OpToRel
  <2> QED BY <2>1, NatLessThanWellFounded
<1>2. PICK i \in S : \A j \in S : ~ (<<j, i>> \in R)
  <2> HIDE DEF R
  <2> QED BY <1>1, WFMin
<1>3. ASSUME NEW j \in S PROVE i <= j
  <2>1. i \in Nat /\ j \in Nat /\ ~ (<<j, i>> \in R)
    BY <1>2
  <2> QED BY <2>1
<1> QED
  BY <1>3

\* It is as long as it has elements.
LEMMA DistinctCount ==
    ASSUME NEW S, NEW list \in Seq(S), Distinct(list)
    PROVE  IsFiniteSet(ToSet(list)) /\ Cardinality(ToSet(list)) = Len(list)
<1>1. list \in Bijection(1..Len(list), ToSet(list))
  BY DEF Bijection, Injection, Surjection, IsInjective, Distinct, ToSet
<1>2. ExistsBijection(1..Len(list), ToSet(list)) /\ Len(list) \in Nat
  BY <1>1 DEF ExistsBijection
<1>3. IsFiniteSet(1..Len(list)) /\ Cardinality(1..Len(list)) = Len(list)
  <2> DEFINE n == Len(list)
  <2>1. n \in Nat
    BY <1>2
  <2> HIDE DEF n
  <2>2. IsFiniteSet(1..n) /\ Cardinality(1..n) = n
    BY <2>1, FS_Interval
  <2> QED BY <2>2 DEF n
<1> QED
  BY <1>2, <1>3, FS_Bijection

LEMMA HasMembers == ASSUME NEW list, NEW s PROVE Has(list, s) <=> s \in ToSet(list)
  BY DEF Has, ToSet

LEMMA DistinctAppend ==
    ASSUME NEW S, NEW list \in Seq(S), NEW s \in S, Distinct(list), s \notin ToSet(list)
    PROVE  Distinct(Append(list, s)) /\ ToSet(Append(list, s)) = ToSet(list) \cup {s}
<1> DEFINE more == Append(list, s)
<1>1. /\ Len(more) = Len(list) + 1 /\ more[Len(list) + 1] = s
      /\ \A i \in 1..Len(list) : more[i] = list[i]
      /\ DOMAIN more = 1..Len(more) /\ DOMAIN list = 1..Len(list) /\ Len(list) \in Nat
  OBVIOUS
<1> HIDE DEF more
<1>2. \A i \in 1..Len(list) : list[i] \in ToSet(list)
  BY <1>1 DEF ToSet
<1>3. 1..Len(more) = 1..Len(list) \cup {Len(list) + 1}
  BY <1>1
<1>4. Distinct(more)
  BY <1>1, <1>2, <1>3 DEF Distinct
<1>5. ToSet(more) = ToSet(list) \cup {s}
  BY <1>1, <1>3 DEF ToSet
<1> QED
  BY <1>4, <1>5 DEF more

\* splice(i, 1)
LEMMA RemoveAtFields ==
    ASSUME NEW S, NEW list \in Seq(S), NEW i \in 1..Len(list)
    PROVE  /\ RemoveAt(list, i) \in Seq(S)
           /\ Len(RemoveAt(list, i)) = Len(list) - 1
           /\ \A j \in 1..Len(list) - 1 : RemoveAt(list, i)[j] = IF j < i THEN list[j] ELSE list[j + 1]
<1> DEFINE front == SubSeq(list, 1, i - 1)
           back == SubSeq(list, i + 1, Len(list))
<1>1. /\ front \in Seq(S) /\ Len(front) = i - 1
      /\ \A j \in 1..i - 1 : front[j] = list[j]
  OBVIOUS
<1>2. /\ back \in Seq(S) /\ Len(back) = Len(list) - i
      /\ \A j \in 1..Len(list) - i : back[j] = list[j + i]
  OBVIOUS
<1> HIDE DEF front, back
<1>3. /\ front \o back \in Seq(S) /\ Len(front \o back) = Len(list) - 1
      /\ \A j \in 1..Len(list) - 1 : (front \o back)[j] = IF j < i THEN front[j] ELSE back[j - (i - 1)]
  <2>1. front \o back \in Seq(S) /\ Len(front \o back) = Len(front) + Len(back)
    <3>1. front \in Seq(S) /\ back \in Seq(S)
      BY <1>1, <1>2
    <3> QED BY <3>1
  <2>2. Len(front) + Len(back) = Len(list) - 1
    BY <1>1, <1>2
  <2>3. \A j \in 1..Len(front) + Len(back) :
           (front \o back)[j] = IF j <= Len(front) THEN front[j] ELSE back[j - Len(front)]
    <3>1. front \in Seq(S) /\ back \in Seq(S)
      BY <1>1, <1>2
    <3> QED BY <3>1
  <2>4. \A j \in Int : j <= i - 1 <=> j < i
    OBVIOUS
  <2> QED BY <1>1, <2>1, <2>2, <2>3, <2>4
<1>4. \A j \in 1..Len(list) - 1 : ~ (j < i) => j - (i - 1) \in 1..Len(list) - i /\ (j - (i - 1)) + i = j + 1
  OBVIOUS
<1>5. \A j \in 1..Len(list) - 1 : (front \o back)[j] = IF j < i THEN list[j] ELSE list[j + 1]
  <2> TAKE j \in 1..Len(list) - 1
  <2>1. CASE j < i
    BY <1>1, <1>3, <2>1
  <2>2. CASE ~ (j < i)
    <3>1. back[j - (i - 1)] = list[j - (i - 1) + i]
      BY <1>2, <1>4, <2>2
    <3> QED BY <1>3, <1>4, <2>2, <3>1
  <2> QED BY <2>1, <2>2
<1> QED
  BY <1>3, <1>5 DEF RemoveAt, front, back

LEMMA DistinctRemoveAt ==
    ASSUME NEW S, NEW list \in Seq(S), NEW i \in 1..Len(list), Distinct(list)
    PROVE  /\ Distinct(RemoveAt(list, i))
           /\ ToSet(RemoveAt(list, i)) = ToSet(list) \ {list[i]}
<1> DEFINE less == RemoveAt(list, i)
<1>1. /\ less \in Seq(S) /\ Len(less) = Len(list) - 1 /\ Len(list) \in Nat
      /\ \A j \in 1..Len(list) - 1 : less[j] = IF j < i THEN list[j] ELSE list[j + 1]
  BY RemoveAtFields
<1> HIDE DEF less
<1>2. /\ DOMAIN less = 1..Len(list) - 1 /\ DOMAIN list = 1..Len(list)
  BY <1>1
<1>3. ASSUME NEW j \in 1..Len(list) - 1
      PROVE  \E k \in 1..Len(list) : k # i /\ less[j] = list[k] /\ k = IF j < i THEN j ELSE j + 1
  BY <1>1
<1>4. ASSUME NEW k \in 1..Len(list), k # i
      PROVE  \E j \in 1..Len(list) - 1 : less[j] = list[k]
  <2>1. CASE k < i
    <3>1. k \in 1..Len(list) - 1 /\ less[k] = list[k]
      BY <1>1, <2>1
    <3> QED BY <3>1
  <2>2. CASE k > i
    <3>1. k - 1 \in 1..Len(list) - 1 /\ ~ (k - 1 < i) /\ k - 1 + 1 = k
      BY <1>1, <2>2
    <3>2. less[k - 1] = list[k]
      BY <1>1, <3>1
    <3> QED BY <3>1, <3>2
  <2> QED BY <1>4, <2>1, <2>2
<1>5. Distinct(less)
  <2> SUFFICES ASSUME NEW j \in 1..Len(less), NEW k \in 1..Len(less), less[j] = less[k] PROVE j = k
    BY DEF Distinct
  <2>1. PICK m \in 1..Len(list) : less[j] = list[m] /\ m = IF j < i THEN j ELSE j + 1
    BY <1>1, <1>3
  <2>2. PICK n \in 1..Len(list) : less[k] = list[n] /\ n = IF k < i THEN k ELSE k + 1
    BY <1>1, <1>3
  <2>3. m = n
    BY <2>1, <2>2 DEF Distinct
  <2> QED BY <1>1, <2>1, <2>2, <2>3
<1>6. ToSet(less) = ToSet(list) \ {list[i]}
  <2>1. \A k \in 1..Len(list) : k # i => list[k] # list[i]
    BY DEF Distinct
  <2>2. ASSUME NEW s \in ToSet(less) PROVE s \in ToSet(list) \ {list[i]}
    <3>1. PICK j \in 1..Len(list) - 1 : s = less[j]
      BY <1>2 DEF ToSet
    <3> QED BY <1>2, <1>3, <2>1, <3>1 DEF ToSet
  <2>3. ASSUME NEW s \in ToSet(list) \ {list[i]} PROVE s \in ToSet(less)
    <3>1. PICK k \in 1..Len(list) : s = list[k] /\ k # i
      BY <1>2 DEF ToSet
    <3>2. PICK j \in 1..Len(list) - 1 : less[j] = s
      BY <1>4, <3>1
    <3> QED BY <1>2, <3>2 DEF ToSet
  <2> QED BY <2>2, <2>3
<1> QED
  BY <1>5, <1>6 DEF less

LEMMA SetToSeqDistinct ==
    ASSUME NEW S, IsFiniteSet(S)
    PROVE  SetToSeq(S) \in Seq(S) /\ Distinct(SetToSeq(S)) /\ ToSet(SetToSeq(S)) = S
<1> DEFINE n == Cardinality(S)
           f == SetToSeq(S)
<1>1. n \in Nat /\ \E g \in [1..n -> S] : IsInjective(g)
  BY FS_CardinalityType DEF ExistsBijection, Bijection, Injection
<1>2. f \in [1..n -> S] /\ IsInjective(f)
  BY <1>1 DEF SetToSeq
<1>3. f \in Seq(S) /\ Len(f) = n /\ DOMAIN f = 1..n
  BY <1>1, <1>2
<1>4. f \in Injection(1..n, S)
  BY <1>2 DEF Injection
<1>5. f \in Surjection(1..n, S)
  <2>1. Cardinality(1..n) = n
    BY <1>1, FS_Interval
  <2> HIDE DEF f
  <2> QED BY <1>4, <2>1, FS_Injection
<1> HIDE DEF f
<1>6. Distinct(f)
  BY <1>2, <1>3 DEF Distinct, IsInjective
<1>7. ToSet(f) = S
  BY <1>3, <1>5 DEF Surjection, ToSet
<1> QED
  BY <1>3, <1>6, <1>7 DEF f

(***************************************************************************)
(* The managers, the invites and the shared stream of a bot.               *)
(***************************************************************************)

Making == {"destroying", "creating", "initing"}

Onboarding == {"early", "accepting", "deleting", "outfitting"}

\* What process a may await: it names a subreddit where it must.
Awaits(a) ==
    { k \in Job :
        /\ k.pc \in Onboarding => k.invite \in Subs
        /\ a = "user" /\ k.pc # "idle" => k.invite \in Subs
        /\ k.pc = "creating" => k.making \in Subs
        /\ k.pc = "destroying" => k.at # 0 }

\* What holds for any operations.
BotsInv == BotsTypeOK /\ (\A a \in Actor : job[a] \in Awaits(a)) /\ IsFiniteSet(table)

\* A process that is at an invite finds it in memory, unless onboarding has
\* deleted it already; then Reddit will not accept it.
InviteHeld(a) ==
    /\ job[a].pc \in {"early", "deleting", "outfitting"} => job[a].invite \in table
    /\ a = "user" /\ job[a].pc \in Making \cup {"listing"} => job[a].invite \in table
    /\ job[a].pc = "accepting" => job[a].invite \in table \/ job[a].invite \notin pending
    /\ job[a].pc = "early" => job[a].invite \notin pending

\* What a build is about to make may have a manager and has none.
MakesNew(a) ==
    /\ job[a].rest \cap Excluded = {}
    /\ job[a].pc = "creating" =>
           /\ job[a].making \notin ToSet(managers) \cup Excluded
           /\ job[a].making \notin job[a].rest

\* A build knows whether it has changed the managers.
TellsChange(a) ==
    /\ job[a].pc \in Onboarding \cup {"listing"} => ~job[a].changed
    /\ job[a].pc \in {"destroying", "creating"} => job[a].changed

JobInv(a) == InviteHeld(a) /\ MakesNew(a) /\ TellsChange(a)

\* One process awaits something at a time.
Alone == \E a \in Actor : job[a].pc = "idle"

\* Memory and table have the same invites, each once.
InvitesInv == Distinct(invites) /\ ToSet(invites) = table

ManagersInv == Distinct(managers) /\ ToSet(managers) \cap Excluded = {}

\* The shared stream follows the managers, or a build is going to see to it.
SharedInv ==
    \/ shared = ToSet(managers)
    \/ \E a \in Actor : job[a].pc \in Making /\ job[a].changed

OrderlyInv ==
    /\ Alone /\ \A a \in Actor : JobInv(a)
    /\ moderated \cap pending = {}
    /\ InvitesInv /\ ManagersInv /\ SharedInv

\* It is what is to be shown.
LEMMA OrderlyKept == BotsInv /\ OrderlyInv => ManagersKept
<1> SUFFICES ASSUME BotsInv, OrderlyInv PROVE ManagersKept
  OBVIOUS
<1>1. invites \in Seq(Subs) /\ managers \in Seq(Subs)
  BY DEF BotsInv, BotsTypeOK
<1>2. InvitesAgree
  BY <1>1, DistinctCount DEF OrderlyInv, InvitesInv, InvitesAgree
<1>3. OneManager
  BY <1>1, DistinctCount DEF OrderlyInv, ManagersInv, OneManager
<1>4. ExcludedAlone
  BY DEF OrderlyInv, ManagersInv, ExcludedAlone
<1>5. SharedFollows
  BY DEF OrderlyInv, SharedInv, Making, SharedFollows
<1> QED
  BY <1>2, <1>3, <1>4, <1>5 DEF ManagersKept

LEMMA Jobs ==
    /\ Resting \in Job /\ Resting.pc = "idle" /\ Resting.rest = {} /\ ~Resting.changed
    /\ Resting.invite = "none"
    /\ Listing \in Job /\ Listing.pc = "listing" /\ Listing.rest = {} /\ ~Listing.changed
  BY DEF Resting, Listing, Job

LEMMA BotsBegin == BotInit => BotsInv /\ OrderlyInv
<1> SUFFICES ASSUME BotInit PROVE BotsInv /\ OrderlyInv
  OBVIOUS
<1>1. job["health"] = Listing /\ job["user"] = Resting /\ job \in [Actor -> Job]
  BY Jobs DEF BotInit, Actor
<1>2. BotsTypeOK
  <2>1. moderated \subseteq Subs /\ managers = <<>> /\ invites = <<>>
    BY DEF BotInit
  <2>2. {running, destroying} \subseteq BOOLEAN
    BY Zenon DEF BotInit
  <2>3. /\ pending \subseteq Subs /\ known \subseteq Subs /\ shared \subseteq Subs /\ table \subseteq Subs
        /\ loop \in {"none", "starting", "on", "ended"}
    BY DEF BotInit
  <2>4. managers \in Seq(Subs) /\ invites \in Seq(Subs)
    BY <2>1
  <2> QED BY <1>1, <2>1, <2>2, <2>3, <2>4 DEF BotsTypeOK
<1>5. \A a \in Actor : job[a] \in Awaits(a)
  BY <1>1, Jobs DEF Awaits, Actor, Onboarding, BotInit
<1>6. BotsInv
  BY <1>2, <1>5, FS_EmptySet DEF BotInit, BotsInv
<1>3. ToSet(<<>>) = {} /\ Distinct(<<>>)
  BY DEF ToSet, Distinct
<1>4. OrderlyInv
  BY <1>1, <1>3, Jobs DEF BotInit, OrderlyInv, Alone, JobInv, InviteHeld, MakesNew, TellsChange,
     InvitesInv, ManagersInv, SharedInv, Actor, Making, Onboarding
<1> QED
  BY <1>4, <1>6

\* What a build goes on to.
LEMMA OnwardJobs ==
    ASSUME NEW j \in Job, NEW list \in Seq(Subs), NEW k \in Onward(j, list), j.run \subseteq Subs
    PROVE  /\ k \in Job /\ k.invite = j.invite /\ k.pc \in Making /\ k.rest \subseteq j.rest
           /\ k.pc \in {"destroying", "creating"} => k.changed
           /\ k.pc = "initing" => k.changed = j.changed
           /\ k.pc = "destroying" => k.at \in Nat /\ k.at >= j.at /\ j.pc # "creating"
           /\ k.pc = "creating" => /\ k.making \in j.rest \ ToSet(list) /\ k.making \in Subs
                                   /\ k.making \notin k.rest
<1> DEFINE gone == {i \in j.at..Len(list) : j.pc # "creating" /\ list[i] \notin j.run}
           missing == Missing(j.rest, list)
<1>1. j.at \in Nat /\ j.rest \in SUBSET Subs
  BY DEF Job
<1>2. missing \subseteq j.rest \ ToSet(list)
  BY HasMembers DEF Missing
<1>3. CASE gone # {}
  <2> DEFINE first == CHOOSE i \in gone : \A m \in gone : i <= m
  <2>1. first \in gone
    <3>1. gone \in SUBSET Nat
      BY <1>1
    <3> HIDE DEF gone
    <3> QED BY <1>3, <3>1, LeastNat
  <2>3. first \in Nat /\ first >= j.at /\ j.pc # "creating"
    <3> HIDE DEF first
    <3> QED BY <1>1, <2>1
  <2>2. k = [j EXCEPT !.pc = "destroying", !.changed = TRUE, !.at = first]
    BY <1>3 DEF Onward
  <2> HIDE DEF first
  <2> QED BY <2>2, <2>3 DEF Job, Making
<1>4. CASE gone = {} /\ missing # {}
  <2>1. PICK s \in missing : k = [j EXCEPT !.pc = "creating", !.changed = TRUE, !.at = 0, !.making = s,
                                           !.rest = j.rest \ {s}]
    BY <1>4 DEF Onward
  <2> QED BY <1>1, <1>2, <2>1 DEF Job, Making
<1>5. CASE gone = {} /\ missing = {}
  <2>1. k = [j EXCEPT !.pc = "initing", !.at = 0, !.making = "none", !.rest = {}]
    BY <1>5 DEF Onward
  <2> QED BY <2>1 DEF Job, Making
<1> QED
  BY <1>3, <1>4, <1>5

\* What the iteration over the invites goes on to.
LEMMA NextInviteJobs ==
    ASSUME NEW list \in Seq(Subs), NEW at \in Nat \ {0}, NEW k, k = NextInvite(list, at)
    PROVE  /\ k \in Job /\ k.rest = {} /\ ~k.changed
           /\ k.pc \in {"idle", "listing", "accepting"}
           /\ k.pc = "accepting" => k.invite \in ToSet(list) /\ k.invite \in Subs
<1> DEFINE some == {i \in at..Len(list) : list[i] \in Acceptable}
           first == CHOOSE i \in some : \A j \in some : i <= j
<1>1. CASE some = {}
  <2>1. k \in {Listing, Resting}
    BY <1>1 DEF NextInvite
  <2> QED BY <2>1, Jobs
<1>2. CASE some # {}
  <2>1. k = [Resting EXCEPT !.pc = "accepting", !.invite = list[first], !.at = first]
    BY <1>2 DEF NextInvite
  <2>2. first \in some
    <3>1. some \in SUBSET Nat
      OBVIOUS
    <3> HIDE DEF some
    <3> QED BY <1>2, <3>1, LeastNat
  <2>3. list[first] \in Acceptable /\ first \in 1..Len(list) /\ DOMAIN list = 1..Len(list)
    <3> HIDE DEF first
    <3> QED BY <2>2
  <2>4. Acceptable \subseteq Subs
    BY BotsAssumption
  <2> HIDE DEF first
  <2>5. list[first] \in Subs /\ first \in Nat
    BY <2>3, <2>4
  <2>6. k \in Job /\ k.pc = "accepting" /\ k.invite = list[first] /\ k.rest = {} /\ ~k.changed
    BY <2>1, <2>5 DEF Resting, Job
  <2> QED BY <2>3, <2>4, <2>6 DEF ToSet
<1> QED
  BY <1>1, <1>2


LEMMA WithoutInviteKeeps ==
    ASSUME NEW list \in Seq(Subs), NEW s
    PROVE  /\ WithoutInvite(list, s) \in Seq(Subs)
           /\ Distinct(list) /\ s \in ToSet(list)
                 => Distinct(WithoutInvite(list, s)) /\ ToSet(WithoutInvite(list, s)) = ToSet(list) \ {s}
<1>1. CASE Has(list, s)
  <2> DEFINE i == CHOOSE n \in 1..Len(list) : list[n] = s
  <2>1. i \in 1..Len(list) /\ list[i] = s /\ WithoutInvite(list, s) = RemoveAt(list, i)
    BY <1>1 DEF Has, WithoutInvite
  <2> HIDE DEF i
  <2>2. RemoveAt(list, i) \in Seq(Subs)
    BY <2>1, RemoveAtFields
  <2>3. Distinct(list) => Distinct(RemoveAt(list, i)) /\ ToSet(RemoveAt(list, i)) = ToSet(list) \ {s}
    BY <2>1, DistinctRemoveAt
  <2> QED BY <2>1, <2>2, <2>3
<1>2. CASE ~Has(list, s)
  <2>1. WithoutInvite(list, s) \in Seq(Subs)
    BY <1>2 DEF WithoutInvite, Front
  <2> QED BY <1>2, <2>1, HasMembers
<1> QED
  BY <1>1, <1>2

LEMMA SpliceKeeps ==
    ASSUME NEW list \in Seq(Subs), NEW at \in Nat \ {0}
    PROVE  /\ Splice(list, at) \in Seq(Subs)
           /\ Distinct(list) => Distinct(Splice(list, at)) /\ ToSet(Splice(list, at)) \subseteq ToSet(list)
<1>1. CASE at <= Len(list)
  <2>1. at \in 1..Len(list) /\ Splice(list, at) = RemoveAt(list, at)
    BY <1>1 DEF Splice
  <2> QED BY <2>1, RemoveAtFields, DistinctRemoveAt
<1>2. CASE ~ (at <= Len(list))
  BY <1>2 DEF Splice
<1> QED
  BY <1>1, <1>2

\* A process goes on to await k; the other is not concerned.
LEMMA AwaitsKept ==
    ASSUME BotsInv, NEW a \in Actor, NEW k, k \in Awaits(a), job' = [job EXCEPT ![a] = k]
    PROVE  job' \in [Actor -> Job] /\ \A b \in Actor : job'[b] \in Awaits(b)
  BY DEF BotsInv, BotsTypeOK, Awaits

LEMMA RestingAwaits == \A a : Resting \in Awaits(a) /\ (a # "user" => Listing \in Awaits(a))
  BY Jobs DEF Awaits, Onboarding

LEMMA BuiltAwaits ==
    ASSUME BotsInv, NEW a \in Actor, job[a].pc # "idle", NEW list
    PROVE  /\ Built(a, list) \in Awaits(a)
           /\ Built(a, list).rest = {} /\ ~Built(a, list).changed
           /\ Built(a, list).pc \notin Making \cup {"listing", "accepting", "early"}
           /\ Built(a, list).pc # "idle" => a = "user" /\ Built(a, list).invite = job[a].invite
<1>1. job[a] \in Job /\ (a = "user" => job[a].invite \in Subs)
  BY DEF BotsInv, Awaits
<1>2. CASE a = "health"
  BY <1>2, RestingAwaits, Jobs DEF Built, Making
<1>3. CASE a = "user"
  <2>1. PICK pc \in {"outfitting", "deleting"} :
            Built(a, list) = [Resting EXCEPT !.pc = pc, !.invite = job[a].invite]
    BY <1>3 DEF Built
  <2> QED BY <1>1, <1>3, <2>1, Jobs DEF Awaits, Onboarding, Making, Job
<1> QED
  BY <1>2, <1>3 DEF Actor

\* The iteration of the health loop over the invites.
LEMMA NextInviteAwaits ==
    ASSUME NEW list \in Seq(Subs), NEW at \in Nat \ {0}
    PROVE  NextInvite(list, at) \in Awaits("health")
  BY NextInviteJobs DEF Awaits, Onboarding

\* A build that goes on.
LEMMA OnwardAwaits ==
    ASSUME BotsInv, NEW a \in Actor, job[a].pc # "idle", NEW j \in Job, j.invite = job[a].invite,
           j.run \subseteq Subs, j.at # 0 \/ j.pc = "creating", NEW list \in Seq(Subs),
           NEW k \in Onward(j, list)
    PROVE  k \in Awaits(a)
<1>1. a = "user" => k.invite \in Subs
  BY OnwardJobs DEF BotsInv, Awaits
<1>2. k.pc = "destroying" => k.at # 0
  BY OnwardJobs DEF Job
<1>3. k \in Job /\ k.pc \notin Onboarding /\ (k.pc = "creating" => k.making \in Subs)
  BY OnwardJobs DEF Onboarding, Making
<1> QED
  BY <1>1, <1>2, <1>3 DEF Awaits

LEMMA Typically ==
    ASSUME BotsInv, NEW a \in Actor, NEW k \in Awaits(a), job' = [job EXCEPT ![a] = k],
           {running', destroying'} \subseteq BOOLEAN,
           moderated' \subseteq Subs, pending' \subseteq Subs, known' \subseteq Subs,
           shared' \subseteq Subs, table' \subseteq table,
           managers' \in Seq(Subs), invites' \in Seq(Subs),
           loop' \in {"none", "starting", "on", "ended"}
    PROVE  BotsInv'
<1>1. job' \in [Actor -> Job] /\ \A b \in Actor : job'[b] \in Awaits(b)
  BY AwaitsKept
<1>2. table' \subseteq Subs /\ IsFiniteSet(table')
  BY FS_Subset DEF BotsInv, BotsTypeOK
<1> QED
  BY <1>1, <1>2 DEF BotsInv, BotsTypeOK, Awaits

LEMMA ModeratorsTyped == BotsInv /\ (Moderators \/ LoopBegins \/ Destroy) => BotsInv'
<1> SUFFICES ASSUME BotsInv, Moderators \/ LoopBegins \/ Destroy PROVE BotsInv'
  OBVIOUS
<1>1. UNCHANGED <<known, managers, shared, invites, table, job>>
  BY DEF Moderators, Invite, Demod, LoopBegins, Destroy
<1>2. /\ moderated' \subseteq Subs /\ pending' \subseteq Subs
      /\ loop' \in {"none", "starting", "on", "ended"}
  <2>1. CASE LoopBegins \/ Destroy
    <3>1. UNCHANGED <<moderated, pending>> /\ loop' \in {loop, "on"}
      BY <2>1 DEF LoopBegins, Destroy, reddit
    <3> QED BY <3>1 DEF BotsInv, BotsTypeOK
  <2>2. ASSUME NEW s \in Subs, Invite(s) \/ Demod(s)
        PROVE  /\ moderated' \subseteq Subs /\ pending' \subseteq Subs
               /\ loop' = loop
    BY <2>2 DEF BotsInv, BotsTypeOK, Invite, Demod
  <2> QED BY <2>1, <2>2 DEF Moderators, Changing, BotsInv, BotsTypeOK
<1>3. {running', destroying'} \subseteq BOOLEAN
  BY DEF BotsInv, BotsTypeOK, Moderators, Invite, Demod, LoopBegins, Destroy
<1> QED
  BY <1>1, <1>2, <1>3 DEF BotsInv, BotsTypeOK, Awaits

LEMMA OnboardersTyped == BotsInv /\ Onboarders => BotsInv'
<1> SUFFICES ASSUME BotsInv, NEW s \in Subs, AddInvite(s) \/ DeleteInvite(s) \/ FinishOnboarding(s)
             PROVE  BotsInv'
  BY DEF Onboarders, Changing
<1>1. CASE AddInvite(s)
  <2>1. Append(invites, s) \in Seq(Subs)
    BY DEF BotsInv, BotsTypeOK
  <2>2. IsFiniteSet(table \cup {s})
    BY FS_AddElement DEF BotsInv
  <2> QED BY <1>1, <2>1, <2>2 DEF AddInvite, reddit, BotsInv, BotsTypeOK, Awaits
<1>2. CASE DeleteInvite(s) \/ FinishOnboarding(s)
  <2>1. PICK pc \in Onboarding : job' = [job EXCEPT !["user"] = [Resting EXCEPT !.pc = pc, !.invite = s]]
    BY <1>2 DEF DeleteInvite, FinishOnboarding, Onboarding
  <2>2. [Resting EXCEPT !.pc = pc, !.invite = s] \in Awaits("user")
    BY Jobs DEF Awaits, Onboarding, Job
  <2>3. "user" \in Actor
    BY DEF Actor
  <2> QED BY <1>2, <2>1, <2>2, <2>3, Typically
          DEF DeleteInvite, FinishOnboarding, reddit, BotsInv, BotsTypeOK
<1> QED
  BY <1>1, <1>2

\* What each process has its await settle as.
LEMMA AcceptedAwaits ==
    ASSUME BotsInv, NEW a \in Actor, Accepted(a)
    PROVE  \E k \in Awaits(a) : /\ job' = [job EXCEPT ![a] = k]
                                /\ k.invite = job[a].invite /\ k.rest = job[a].rest
                                /\ k.pc = IF a = "user" THEN "listing" ELSE "deleting"
                                /\ k.changed = job[a].changed
<1> DEFINE k == [job[a] EXCEPT !.pc = IF a = "user" THEN "listing" ELSE "deleting"]
<1>1. job[a] \in Job /\ job[a].invite \in Subs /\ job \in [Actor -> Job]
  BY DEF BotsInv, BotsTypeOK, Awaits, Onboarding, Accepted
<1>2. k \in Awaits(a)
  BY <1>1 DEF Awaits, Job, Onboarding
<1>3. job' = [job EXCEPT ![a] = k]
  BY <1>1 DEF Accepted
<1> QED
  BY <1>1, <1>2, <1>3 DEF Job

LEMMA AcceptFailsAwaits ==
    ASSUME BotsInv, NEW a \in Actor, AcceptFails(a)
    PROVE  \E k \in Awaits(a) : /\ job' = [job EXCEPT ![a] = k]
                                /\ \/ k = Resting
                                   \/ a = "health" /\ k = NextInvite(invites, job[a].at + 1)
<1>1. job[a].at + 1 \in Nat \ {0} /\ invites \in Seq(Subs)
  BY DEF BotsInv, BotsTypeOK, Awaits, Job
<1> QED
  BY <1>1, RestingAwaits, NextInviteAwaits DEF AcceptFails, Actor

LEMMA DeletesAwaits ==
    ASSUME BotsInv, NEW a \in Actor, Deletes(a)
    PROVE  /\ invites' \in Seq(Subs)
           /\ \E k \in Awaits(a) :
                 /\ job' = [job EXCEPT ![a] = k]
                 /\ \/ /\ job[a].pc = "early" /\ k.pc = "accepting" /\ k.invite = job[a].invite
                       /\ k.rest = job[a].rest /\ k.changed = job[a].changed
                    \/ k = Resting
                    \/ a = "health" /\ k = NextInvite(invites', job[a].at + 1)
<1>1. job[a].at + 1 \in Nat \ {0} /\ invites' \in Seq(Subs)
  BY WithoutInviteKeeps DEF BotsInv, BotsTypeOK, Awaits, Job, Deletes
<1>2. job[a] \in Job /\ job[a].invite \in Subs
  BY DEF BotsInv, BotsTypeOK, Awaits, Onboarding, Deletes
<1>3. CASE job[a].pc = "early"
  <2> DEFINE k == [job[a] EXCEPT !.pc = "accepting"]
  <2>1. k \in Awaits(a)
    BY <1>2 DEF Awaits, Job, Onboarding
  <2>2. job' = [job EXCEPT ![a] = k]
    BY <1>3 DEF Deletes, BotsInv, BotsTypeOK
  <2>3. k.pc = "accepting" /\ k.invite = job[a].invite /\ k.rest = job[a].rest
      /\ k.changed = job[a].changed
    BY <1>2 DEF Job
  <2> HIDE DEF k
  <2> QED BY <1>1, <1>3, <2>1, <2>2, <2>3
<1>4. CASE job[a].pc # "early" /\ a = "user"
  <2>1. job' = [job EXCEPT ![a] = Resting]
    BY <1>4 DEF Deletes
  <2> QED BY <1>1, <2>1, RestingAwaits
<1>5. CASE job[a].pc # "early" /\ a = "health"
  <2>1. job' = [job EXCEPT ![a] = NextInvite(invites', job[a].at + 1)]
    BY <1>5 DEF Deletes
  <2> QED BY <1>1, <1>5, <2>1, NextInviteAwaits
<1> QED
  BY <1>3, <1>4, <1>5 DEF Actor

LEMMA ListedAwaits ==
    ASSUME BotsInv, NEW a \in Actor, Listed(a)
    PROVE  \E k \in Awaits(a) :
              /\ job' = [job EXCEPT ![a] = k]
              /\ k.invite = job[a].invite /\ k.pc \in Making /\ k.rest \cap Excluded = {}
              /\ k.pc \in {"destroying", "creating"} => k.changed
              /\ k.pc = "creating" => /\ k.making \notin ToSet(managers) \cup Excluded
                                      /\ k.making \notin k.rest
<1> DEFINE run == SubsToRun(moderated)
           j == [job[a] EXCEPT !.at = 1, !.run = run, !.rest = run]
<1>1. run \in SUBSET Subs /\ run \cap Excluded = {} /\ managers \in Seq(Subs) /\ job[a].pc = "listing"
  BY DEF BotsInv, BotsTypeOK, SubsToRun, Listed
<1>2. job[a] \in Job
  BY DEF BotsInv, Awaits
<1>3. PICK k \in Onward(j, managers) : job' = [job EXCEPT ![a] = k]
  BY DEF Listed
<1> HIDE DEF run
<1>4. j \in Job /\ j.run = run /\ j.rest = run /\ j.at = 1 /\ j.invite = job[a].invite
  BY <1>1, <1>2 DEF Job
<1> HIDE DEF j
<1>5. k \in Awaits(a)
  BY <1>1, <1>3, <1>4, OnwardAwaits
<1>6. /\ k.invite = job[a].invite /\ k.pc \in Making /\ k.rest \subseteq run
      /\ k.pc \in {"destroying", "creating"} => k.changed
      /\ k.pc = "creating" => k.making \in run \ ToSet(managers) /\ k.making \notin k.rest
  BY <1>1, <1>3, <1>4, OnwardJobs
<1> QED
  BY <1>1, <1>3, <1>5, <1>6

\* A step of a build after the listing.
Makes(a) == Destroyed(a) \/ Created(a) \/ CreationFails(a)

LEMMA MakesAwaits ==
    ASSUME BotsInv, NEW a \in Actor, Makes(a)
    PROVE  /\ managers' \in Seq(Subs)
           /\ \E k \in Awaits(a) :
                 /\ job' = [job EXCEPT ![a] = k]
                 /\ k.invite = job[a].invite /\ k.pc \in Making /\ k.rest \subseteq job[a].rest
                 /\ k.pc \in {"destroying", "creating"} => k.changed
                 /\ k.pc = "initing" => k.changed = job[a].changed
                 /\ k.pc = "creating" => k.making \in job[a].rest \ ToSet(managers') /\ k.making \notin k.rest
<1> DEFINE j == IF job[a].pc = "creating" THEN job[a] ELSE [job[a] EXCEPT !.at = @ + 1]
<1>1. job[a] \in Awaits(a) /\ managers \in Seq(Subs)
  BY DEF BotsInv, BotsTypeOK
<1>2. managers' \in Seq(Subs)
  <2>1. CASE Destroyed(a)
    BY <1>1, <2>1, SpliceKeeps DEF Awaits, Job, Destroyed
  <2>2. CASE Created(a)
    <3>1. job[a].making \in Subs /\ managers' = Append(managers, job[a].making)
      BY <1>1, <2>2 DEF Awaits, Created
    <3> QED BY <1>1, <3>1
  <2>3. CASE CreationFails(a)
    BY <1>1, <2>3 DEF CreationFails
  <2> QED BY <2>1, <2>2, <2>3 DEF Makes
<1>3. PICK k \in Onward(j, managers') : job' = [job EXCEPT ![a] = k]
  BY DEF Makes, Destroyed, Created, CreationFails
<1>4. /\ j \in Job /\ j.run \in SUBSET Subs /\ j.rest = job[a].rest /\ j.invite = job[a].invite
      /\ j.changed = job[a].changed /\ (j.at # 0 \/ j.pc = "creating")
  BY <1>1 DEF Awaits, Job
<1>5. job[a].pc # "idle"
  BY DEF Makes, Destroyed, Created, CreationFails
<1> HIDE DEF j
<1>6. k \in Awaits(a)
  BY <1>2, <1>3, <1>4, <1>5, OnwardAwaits
<1>7. /\ k.invite = j.invite /\ k.pc \in Making /\ k.rest \subseteq j.rest
      /\ k.pc \in {"destroying", "creating"} => k.changed
      /\ k.pc = "initing" => k.changed = j.changed
      /\ k.pc = "creating" => k.making \in j.rest \ ToSet(managers') /\ k.making \notin k.rest
  BY <1>2, <1>3, <1>4, OnwardJobs
<1> QED
  BY <1>2, <1>3, <1>4, <1>6, <1>7

\* A build ends, is given up, or has made a manager for the invite.
Ends(a) == ListingFails(a) \/ Inited(a) \/ (a = "user" /\ Outfitted)

\* What a process then awaits.
EndsAs(a, k) ==
    /\ k.changed => job[a].changed /\ job[a].pc = "outfitting"
    /\ k.rest \subseteq job[a].rest
    /\ k.pc \in {"idle", "outfitting", "deleting"} \/ (a = "health" /\ k = NextInvite(invites, 1))
    /\ k.pc \in {"outfitting", "deleting"} => a = "user" /\ k.invite = job[a].invite

LEMMA EndsAwaits ==
    ASSUME BotsInv, NEW a \in Actor, Ends(a)
    PROVE  \E k \in Awaits(a) : job' = [job EXCEPT ![a] = k] /\ EndsAs(a, k)
<1> USE DEF EndsAs
<1>1. CASE a = "user" /\ Outfitted
  <2> DEFINE k == [job[a] EXCEPT !.pc = "deleting"]
  <2>1. job[a] \in Job /\ job[a].invite \in Subs
    BY <1>1 DEF BotsInv, Awaits, Onboarding, Outfitted
  <2>2. k \in Awaits(a) /\ k.rest = job[a].rest /\ k.pc = "deleting" /\ k.invite = job[a].invite
      /\ k.changed = job[a].changed /\ job[a].pc = "outfitting"
    BY <1>1, <2>1 DEF Outfitted, Awaits, Job, Onboarding
  <2>3. job' = [job EXCEPT ![a] = k]
    BY <1>1 DEF Outfitted, BotsInv, BotsTypeOK
  <2> HIDE DEF k
  <2> QED BY <1>1, <2>2, <2>3
<1>2. CASE Inited(a) /\ a = "health" /\ loop = "none"
  <2> DEFINE k == NextInvite(invites, 1)
  <2>1. invites \in Seq(Subs) /\ 1 \in Nat \ {0}
    BY DEF BotsInv, BotsTypeOK
  <2>2. k \in Awaits(a) /\ k.rest = {} /\ ~k.changed /\ k.pc \notin {"outfitting", "deleting"}
    BY <1>2, <2>1, NextInviteAwaits, NextInviteJobs
  <2>3. job' = [job EXCEPT ![a] = k]
    BY <1>2 DEF Inited
  <2> HIDE DEF k
  <2>4. k = NextInvite(invites, 1)
    BY DEF k
  <2> QED BY <1>2, <2>2, <2>3, <2>4
<1>3. CASE ListingFails(a) \/ (Inited(a) /\ ~(a = "health" /\ loop = "none"))
  <2>1. PICK list : job' = [job EXCEPT ![a] = Built(a, list)]
    BY <1>3 DEF ListingFails, Inited
  <2>2. job[a].pc # "idle"
    BY <1>3 DEF ListingFails, Inited
  <2>3. /\ Built(a, list) \in Awaits(a) /\ Built(a, list).rest = {}
        /\ ~Built(a, list).changed /\ Built(a, list).pc \in {"idle", "outfitting", "deleting"}
        /\ Built(a, list).pc # "idle" => a = "user" /\ Built(a, list).invite = job[a].invite
    BY <2>2, BuiltAwaits DEF Awaits, Job, Making
  <2> QED BY <2>1, <2>3
<1> HIDE DEF EndsAs
<1> QED
  BY <1>1, <1>2, <1>3 DEF Ends

\* What holds for any operations.
LEMMA BotsTyped == BotsInv /\ [BotNext]_botVars => BotsInv'
<1> SUFFICES ASSUME BotsInv, [BotNext]_botVars PROVE BotsInv'
  OBVIOUS
<1> USE DEF reddit
<1>1. CASE Moderators \/ LoopBegins \/ Destroy
  BY <1>1, ModeratorsTyped
<1>2. CASE Onboarders
  BY <1>2, OnboardersTyped
<1>3. ASSUME NEW a \in Actor, Accepted(a) PROVE BotsInv'
  <2>1. PICK k \in Awaits(a) : job' = [job EXCEPT ![a] = k]
    BY <1>3, AcceptedAwaits
  <2>2. job[a].invite \in Subs
    BY <1>3 DEF BotsInv, Awaits, Onboarding, Accepted
  <2> QED BY <1>3, <2>1, <2>2, Typically DEF BotsInv, BotsTypeOK, Accepted
<1>4. ASSUME NEW a \in Actor, AcceptFails(a) PROVE BotsInv'
  BY <1>4, AcceptFailsAwaits, Typically DEF BotsInv, BotsTypeOK, AcceptFails
<1>5. ASSUME NEW a \in Actor, Deletes(a) PROVE BotsInv'
  BY <1>5, DeletesAwaits, Typically DEF BotsInv, BotsTypeOK, Deletes
<1>6. ASSUME NEW a \in Actor, Listed(a) PROVE BotsInv'
  BY <1>6, ListedAwaits, Typically DEF BotsInv, BotsTypeOK, Listed
<1>7. ASSUME NEW a \in Actor, Makes(a) PROVE BotsInv'
  BY <1>7, MakesAwaits, Typically DEF BotsInv, BotsTypeOK, Makes, Destroyed, Created, CreationFails
<1>8. ASSUME NEW a \in Actor, Ends(a) PROVE BotsInv'
  <2>1. PICK k \in Awaits(a) : job' = [job EXCEPT ![a] = k]
    BY <1>8, EndsAwaits
  <2>2. shared' \subseteq Subs
    BY <1>8 DEF BotsInv, BotsTypeOK, Ends, ListingFails, Inited, Outfitted, SharedAfter, ToSet
  <2>3. UNCHANGED <<moderated, pending, known, managers, invites, table, destroying>>
    BY <1>8 DEF Ends, ListingFails, Inited, Outfitted
  <2>4. running' \in BOOLEAN /\ loop' \in {"none", "starting", "on", "ended"}
    BY <1>8 DEF BotsInv, BotsTypeOK, Ends, ListingFails, Inited, Outfitted
  <2> QED BY <2>1, <2>2, <2>3, <2>4, Typically DEF BotsInv, BotsTypeOK
<1>9. CASE Heartbeat
  <2>1. "health" \in Actor /\ NextInvite(invites, 1) \in Awaits("health")
    BY NextInviteAwaits DEF Actor, BotsInv, BotsTypeOK
  <2> QED BY <1>9, <2>1, Typically DEF BotsInv, BotsTypeOK, Heartbeat
<1>10. CASE LoopEnds
  <2>1. job' \in [Actor -> Job] /\ \A a \in Actor : job'[a] \in Awaits(a)
    BY <1>10, Jobs, RestingAwaits DEF LoopEnds
  <2>2. invites' \in Seq(Subs)
    BY <1>10, SetToSeqDistinct DEF LoopEnds, BotsInv, BotsTypeOK
  <2>3. /\ managers' \in Seq(Subs) /\ {running', destroying'} \subseteq BOOLEAN
    <3>1. managers' = <<>> /\ running' = FALSE /\ destroying' = FALSE
      BY <1>10 DEF LoopEnds
    <3>2. {FALSE} \subseteq BOOLEAN
      OBVIOUS
    <3>3. <<>> \in Seq(Subs)
      OBVIOUS
    <3> QED BY <3>1, <3>2, <3>3
  <2>4. known' = {} /\ shared' = {} /\ UNCHANGED <<moderated, pending, table>> /\ loop' = "none"
    BY <1>10 DEF LoopEnds
  <2> QED BY <2>1, <2>2, <2>3, <2>4 DEF BotsInv, BotsTypeOK, Awaits
<1>11. CASE UNCHANGED botVars
  BY <1>11 DEF botVars, BotsInv, BotsTypeOK, Awaits
<1>12. Outfitted => Ends("user") /\ "user" \in Actor
  BY DEF Ends, Actor
<1> QED
  BY <1>1, <1>2, <1>3, <1>4, <1>5, <1>6, <1>7, <1>8, <1>9, <1>10, <1>11, <1>12
     DEF BotNext, Settles, Fails, Makes, Ends

(***************************************************************************)
(* One operation at a time.                                                *)
(***************************************************************************)

\* A process goes on to await k; the other one rests.
LEMMA OtherRests ==
    ASSUME BotsInv, OrderlyInv, NEW a \in Actor, job[a].pc # "idle" \/ Others(a),
           NEW k, job' = [job EXCEPT ![a] = k]
    PROVE  /\ job'[a] = k /\ Alone'
           /\ \A b \in Actor \ {a} : job[b].pc = "idle" /\ job'[b] = job[b]
           /\ (\A b \in Actor \ {a} : JobInv(b))'
<1>1. job'[a] = k /\ \A b \in Actor \ {a} : job'[b] = job[b]
  BY DEF BotsInv, BotsTypeOK
<1>2. \A b \in Actor \ {a} : job[b].pc = "idle"
  BY DEF OrderlyInv, Alone, Others, Actor
<1>3. Alone'
  <2>1. \E b \in Actor : b # a
    BY DEF Actor
  <2> QED BY <1>1, <1>2, <2>1 DEF Alone
<1>4. (\A b \in Actor \ {a} : JobInv(b))'
  <2> SUFFICES ASSUME NEW b \in Actor \ {a} PROVE JobInv(b)'
    OBVIOUS
  <2>1. job'[b] = job[b] /\ job[b].pc = "idle" /\ job[b].rest \cap Excluded = {}
    BY <1>1, <1>2 DEF OrderlyInv, JobInv, MakesNew
  <2> QED BY <2>1 DEF JobInv, InviteHeld, MakesNew, TellsChange, Making, Onboarding
<1> QED
  BY <1>1, <1>2, <1>3, <1>4

\* It is enough to look at the one that acts.
LEMMA OneActs ==
    ASSUME BotsInv, OrderlyInv, NEW a \in Actor, job[a].pc # "idle" \/ Others(a),
           NEW k, job' = [job EXCEPT ![a] = k],
           JobInv(a)', moderated' \cap pending' = {}, InvitesInv', ManagersInv',
           \/ shared' = ToSet(managers')
           \/ k.pc \in Making /\ k.changed
    PROVE  OrderlyInv'
<1>1. /\ job'[a] = k /\ Alone'
      /\ (\A b \in Actor \ {a} : JobInv(b))'
  BY OtherRests
<1>2. SharedInv'
  BY <1>1 DEF SharedInv
<1> QED
  BY <1>1, <1>2 DEF OrderlyInv

LEMMA ModeratorsOrderly ==
    Orderly /\ BotsInv /\ OrderlyInv /\ (Moderators \/ LoopBegins \/ Destroy) => OrderlyInv'
<1> SUFFICES ASSUME Orderly, BotsInv, OrderlyInv, Moderators \/ LoopBegins \/ Destroy
             PROVE  OrderlyInv'
  OBVIOUS
<1>1. UNCHANGED <<managers, shared, invites, table, job>>
  BY DEF Moderators, Invite, Demod, LoopBegins, Destroy
<1>2. Alone' /\ InvitesInv' /\ ManagersInv' /\ SharedInv'
  BY <1>1 DEF OrderlyInv, Alone, InvitesInv, ManagersInv, SharedInv
<1>3. /\ moderated' \cap pending' = {}
      /\ \A a \in Actor : job[a].invite \in pending' => job[a].invite \in pending
  <2>1. CASE LoopBegins \/ Destroy
    BY <2>1 DEF LoopBegins, Destroy, reddit, OrderlyInv
  <2>2. ASSUME NEW s, Demod(s) PROVE moderated' \cap pending' = {} /\ pending' = pending
    BY <2>2 DEF Demod, OrderlyInv
  <2>3. ASSUME NEW s, Invite(s)
        PROVE  /\ moderated' \cap pending' = {} /\ pending' = pending \cup {s}
               /\ \A a \in Actor : job[a].invite # s
    BY <2>3 DEF Invite, Noticed, OrderlyInv
  <2> QED BY <2>1, <2>2, <2>3 DEF Moderators
<1>4. ASSUME NEW a \in Actor PROVE JobInv(a)'
  <2>1. JobInv(a)
    BY DEF OrderlyInv
  <2>2. InviteHeld(a)'
    BY <1>1, <1>3, <2>1 DEF JobInv, InviteHeld
  <2>3. MakesNew(a)' /\ TellsChange(a)'
    BY <1>1, <2>1 DEF JobInv, MakesNew, TellsChange
  <2> QED BY <2>2, <2>3 DEF JobInv
<1> QED
  BY <1>2, <1>3, <1>4 DEF OrderlyInv

LEMMA OnboardersOrderly == Orderly /\ BotsInv /\ OrderlyInv /\ Onboarders => OrderlyInv'
<1> SUFFICES ASSUME Orderly, BotsInv, OrderlyInv,
                    NEW s \in Subs, AddInvite(s) \/ DeleteInvite(s) \/ FinishOnboarding(s)
             PROVE  OrderlyInv'
  BY DEF Onboarders, Changing
<1>1. UNCHANGED <<moderated, pending, managers, shared>>
  BY DEF AddInvite, DeleteInvite, FinishOnboarding, reddit
<1>2. CASE AddInvite(s)
  <2>1. InvitesInv'
    <3>1. /\ invites' = Append(invites, s) /\ table' = table \cup {s} /\ s \notin ToSet(invites)
          /\ Distinct(invites) /\ invites \in Seq(Subs)
      BY <1>2 DEF AddInvite, OrderlyInv, InvitesInv, BotsInv, BotsTypeOK
    <3> QED BY <3>1, DistinctAppend DEF OrderlyInv, InvitesInv
  <2>2. job' = job /\ table \subseteq table'
    BY <1>2 DEF AddInvite
  <2>3. ASSUME NEW a \in Actor PROVE JobInv(a)'
    <3>1. JobInv(a)
      BY DEF OrderlyInv
    <3> QED BY <1>1, <2>2, <3>1 DEF JobInv, InviteHeld, MakesNew, TellsChange
  <2> QED BY <1>1, <2>1, <2>2, <2>3 DEF OrderlyInv, Alone, ManagersInv, SharedInv
<1>3. CASE DeleteInvite(s) \/ FinishOnboarding(s)
  <2>1. s \in table /\ Others("user") /\ UNCHANGED <<invites, table>>
    BY <1>3, HasMembers DEF DeleteInvite, FinishOnboarding, Free, OrderlyInv, InvitesInv
  <2>2. PICK pc \in {"early", "accepting", "deleting"} :
           /\ job' = [job EXCEPT !["user"] = [Resting EXCEPT !.pc = pc, !.invite = s]]
           /\ pc = "early" => s \notin pending
    BY <1>3 DEF DeleteInvite, FinishOnboarding, OrderlyInv
  <2> DEFINE k == [Resting EXCEPT !.pc = pc, !.invite = s]
  <2>3. k.pc = pc /\ k.invite = s /\ k.rest = {} /\ ~k.changed
    BY Jobs DEF Resting
  <2> HIDE DEF k
  <2>4. "user" \in Actor
    BY DEF Actor
  <2>5. job'["user"] = k
    BY <2>1, <2>2, <2>4, OtherRests DEF k
  <2>6. JobInv("user")'
    <3>1. k.pc \in {"early", "accepting", "deleting"}
      BY <2>3
    <3>2. InviteHeld("user")'
      BY <1>1, <2>1, <2>2, <2>3, <2>5, <3>1 DEF InviteHeld, Making
    <3>3. MakesNew("user")' /\ TellsChange("user")'
      BY <2>3, <2>5, <3>1 DEF MakesNew, TellsChange
    <3> QED BY <3>2, <3>3 DEF JobInv
  <2>7. shared = ToSet(managers)
    <3>1. job["user"].pc = "idle" /\ \A a \in Actor : job[a].pc = "idle"
      BY <1>3, <2>1 DEF DeleteInvite, FinishOnboarding, Free, Others
    <3> QED BY <3>1 DEF OrderlyInv, SharedInv, Making
  <2> QED BY <1>1, <2>1, <2>2, <2>4, <2>6, <2>7, OneActs DEF k, OrderlyInv, InvitesInv, ManagersInv
<1> QED
  BY <1>2, <1>3

\* While no build is about to share anew, the shared stream follows.
LEMMA SharedBefore ==
    ASSUME OrderlyInv, NEW a \in Actor, job[a].pc # "idle" \/ Others(a), job[a].pc \notin Making \/ ~job[a].changed
    PROVE  shared = ToSet(managers)
<1>1. \A b \in Actor \ {a} : job[b].pc = "idle"
  BY DEF OrderlyInv, Alone, Others, Actor
<1> QED
  BY <1>1 DEF OrderlyInv, SharedInv, Making

LEMMA AcceptedOrderly ==
    ASSUME Orderly, BotsInv, OrderlyInv, NEW a \in Actor, Accepted(a)
    PROVE  OrderlyInv'
<1>1. PICK k \in Awaits(a) : /\ job' = [job EXCEPT ![a] = k]
                             /\ k.invite = job[a].invite /\ k.rest = job[a].rest
                             /\ k.pc = IF a = "user" THEN "listing" ELSE "deleting"
                             /\ k.changed = job[a].changed
  BY AcceptedAwaits
<1>2. /\ job[a].pc = "accepting" /\ job[a].invite \in pending
      /\ moderated' = moderated \cup {job[a].invite} /\ pending' = pending \ {job[a].invite}
      /\ UNCHANGED <<managers, shared, invites, table>>
  BY DEF Accepted
<1>3. job'[a] = k
  BY <1>1, <1>2, OtherRests
<1>4. job[a].invite \in table /\ job[a].rest \cap Excluded = {}
  BY <1>2 DEF OrderlyInv, JobInv, InviteHeld, MakesNew
<1>5. JobInv(a)'
  <2>1. InviteHeld(a)'
    BY <1>1, <1>2, <1>3, <1>4 DEF InviteHeld
  <2>2. MakesNew(a)'
    BY <1>1, <1>3, <1>4 DEF MakesNew
  <2>3. TellsChange(a)'
    <3>1. ~job[a].changed
      BY <1>2 DEF TellsChange, OrderlyInv, JobInv, Onboarding
    <3> QED BY <1>1, <1>3, <3>1 DEF TellsChange
  <2> QED BY <2>1, <2>2, <2>3 DEF JobInv
<1>6. moderated' \cap pending' = {} /\ InvitesInv' /\ ManagersInv'
  BY <1>2 DEF OrderlyInv, InvitesInv, ManagersInv
<1>7. shared' = ToSet(managers')
  BY <1>2, SharedBefore DEF Making
<1> QED
  BY <1>1, <1>2, <1>5, <1>6, <1>7, OneActs

\* The invites that the health loop goes through are in the table.
LEMMA NextInviteHeld ==
    ASSUME NEW list \in Seq(Subs), NEW at \in Nat \ {0}, NEW k, k = NextInvite(list, at) \/ k = Resting
    PROVE  /\ k.rest = {} /\ ~k.changed /\ k.pc \in {"idle", "listing", "accepting"}
           /\ k.pc = "accepting" => k.invite \in ToSet(list)
  BY NextInviteJobs, Jobs

\* The health loop goes to the next invite, or an operation ends.
LEMMA GoesOnOrderly ==
    ASSUME Orderly, BotsInv, OrderlyInv, NEW a \in Actor, job[a].pc # "idle" \/ Others(a),
           NEW k, job' = [job EXCEPT ![a] = k],
           k.rest = {} /\ ~k.changed /\ k.pc \in {"idle", "listing", "accepting"},
           k.pc # "idle" => a = "health",
           k.pc = "accepting" => k.invite \in ToSet(invites'),
           UNCHANGED <<moderated, pending, managers>>, InvitesInv', shared' = ToSet(managers)
    PROVE  OrderlyInv'
<1>1. job'[a] = k
  BY OtherRests
<1>2. JobInv(a)'
  <2>1. InviteHeld(a)'
    BY <1>1 DEF InviteHeld, InvitesInv, Making
  <2>2. MakesNew(a)' /\ TellsChange(a)'
    BY <1>1 DEF MakesNew, TellsChange
  <2> QED BY <2>1, <2>2 DEF JobInv
<1>3. moderated' \cap pending' = {} /\ ManagersInv'
  BY DEF OrderlyInv, ManagersInv
<1> QED
  BY <1>2, <1>3, OneActs

LEMMA AcceptFailsOrderly ==
    ASSUME Orderly, BotsInv, OrderlyInv, NEW a \in Actor, AcceptFails(a)
    PROVE  OrderlyInv'
<1>1. PICK k \in Awaits(a) : /\ job' = [job EXCEPT ![a] = k]
                             /\ \/ k = Resting
                                \/ a = "health" /\ k = NextInvite(invites, job[a].at + 1)
  BY AcceptFailsAwaits
<1>2. job[a].at + 1 \in Nat \ {0} /\ invites \in Seq(Subs)
  BY DEF BotsInv, BotsTypeOK, Awaits, Job
<1>3. UNCHANGED <<moderated, pending, managers, invites, table, shared>> /\ job[a].pc = "accepting"
  BY DEF AcceptFails, reddit
<1>4. /\ k.rest = {} /\ ~k.changed /\ k.pc \in {"idle", "listing", "accepting"}
      /\ k.pc = "accepting" => k.invite \in ToSet(invites)
  BY <1>1, <1>2, NextInviteHeld
<1>5. k.pc # "idle" => a = "health"
  BY <1>1, Jobs
<1>6. shared = ToSet(managers) /\ InvitesInv'
  BY <1>3, SharedBefore DEF Making, OrderlyInv, InvitesInv
<1> QED
  BY <1>1, <1>3, <1>4, <1>5, <1>6, GoesOnOrderly

LEMMA DeletesOrderly ==
    ASSUME Orderly, BotsInv, OrderlyInv, NEW a \in Actor, Deletes(a)
    PROVE  OrderlyInv'
<1> DEFINE s == job[a].invite
<1>1. PICK k \in Awaits(a) :
         /\ job' = [job EXCEPT ![a] = k]
         /\ \/ /\ job[a].pc = "early" /\ k.pc = "accepting" /\ k.invite = job[a].invite
               /\ k.rest = job[a].rest /\ k.changed = job[a].changed
            \/ k = Resting
            \/ a = "health" /\ k = NextInvite(invites', job[a].at + 1)
  BY DeletesAwaits
<1>2. /\ job[a].pc \in {"early", "deleting"} /\ table' = table \ {s}
      /\ invites' = WithoutInvite(invites, s)
      /\ UNCHANGED <<moderated, pending, managers, shared>>
  BY DEF Deletes, reddit
<1>3. invites \in Seq(Subs) /\ invites' \in Seq(Subs)
  BY DeletesAwaits DEF BotsInv, BotsTypeOK
<1>4. s \in table /\ (job[a].pc = "early" => s \notin pending) /\ job[a].rest \cap Excluded = {}
  BY <1>2 DEF OrderlyInv, JobInv, InviteHeld, MakesNew
<1>5. InvitesInv'
  BY <1>2, <1>3, <1>4, WithoutInviteKeeps DEF OrderlyInv, InvitesInv
<1>6. shared' = ToSet(managers)
  BY <1>2, SharedBefore DEF Making
<1>7. CASE job[a].pc = "early" /\ k.pc = "accepting" /\ k.invite = s /\ k.rest = job[a].rest
            /\ k.changed = job[a].changed
  <2>1. job'[a] = k
    BY <1>1, <1>2, OtherRests
  <2>2. JobInv(a)'
    <3>1. ~job[a].changed
      BY <1>7 DEF TellsChange, OrderlyInv, JobInv, Onboarding
    <3> QED BY <1>2, <1>4, <1>7, <2>1, <3>1 DEF JobInv, InviteHeld, MakesNew, TellsChange, Making
  <2>3. moderated' \cap pending' = {} /\ ManagersInv' /\ shared' = ToSet(managers')
    BY <1>2, <1>6 DEF OrderlyInv, ManagersInv
  <2> QED BY <1>1, <1>2, <1>5, <2>2, <2>3, OneActs
<1>8. CASE k = Resting \/ (a = "health" /\ k = NextInvite(invites', job[a].at + 1))
  <2>1. job[a].at + 1 \in Nat \ {0}
    BY DEF BotsInv, Awaits, Job
  <2>2. /\ k.rest = {} /\ ~k.changed /\ k.pc \in {"idle", "listing", "accepting"}
        /\ k.pc = "accepting" => k.invite \in ToSet(invites')
    BY <1>3, <1>8, <2>1, NextInviteHeld
  <2>3. k.pc # "idle" => a = "health"
    BY <1>8, Jobs
  <2> QED BY <1>1, <1>2, <1>5, <1>6, <2>2, <2>3, GoesOnOrderly
<1> QED
  BY <1>1, <1>7, <1>8

LEMMA ListedOrderly ==
    ASSUME Orderly, BotsInv, OrderlyInv, NEW a \in Actor, Listed(a)
    PROVE  OrderlyInv'
<1>1. PICK k \in Awaits(a) :
         /\ job' = [job EXCEPT ![a] = k]
         /\ k.invite = job[a].invite /\ k.pc \in Making /\ k.rest \cap Excluded = {}
         /\ k.pc \in {"destroying", "creating"} => k.changed
         /\ k.pc = "creating" => /\ k.making \notin ToSet(managers) \cup Excluded
                                 /\ k.making \notin k.rest
  BY ListedAwaits
<1>2. job[a].pc = "listing" /\ UNCHANGED <<moderated, pending, managers, shared, invites, table>>
  BY DEF Listed, reddit
<1>3. job'[a] = k
  BY <1>1, <1>2, OtherRests
<1>4. JobInv(a)'
  <2>1. a = "user" => job[a].invite \in table
    BY <1>2 DEF OrderlyInv, JobInv, InviteHeld
  <2>2. InviteHeld(a)'
    BY <1>1, <1>2, <1>3, <2>1 DEF InviteHeld, Making
  <2>3. MakesNew(a)' /\ TellsChange(a)'
    BY <1>1, <1>2, <1>3 DEF MakesNew, TellsChange, Making, Onboarding
  <2> QED BY <2>2, <2>3 DEF JobInv
<1>5. moderated' \cap pending' = {} /\ InvitesInv' /\ ManagersInv'
  BY <1>2 DEF OrderlyInv, InvitesInv, ManagersInv
<1>6. shared' = ToSet(managers')
  BY <1>2, SharedBefore DEF Making
<1> QED
  BY <1>1, <1>2, <1>4, <1>5, <1>6, OneActs

LEMMA MakesOrderly ==
    ASSUME Orderly, BotsInv, OrderlyInv, NEW a \in Actor, Makes(a)
    PROVE  OrderlyInv'
<1>1. PICK k \in Awaits(a) :
         /\ job' = [job EXCEPT ![a] = k]
         /\ k.invite = job[a].invite /\ k.pc \in Making /\ k.rest \subseteq job[a].rest
         /\ k.pc \in {"destroying", "creating"} => k.changed
         /\ k.pc = "initing" => k.changed = job[a].changed
         /\ k.pc = "creating" => k.making \in job[a].rest \ ToSet(managers') /\ k.making \notin k.rest
  BY MakesAwaits
<1>2. /\ job[a].pc \in {"destroying", "creating"}
      /\ UNCHANGED <<moderated, pending, shared, invites, table>>
  BY DEF Makes, Destroyed, Created, CreationFails, reddit
<1>3. job'[a] = k
  BY <1>1, <1>2, OtherRests
<1>4. /\ job[a].rest \cap Excluded = {} /\ job[a].changed /\ (a = "user" => job[a].invite \in table)
      /\ job[a].pc = "creating" => job[a].making \notin ToSet(managers) \cup Excluded
  BY <1>2 DEF OrderlyInv, JobInv, InviteHeld, MakesNew, TellsChange, Making
<1>5. JobInv(a)'
  <2>1. InviteHeld(a)'
    BY <1>1, <1>2, <1>3, <1>4 DEF InviteHeld, Making
  <2>2. MakesNew(a)'
    BY <1>1, <1>3, <1>4 DEF MakesNew
  <2>3. TellsChange(a)'
    BY <1>1, <1>3 DEF TellsChange, Making, Onboarding
  <2> QED BY <2>1, <2>2, <2>3 DEF JobInv
<1>6. ManagersInv'
  <2>1. managers \in Seq(Subs) /\ job[a] \in Awaits(a)
    BY DEF BotsInv, BotsTypeOK
  <2>2. Distinct(managers) /\ ToSet(managers) \cap Excluded = {}
    BY DEF OrderlyInv, ManagersInv
  <2>3. CASE Destroyed(a)
    <3>1. job[a].at \in Nat \ {0} /\ managers' = Splice(managers, job[a].at)
      BY <2>1, <2>3 DEF Destroyed, Awaits, Job
    <3> QED BY <2>1, <2>2, <3>1, SpliceKeeps DEF ManagersInv
  <2>4. CASE Created(a)
    <3>1. job[a].making \in Subs /\ managers' = Append(managers, job[a].making)
      BY <2>1, <2>4 DEF Created, Awaits
    <3>2. job[a].making \notin ToSet(managers) \cup Excluded
      BY <1>4, <2>4 DEF Created
    <3> QED BY <2>1, <2>2, <3>1, <3>2, DistinctAppend DEF ManagersInv
  <2>5. CASE CreationFails(a)
    BY <2>2, <2>5 DEF CreationFails, ManagersInv
  <2> QED BY <2>3, <2>4, <2>5 DEF Makes
<1>7. k.changed
  BY <1>1, <1>4 DEF Making
<1>8. moderated' \cap pending' = {} /\ InvitesInv'
  BY <1>2 DEF OrderlyInv, InvitesInv
<1> QED
  BY <1>1, <1>2, <1>5, <1>6, <1>7, <1>8, OneActs

LEMMA EndsOrderly ==
    ASSUME Orderly, BotsInv, OrderlyInv, NEW a \in Actor, Ends(a)
    PROVE  OrderlyInv'
<1>1. PICK k \in Awaits(a) : job' = [job EXCEPT ![a] = k] /\ EndsAs(a, k)
  BY EndsAwaits
<1>2. /\ job[a].pc \in {"listing", "initing", "outfitting"}
      /\ UNCHANGED <<moderated, pending, managers, invites, table>>
  BY DEF Ends, ListingFails, Inited, Outfitted, reddit
<1>3. job'[a] = k
  BY <1>1, <1>2, OtherRests
<1>4. shared' = ToSet(managers)
  <2>1. CASE job[a].pc = "initing"
    <3>1. shared' = SharedAfter(job[a], managers)
      BY <2>1 DEF Ends, ListingFails, Inited, Outfitted
    <3>2. ~job[a].changed => shared = ToSet(managers)
      BY <2>1, SharedBefore
    <3> QED BY <3>1, <3>2 DEF SharedAfter
  <2>2. CASE job[a].pc # "initing"
    <3>1. shared' = shared
      BY <2>2 DEF Ends, ListingFails, Inited, Outfitted
    <3> QED BY <1>2, <2>2, <3>1, SharedBefore DEF Making
  <2> QED BY <2>1, <2>2
<1>5. ~k.changed
  <2>1. job[a].pc = "outfitting" => ~job[a].changed
    BY DEF OrderlyInv, JobInv, TellsChange, Onboarding
  <2> QED BY <1>1, <2>1 DEF EndsAs
<1>6. CASE k.pc \in {"idle", "outfitting", "deleting"}
  <2>1. job[a].rest \cap Excluded = {}
    BY DEF OrderlyInv, JobInv, MakesNew
  <2>2. k.rest \cap Excluded = {}
    BY <1>1, <2>1 DEF EndsAs
  <2>3. k.pc \in {"outfitting", "deleting"} => k.invite = job[a].invite /\ job[a].invite \in table
    BY <1>1, <1>2 DEF EndsAs, OrderlyInv, JobInv, InviteHeld, Making
  <2>4. JobInv(a)'
    BY <1>2, <1>3, <1>5, <1>6, <2>2, <2>3 DEF JobInv, InviteHeld, MakesNew, TellsChange, Making
  <2>5. moderated' \cap pending' = {} /\ InvitesInv' /\ ManagersInv' /\ shared' = ToSet(managers')
    BY <1>2, <1>4 DEF OrderlyInv, InvitesInv, ManagersInv
  <2> QED BY <1>1, <1>2, <2>4, <2>5, OneActs
<1>7. CASE a = "health" /\ k = NextInvite(invites, 1)
  <2>1. invites \in Seq(Subs) /\ 1 \in Nat \ {0} /\ InvitesInv
    BY DEF BotsInv, BotsTypeOK, OrderlyInv
  <2>2. /\ k.rest = {} /\ k.pc \in {"idle", "listing", "accepting"}
        /\ k.pc = "accepting" => k.invite \in ToSet(invites)
    BY <1>7, <2>1, NextInviteHeld
  <2>3. InvitesInv'
    BY <1>2, <2>1 DEF InvitesInv
  <2> QED BY <1>1, <1>2, <1>4, <1>5, <1>7, <2>2, <2>3, GoesOnOrderly
<1> QED
  BY <1>1, <1>6, <1>7 DEF EndsAs

LEMMA HeartbeatOrderly == Orderly /\ BotsInv /\ OrderlyInv /\ Heartbeat => OrderlyInv'
<1> SUFFICES ASSUME Orderly, BotsInv, OrderlyInv, Heartbeat PROVE OrderlyInv'
  OBVIOUS
<1> DEFINE k == NextInvite(invites, 1)
<1>1. invites \in Seq(Subs) /\ 1 \in Nat \ {0} /\ InvitesInv /\ "health" \in Actor
  BY DEF BotsInv, BotsTypeOK, OrderlyInv, Actor
<1>2. /\ job' = [job EXCEPT !["health"] = k] /\ job["health"].pc = "idle" /\ Others("health")
      /\ UNCHANGED <<moderated, pending, managers, invites, table, shared>>
  BY DEF Heartbeat, Free, reddit
<1>3. /\ k.rest = {} /\ ~k.changed /\ k.pc \in {"idle", "listing", "accepting"}
      /\ k.pc = "accepting" => k.invite \in ToSet(invites)
  BY <1>1, NextInviteHeld
<1> HIDE DEF k
<1>4. shared' = ToSet(managers)
  BY <1>1, <1>2, SharedBefore DEF Making
<1>5. InvitesInv'
  BY <1>1, <1>2 DEF InvitesInv
<1> QED
  BY <1>1, <1>2, <1>3, <1>4, <1>5, GoesOnOrderly

\* A bot that is constructed anew takes its invites from the table.
LEMMA LoopEndsOrderly == BotsInv /\ OrderlyInv /\ LoopEnds => OrderlyInv'
<1> SUFFICES ASSUME BotsInv, OrderlyInv, LoopEnds PROVE OrderlyInv'
  OBVIOUS
<1>1. job'["health"] = Listing /\ job'["user"] = Resting
  BY DEF LoopEnds, Actor
<1>2. UNCHANGED <<moderated, pending, table>> /\ managers' = <<>> /\ shared' = {} /\ invites' = SetToSeq(table)
  BY DEF LoopEnds, reddit
<1>3. ToSet(<<>>) = {} /\ Distinct(<<>>)
  BY DEF ToSet, Distinct
<1>4. InvitesInv'
  BY <1>2, SetToSeqDistinct DEF InvitesInv, BotsInv
<1>5. Alone' /\ (\A a \in Actor : JobInv(a))'
  BY <1>1, Jobs DEF Alone, JobInv, InviteHeld, MakesNew, TellsChange, Actor, Making, Onboarding
<1> QED
  BY <1>2, <1>3, <1>4, <1>5 DEF OrderlyInv, ManagersInv, SharedInv

LEMMA BotsOrderly == Orderly /\ BotsInv /\ OrderlyInv /\ [BotNext]_botVars => OrderlyInv'
<1> SUFFICES ASSUME Orderly, BotsInv, OrderlyInv, [BotNext]_botVars PROVE OrderlyInv'
  OBVIOUS
<1>1. CASE UNCHANGED botVars
  BY <1>1 DEF botVars, OrderlyInv, Alone, JobInv, InviteHeld, MakesNew, TellsChange, InvitesInv,
     ManagersInv, SharedInv
<1>2. Outfitted => Ends("user") /\ "user" \in Actor
  BY DEF Ends, Actor
<1> QED
  BY <1>1, <1>2, ModeratorsOrderly, OnboardersOrderly, AcceptedOrderly, AcceptFailsOrderly, DeletesOrderly,
     ListedOrderly, MakesOrderly, EndsOrderly, HeartbeatOrderly, LoopEndsOrderly
     DEF BotNext, Settles, Fails, Makes, Ends

\* If operations do not overlap, memory and table have the same invites, no
\* subreddit has two managers, excluded ones have none, and between builds the
\* shared stream polls for the managers there are.
THEOREM ManagersAlways == Orderly /\ Services => []ManagersKept
<1> SUFFICES ASSUME Orderly PROVE Services => []ManagersKept
  OBVIOUS
<1>1. AllInit => BotsInv /\ OrderlyInv
  BY BotsBegin DEF AllInit
<1>2. [AllNext]_allVars => [BotNext]_botVars
  BY DEF AllNext, allVars, botVars
<1>3. BotsInv /\ OrderlyInv /\ [AllNext]_allVars => BotsInv' /\ OrderlyInv'
  BY <1>2, BotsTyped, BotsOrderly
<1> QED
  BY <1>1, <1>3, OrderlyKept, PTL DEF Services

(***************************************************************************)
(* The running states of a manager.                                        *)
(***************************************************************************)

LEMMA NowIs ==
    ASSUME NEW state \in {"RUNNING", "PAUSED", "STOPPED"}, NEW who \in {"system", "user"}
    PROVE  Now(state, who) \in RunState /\ Now(state, who).state = state /\ Now(state, who).causedBy = who
  BY DEF Now, RunState


\* The methods' effects on the states.
StatesTyped == {managerState, eventsState, queueState} \subseteq RunState

OpTyped == op \in [Process -> Op]

LEMMA StartEventsIs ==
    ASSUME StatesTyped, NEW who \in {"system", "user"}, StartEvents(who)
    PROVE  eventsState' \in RunState
  BY NowIs DEF StatesTyped, StartEvents

LEMMA PauseEventsIs ==
    ASSUME StatesTyped, NEW who \in {"system", "user"}, PauseEvents(who)
    PROVE  eventsState' \in RunState /\ (eventsState.state # "RUNNING" => eventsState' = eventsState)
  BY NowIs DEF StatesTyped, PauseEvents

LEMMA StopEventsIs ==
    ASSUME NEW who \in {"system", "user"}, StopEvents(who)
    PROVE  eventsState' \in RunState
  BY NowIs DEF StopEvents

LEMMA StartQueueIs ==
    ASSUME StatesTyped, paused \in BOOLEAN, NEW who \in {"system", "user"}, StartQueue(who)
    PROVE  queueState' \in RunState /\ paused' \in BOOLEAN
  BY NowIs DEF StatesTyped, StartQueue

LEMMA PauseQueueIs ==
    ASSUME StatesTyped, paused \in BOOLEAN, NEW who \in {"system", "user"}, NEW done, PauseQueue(who, done)
    PROVE  queueState' \in RunState /\ paused' \in BOOLEAN
  BY NowIs DEF StatesTyped, PauseQueue

LEMMA StopQueueIs ==
    ASSUME StatesTyped, paused \in BOOLEAN, NEW who \in {"system", "user"}, NEW done \in BOOLEAN,
           StopQueue(who, done)
    PROVE  /\ queueState' \in RunState /\ paused' \in BOOLEAN
           /\ done => queueState'.state = "STOPPED"
  BY NowIs DEF StatesTyped, StopQueue

LEMMA ByIs == \A p : By(p) \in {"system", "user"} /\ (By(p) = "user" <=> p = "user")
  BY DEF By

LEMMA Idles ==
    /\ Idle \in Op /\ Idle.pc = "idle"
    /\ [Idle EXCEPT !.pc = "boot"] \in Op /\ [Idle EXCEPT !.pc = "boot"].pc = "boot"
    /\ [Idle EXCEPT !.pc = "fetch"] \in Op /\ [Idle EXCEPT !.pc = "fetch"].pc = "fetch"
    /\ [Idle EXCEPT !.pc = "pausing"] \in Op /\ [Idle EXCEPT !.pc = "pausing"].pc = "pausing"
    /\ [Idle EXCEPT !.pc = "stopping"] \in Op /\ [Idle EXCEPT !.pc = "stopping"].pc = "stopping"
    /\ ~[Idle EXCEPT !.pc = "stopping"].whole
  BY DEF Idle, Op

\* The process goes on to await k.
LEMMA OpGoesOn ==
    ASSUME OpTyped, NEW p \in Process, NEW k \in Op, op' = [op EXCEPT ![p] = k]
    PROVE  OpTyped' /\ op'[p] = k /\ \A q \in Process \ {p} : op'[q] = op[q]
  BY DEF OpTyped

LEMMA StopManagerIs ==
    ASSUME StatesTyped, OpTyped, {paused, busy} \subseteq BOOLEAN, NEW p \in Process, NEW restart \in BOOLEAN,
           StopManager(p, restart)
    PROVE  /\ StatesTyped' /\ OpTyped' /\ paused' \in BOOLEAN
           /\ UNCHANGED <<busy, validConfigLoaded, apiLimit, nannyMode>>
           /\ eventsState' = Now("STOPPED", By(p))
           /\ ~MustWait => /\ managerState' = Now("STOPPED", By(p)) /\ queueState'.state = "STOPPED"
                           /\ ~restart => op'[p].pc = "idle"
           /\ \A q \in Process \ {p} : op'[q] = op[q]
           /\ op'[p].pc = "stopping" => op'[p].restart = restart
<1>1. By(p) \in {"system", "user"} /\ MustWait \in BOOLEAN
  BY ByIs DEF MustWait
<1>2. eventsState' = Now("STOPPED", By(p)) /\ eventsState' \in RunState
  BY <1>1, NowIs DEF StopManager, StopEvents
<1>3. /\ queueState' \in RunState /\ paused' \in BOOLEAN
      /\ ~MustWait => queueState'.state = "STOPPED"
  BY <1>1, StopQueueIs DEF StopManager
<1>4. managerState' \in RunState /\ (~MustWait => managerState' = Now("STOPPED", By(p)))
  BY <1>1, NowIs DEF StopManager, StatesTyped
<1>5. \E k \in Op : /\ op' = [op EXCEPT ![p] = k]
                    /\ ~MustWait /\ ~restart => k.pc = "idle"
                    /\ k.pc = "stopping" => k.restart = restart
  <2>1. CASE MustWait
    <3> DEFINE k == [Idle EXCEPT !.pc = "stopping", !.whole = TRUE, !.restart = restart]
    <3>1. k \in Op /\ k.restart = restart
      BY DEF Idle, Op
    <3>2. op' = [op EXCEPT ![p] = k]
      BY <2>1 DEF StopManager
    <3> QED BY <2>1, <3>1, <3>2
  <2>2. CASE ~MustWait
    <3>1. op' = [op EXCEPT ![p] = IF restart THEN [Idle EXCEPT !.pc = "boot"] ELSE Idle]
      BY <2>2 DEF StopManager
    <3> QED BY <3>1, Idles
  <2> QED BY <2>1, <2>2
<1>6. /\ OpTyped' /\ \A q \in Process \ {p} : op'[q] = op[q]
      /\ ~MustWait /\ ~restart => op'[p].pc = "idle"
      /\ op'[p].pc = "stopping" => op'[p].restart = restart
  BY <1>5, OpGoesOn
<1>7. UNCHANGED <<busy, validConfigLoaded, apiLimit, nannyMode>>
  BY DEF StopManager
<1> QED
  BY <1>2, <1>3, <1>4, <1>6, <1>7 DEF StatesTyped

LEMMA ConstructedIs ==
    ASSUME StatesTyped, Constructed
    PROVE  /\ StatesTyped' /\ OpTyped' /\ {paused', busy', validConfigLoaded'} \subseteq BOOLEAN
           /\ nannyMode' = "none"
           /\ op'["health"].pc = "boot" /\ \A p \in Process \ {"health"} : op'[p].pc = "idle"
           /\ managerState = Now("STOPPED", "user") => managerState' = managerState
           /\ eventsState = Now("STOPPED", "user") => eventsState' = eventsState
           /\ queueState'.state = "STOPPED"
<1>1. /\ \A s \in RunState : Initially(s) \in RunState /\ Initially(s).state = "STOPPED"
      /\ Initially(Now("STOPPED", "user")) = Now("STOPPED", "user")
  BY NowIs DEF Initially
<1>2. /\ managerState' = Initially(managerState) /\ eventsState' = Initially(eventsState)
      /\ queueState' = Initially(queueState)
  BY DEF Constructed
<1>3. StatesTyped' /\ queueState'.state = "STOPPED"
  BY <1>1, <1>2 DEF StatesTyped
<1>4. OpTyped' /\ op'["health"].pc = "boot" /\ \A p \in Process \ {"health"} : op'[p].pc = "idle"
  BY Idles DEF Constructed, OpTyped, Process
<1>5. {paused', busy', validConfigLoaded'} \subseteq BOOLEAN /\ nannyMode' = "none"
  BY DEF Constructed
<1> QED
  BY <1>1, <1>2, <1>3, <1>4, <1>5

Flags == {paused, busy, validConfigLoaded, userStopped} \subseteq BOOLEAN

Limits == apiLimit \in {"none", "soft", "hard"} /\ nannyMode \in {"none", "soft", "hard"}

LEMMA TypeParts == TypeOK <=> StatesTyped /\ OpTyped /\ Flags /\ Limits
  BY DEF TypeOK, StatesTyped, OpTyped, Flags, Limits

LEMMA TypePartsNext == TypeOK' <=> StatesTyped' /\ OpTyped' /\ Flags' /\ Limits'
  BY DEF TypeOK, StatesTyped, OpTyped, Flags, Limits

LEMMA StatesBegin == Init => TypeOK
<1> SUFFICES ASSUME Init PROVE TypeOK
  OBVIOUS
<1>1. StatesTyped
  BY NowIs DEF Init, StatesTyped
<1>2. OpTyped
  BY Idles DEF Init, OpTyped
<1>3. Flags /\ Limits
  BY DEF Init, Flags, Limits
<1> QED
  BY <1>1, <1>2, <1>3, TypeParts

LEMMA EnvironmentTyped == TypeOK /\ Environment => TypeOK'
<1> SUFFICES ASSUME TypeOK, Environment PROVE TypeOK'
  OBVIOUS
<1>1. StatesTyped /\ OpTyped /\ Flags /\ Limits
  BY TypeParts
<1>2. CASE WorkBegins \/ WorkEnds \/ ApiUsage
  <2>1. StatesTyped' /\ OpTyped'
    BY <1>1, <1>2 DEF WorkBegins, WorkEnds, ApiUsage, states, StatesTyped, OpTyped
  <2>2. Flags'
    BY <1>1, <1>2 DEF WorkBegins, WorkEnds, ApiUsage, Flags
  <2>3. Limits'
    BY <1>1, <1>2 DEF WorkBegins, WorkEnds, ApiUsage, Limits
  <2> QED BY <2>1, <2>2, <2>3, TypePartsNext
<1>3. CASE Failure \/ Rebuild
  <2>1. PICK restart \in BOOLEAN : StopManager("failure", restart)
    BY <1>3 DEF Failure, Rebuild
  <2>2. {paused, busy} \subseteq BOOLEAN /\ "failure" \in Process
    BY <1>1 DEF Flags, Process
  <2>3. /\ StatesTyped' /\ OpTyped' /\ paused' \in BOOLEAN
        /\ UNCHANGED <<busy, validConfigLoaded, apiLimit, nannyMode>>
    BY <1>1, <2>1, <2>2, StopManagerIs
  <2>4. userStopped' \in {userStopped, FALSE}
    BY <1>3 DEF Failure, Rebuild
  <2>5. Flags'
    BY <1>1, <2>3, <2>4 DEF Flags
  <2>6. Limits'
    BY <1>1, <2>3 DEF Limits
  <2> QED BY <2>3, <2>5, <2>6, TypePartsNext
<1>4. CASE Restart
  <2>1. /\ StatesTyped' /\ OpTyped' /\ {paused', busy', validConfigLoaded'} \subseteq BOOLEAN
        /\ nannyMode' = "none" /\ UNCHANGED <<apiLimit, userStopped>>
    BY <1>1, <1>4, ConstructedIs DEF Restart
  <2> QED BY <1>1, <2>1, TypePartsNext DEF Flags, Limits
<1> QED
  BY <1>2, <1>3, <1>4 DEF Environment

LEMMA UserTyped == TypeOK /\ User => TypeOK'
<1> SUFFICES ASSUME TypeOK, User PROVE TypeOK'
  OBVIOUS
<1>1. StatesTyped /\ OpTyped /\ Flags /\ Limits /\ paused \in BOOLEAN /\ busy \in BOOLEAN
  BY TypeParts DEF Flags
<1>2. Limits'
  BY <1>1 DEF User, UserStart, UserStop, StopManager, UserStartQueue, UserPauseQueue, UserStopQueue,
     UserEvents, UserReload, Limits
<1>3. busy' = busy /\ validConfigLoaded' = validConfigLoaded
  BY DEF User, UserStart, UserStop, StopManager, UserStartQueue, UserPauseQueue, UserStopQueue,
     UserEvents, UserReload
<1>4. MustWait \in BOOLEAN /\ userStopped' \in BOOLEAN
  BY DEF User, UserStart, UserStop, UserStartQueue, UserPauseQueue, UserStopQueue,
     UserEvents, UserReload, MustWait
<1>5. StatesTyped' /\ OpTyped' /\ paused' \in BOOLEAN
  <2>1. CASE UserStart
    <3>1. eventsState' \in RunState /\ queueState' \in RunState /\ paused' \in BOOLEAN
      BY <1>1, <2>1, StartEventsIs, StartQueueIs DEF UserStart
    <3>2. managerState' \in RunState
      BY <1>1, <2>1, NowIs DEF UserStart, StatesTyped
    <3> QED BY <1>1, <2>1, <3>1, <3>2 DEF UserStart, StatesTyped, OpTyped
  <2>2. CASE UserStop
    BY <1>1, <2>2, StopManagerIs DEF UserStop, Process
  <2>3. CASE UserStartQueue
    BY <1>1, <2>3, StartQueueIs DEF UserStartQueue, StatesTyped, OpTyped
  <2>4. CASE UserPauseQueue
    <3>1. queueState' \in RunState /\ paused' \in BOOLEAN
      BY <1>1, <2>4, PauseQueueIs DEF UserPauseQueue
    <3>2. OpTyped'
      BY <1>1, <2>4, Idles, OpGoesOn DEF UserPauseQueue, Process, OpTyped
    <3> QED BY <1>1, <2>4, <3>1, <3>2 DEF UserPauseQueue, StatesTyped
  <2>5. CASE UserStopQueue
    <3>1. queueState' \in RunState /\ paused' \in BOOLEAN
      BY <1>1, <1>4, <2>5, StopQueueIs DEF UserStopQueue
    <3>2. OpTyped'
      BY <1>1, <2>5, Idles, OpGoesOn DEF UserStopQueue, Process, OpTyped
    <3> QED BY <1>1, <2>5, <3>1, <3>2 DEF UserStopQueue, StatesTyped
  <2>6. CASE UserEvents
    <3>1. eventsState' \in RunState
      BY <1>1, <2>6, StartEventsIs, PauseEventsIs, StopEventsIs DEF UserEvents
    <3> QED BY <1>1, <2>6, <3>1 DEF UserEvents, StatesTyped, OpTyped
  <2>7. CASE UserReload
    <3> DEFINE again == (queueState.state = "RUNNING")
               k == [Idle EXCEPT !.pc = "fetch", !.reload = TRUE, !.restart = again]
    <3>1. k \in Op
      BY DEF Idle, Op
    <3>2. op' = [op EXCEPT !["user"] = k] /\ "user" \in Process
      BY <2>7 DEF UserReload, Process
    <3> HIDE DEF k
    <3> QED BY <1>1, <2>7, <3>1, <3>2, OpGoesOn DEF UserReload, states, StatesTyped
  <2> QED BY <2>1, <2>2, <2>3, <2>4, <2>5, <2>6, <2>7 DEF User
<1>6. Flags'
  BY <1>1, <1>3, <1>4, <1>5 DEF Flags
<1> QED
  BY <1>2, <1>5, <1>6, TypePartsNext

LEMMA HeartbeatRestartsIs ==
    ASSUME StatesTyped, paused \in BOOLEAN, NEW newConfig, HeartbeatRestarts(newConfig)
    PROVE  StatesTyped' /\ paused' \in BOOLEAN
<1>1. queueState' \in RunState /\ paused' \in BOOLEAN
  BY StartQueueIs DEF HeartbeatRestarts, StatesTyped
<1>2. eventsState' \in RunState
  BY StartEventsIs DEF HeartbeatRestarts, StatesTyped
<1>3. managerState' \in RunState
  BY NowIs DEF HeartbeatRestarts, StatesTyped
<1> QED
  BY <1>1, <1>2, <1>3 DEF StatesTyped

LEMMA StepTyped == ASSUME TypeOK, NEW p \in Process, Step(p) PROVE TypeOK'
<1>1. /\ StatesTyped /\ OpTyped /\ Flags /\ Limits /\ paused \in BOOLEAN /\ busy \in BOOLEAN
      /\ By(p) \in {"system", "user"} /\ op[p] \in Op
  BY TypeParts, ByIs DEF Flags, OpTyped
<1>2. Limits'
  BY <1>1 DEF Step, StopEnds, UpToDate, PausesForUpdate, PauseEnds, Parsed, ParseFails, Limits
<1>3. busy' = busy /\ validConfigLoaded' \in {validConfigLoaded, TRUE, FALSE}
  BY DEF Step, StopEnds, UpToDate, PausesForUpdate, PauseEnds, Parsed, ParseFails
<1>4. userStopped' \in BOOLEAN
  BY <1>1 DEF Step, StopEnds, UpToDate, PausesForUpdate, PauseEnds, Parsed, ParseFails, Flags
<1>5. OpTyped'
  <2>1. ASSUME NEW pc \in {"parse", "pausing"} PROVE [op[p] EXCEPT !.pc = pc] \in Op
    BY <1>1 DEF Op
  <2>2. \E k \in Op : op' = [op EXCEPT ![p] = k]
    <3>1. CASE StopEnds(p) \/ UpToDate(p) \/ Parsed(p) \/ ParseFails(p)
      BY <3>1, Idles DEF StopEnds, UpToDate, Parsed, ParseFails
    <3>2. CASE PauseEnds(p)
      BY <1>1, <2>1, <3>2, Idles DEF PauseEnds, OpTyped
    <3>3. CASE PausesForUpdate(p)
      <4>1. PICK pc \in {"parse", "pausing"} : op' = [op EXCEPT ![p].pc = pc]
        BY <3>3 DEF PausesForUpdate
      <4>2. op' = [op EXCEPT ![p] = [op[p] EXCEPT !.pc = pc]]
        BY <1>1, <4>1 DEF OpTyped
      <4> QED BY <2>1, <4>2
    <3> QED BY <3>1, <3>2, <3>3 DEF Step
  <2> QED BY <1>1, <2>2, OpGoesOn
<1>6. StatesTyped' /\ paused' \in BOOLEAN
  <2>1. CASE StopEnds(p)
    BY <1>1, <2>1, NowIs DEF StopEnds, StatesTyped
  <2>2. CASE UpToDate(p)
    <3>1. CASE p = "health"
      BY <1>1, <2>2, <3>1, HeartbeatRestartsIs DEF UpToDate
    <3>2. CASE p # "health"
      BY <1>1, <2>2, <3>2 DEF UpToDate, states, StatesTyped
    <3> QED BY <3>1, <3>2
  <2>3. CASE PausesForUpdate(p)
    <3>1. queueState' \in RunState /\ paused' \in BOOLEAN
      BY <1>1, <2>3, PauseQueueIs DEF PausesForUpdate, StatesTyped
    <3> QED BY <1>1, <2>3, <3>1 DEF PausesForUpdate, StatesTyped
  <2>4. CASE PauseEnds(p)
    BY <1>1, <2>4, NowIs DEF PauseEnds, StatesTyped
  <2>5. CASE Parsed(p)
    <3>1. CASE p = "health"
      BY <1>1, <2>5, <3>1, HeartbeatRestartsIs DEF Parsed
    <3>2. CASE p # "health"
      BY <1>1, <2>5, <3>2, StartQueueIs DEF Parsed, StatesTyped
    <3> QED BY <3>1, <3>2
  <2>6. CASE ParseFails(p)
    <3>1. eventsState' \in RunState
      BY <1>1, <2>6, StopEventsIs DEF ParseFails, StatesTyped
    <3> QED BY <1>1, <2>6, <3>1 DEF ParseFails, StatesTyped
  <2> QED BY <2>1, <2>2, <2>3, <2>4, <2>5, <2>6 DEF Step
<1>7. Flags'
  BY <1>1, <1>3, <1>4, <1>6 DEF Flags
<1> QED
  BY <1>2, <1>5, <1>6, <1>7, TypePartsNext

LEMMA ApplicationTyped == TypeOK /\ (HeartbeatBegins \/ Nanny \/ Boot \/ Rebuilt) => TypeOK'
<1> SUFFICES ASSUME TypeOK, HeartbeatBegins \/ Nanny \/ Boot \/ Rebuilt PROVE TypeOK'
  OBVIOUS
<1>1. StatesTyped /\ OpTyped /\ Flags /\ Limits /\ paused \in BOOLEAN /\ "health" \in Process
  BY TypeParts DEF Flags, Process
<1>2. CASE HeartbeatBegins
  <2>1. OpTyped'
    BY <1>1, <1>2, Idles, OpGoesOn DEF HeartbeatBegins
  <2> QED BY <1>1, <1>2, <2>1, TypePartsNext DEF HeartbeatBegins, states, StatesTyped, Flags, Limits
<1>3. CASE Nanny
  <2>1. eventsState' \in RunState
    BY <1>1, <1>3, PauseEventsIs, StartEventsIs DEF Nanny, Limits, StatesTyped
  <2>2. queueState' \in RunState /\ paused' \in BOOLEAN
    BY <1>1, <1>3, StartQueueIs DEF Nanny, Limits, StatesTyped
  <2>3. UNCHANGED <<managerState, busy, validConfigLoaded, apiLimit, op, userStopped>> /\ nannyMode' = apiLimit
    BY <1>3 DEF Nanny
  <2>4. StatesTyped' /\ OpTyped'
    BY <1>1, <2>1, <2>2, <2>3 DEF StatesTyped, OpTyped
  <2>5. Flags'
    BY <1>1, <2>2, <2>3 DEF Flags
  <2>6. Limits'
    BY <1>1, <2>3 DEF Limits
  <2> QED BY <2>4, <2>5, <2>6, TypePartsNext
<1>4. CASE Boot
  <2>1. eventsState' \in RunState /\ queueState' \in RunState /\ paused' \in BOOLEAN
    BY <1>1, <1>4, StartEventsIs, StartQueueIs DEF Boot, states, StatesTyped
  <2>2. managerState' \in RunState
    BY <1>1, <1>4, NowIs DEF Boot, states, StatesTyped
  <2>3. OpTyped'
    BY <1>1, <1>4, Idles, OpGoesOn DEF Boot
  <2>4. UNCHANGED <<busy, validConfigLoaded, apiLimit, nannyMode, userStopped>>
    BY <1>4 DEF Boot
  <2>5. Flags' /\ Limits'
    BY <1>1, <2>1, <2>4 DEF Flags, Limits
  <2> QED BY <2>1, <2>2, <2>3, <2>5, TypePartsNext DEF StatesTyped
<1>5. CASE Rebuilt
  <2>1. /\ StatesTyped' /\ OpTyped' /\ {paused', busy', validConfigLoaded'} \subseteq BOOLEAN
        /\ nannyMode' = "none" /\ UNCHANGED <<apiLimit, userStopped>>
    BY <1>1, <1>5, ConstructedIs DEF Rebuilt
  <2> QED BY <1>1, <2>1, TypePartsNext DEF Flags, Limits
<1> QED
  BY <1>2, <1>3, <1>4, <1>5

LEMMA StatesStep == TypeOK /\ [Next]_vars => TypeOK'
<1>1. TypeOK /\ UNCHANGED vars => TypeOK'
  BY DEF TypeOK, vars
<1> QED
  BY <1>1, EnvironmentTyped, UserTyped, StepTyped, ApplicationTyped DEF Next

(***************************************************************************)
(* A manager that a user stopped.                                          *)
(***************************************************************************)

\* One operation at a time.
OneOp == \A p, q \in Process : op[p].pc # "idle" /\ op[q].pc # "idle" => p = q

\* A user who waits for the end of a stop has stopped the events already, and it
\* is no rebuild.
Stopping ==
    op["user"].pc = "stopping"
       => ~op["user"].restart /\ (op["user"].whole => eventsState = Now("STOPPED", "user"))

\* A manager that a user stopped shows so, and nothing is in progress but its
\* start with the application.
Stopped ==
    userStopped =>
       /\ managerState = Now("STOPPED", "user") /\ eventsState = Now("STOPPED", "user")
       /\ queueState.state = "STOPPED"
       /\ op["health"].pc \in {"idle", "boot"}
       /\ op["user"].pc = "idle" /\ op["failure"].pc = "idle"

StopInv == TypeOK /\ OneOp /\ Stopping /\ Stopped

LEMMA StopBegins == Init => StopInv
<1> SUFFICES ASSUME Init PROVE StopInv
  OBVIOUS
<1>1. op["health"].pc = "boot" /\ op["user"].pc = "idle" /\ op["failure"].pc = "idle" /\ ~userStopped
  BY Idles DEF Init, Process
<1> QED
  BY <1>1, StatesBegin DEF StopInv, OneOp, Stopping, Stopped, Process

LEMMA NobodyElse ==
    ASSUME OneOp, NEW p \in Process, op[p].pc # "idle" \/ AllIdle,
           \A q \in Process \ {p} : op'[q] = op[q]
    PROVE  OneOp' /\ \A q \in Process \ {p} : op[q].pc = "idle" /\ op'[q].pc = "idle"
<1>1. \A q \in Process \ {p} : op[q].pc = "idle"
  BY DEF OneOp, AllIdle
<1> QED
  BY <1>1 DEF OneOp

LEMMA EnvironmentStops == ~Overlap /\ ~Panics /\ StopInv /\ Environment => StopInv'
<1> SUFFICES ASSUME ~Overlap, ~Panics, StopInv, Environment PROVE StopInv'
  OBVIOUS
<1>1. TypeOK' /\ StatesTyped /\ OpTyped /\ {paused, busy} \subseteq BOOLEAN
  BY EnvironmentTyped, TypeParts DEF StopInv, Flags
<1>2. CASE WorkBegins \/ WorkEnds \/ ApiUsage
  BY <1>1, <1>2 DEF WorkBegins, WorkEnds, ApiUsage, states, StopInv, OneOp, Stopping, Stopped
<1>3. CASE Failure \/ Rebuild
  <2>1. PICK restart \in BOOLEAN : StopManager("failure", restart)
    BY <1>3 DEF Failure, Rebuild
  <2>2. AllIdle /\ ~userStopped'
    <3>1. CASE Failure
      <4>1. eventsState.state = "RUNNING" /\ AllIdle /\ userStopped' = userStopped
        BY <3>1 DEF Failure, MayBegin
      <4>2. eventsState # Now("STOPPED", "user")
        BY <4>1, NowIs
      <4> QED BY <4>1, <4>2 DEF StopInv, Stopped
    <3>2. CASE Rebuild
      BY <3>2 DEF Rebuild
    <3> QED BY <1>3, <3>1, <3>2
  <2>3. \A q \in Process \ {"failure"} : op'[q] = op[q]
    BY <1>1, <2>1, StopManagerIs DEF Process
  <2>4. OneOp' /\ op'["user"].pc = "idle"
    BY <2>2, <2>3, NobodyElse DEF StopInv, Process
  <2> QED BY <1>1, <2>2, <2>4 DEF StopInv, Stopping, Stopped
<1>4. CASE Restart
  <2>1. /\ op'["health"].pc = "boot" /\ \A p \in Process \ {"health"} : op'[p].pc = "idle"
        /\ managerState = Now("STOPPED", "user") => managerState' = managerState
        /\ eventsState = Now("STOPPED", "user") => eventsState' = eventsState
        /\ queueState'.state = "STOPPED" /\ userStopped' = userStopped
    BY <1>1, <1>4, ConstructedIs DEF Restart
  <2>2. OneOp' /\ Stopping' /\ Stopped'
    BY <2>1 DEF StopInv, OneOp, Stopping, Stopped, Process
  <2> QED BY <1>1, <2>2 DEF StopInv
<1> QED
  BY <1>2, <1>3, <1>4 DEF Environment

LEMMA UserStops == ~Overlap /\ StopInv /\ User => StopInv'
<1> SUFFICES ASSUME ~Overlap, StopInv, User PROVE StopInv'
  OBVIOUS
<1>1. TypeOK' /\ StatesTyped /\ OpTyped /\ {paused, busy} \subseteq BOOLEAN /\ "user" \in Process
  BY UserTyped, TypeParts DEF StopInv, Flags, Process
<1>2. AllIdle
  BY DEF User, UserStart, UserStop, UserStartQueue, UserPauseQueue, UserStopQueue, UserEvents, UserReload, MayBegin
<1>3. CASE UserStop
  <2>1. StopManager("user", FALSE) /\ userStopped' = ~MustWait /\ By("user") = "user"
    BY <1>3 DEF UserStop, By
  <2>2. /\ eventsState' = Now("STOPPED", "user")
        /\ ~MustWait => /\ managerState' = Now("STOPPED", "user") /\ queueState'.state = "STOPPED"
                        /\ op'["user"].pc = "idle"
        /\ \A q \in Process \ {"user"} : op'[q] = op[q]
        /\ op'["user"].pc = "stopping" => op'["user"].restart = FALSE
    BY <1>1, <2>1, StopManagerIs
  <2>3. OneOp' /\ \A q \in Process \ {"user"} : op'[q].pc = "idle"
    BY <1>1, <1>2, <2>2, NobodyElse DEF StopInv
  <2>4. Stopping'
    BY <2>2 DEF Stopping
  <2>5. Stopped'
    BY <2>1, <2>2, <2>3 DEF Stopped, Process
  <2> QED BY <1>1, <2>3, <2>4, <2>5 DEF StopInv
<1>4. CASE ~UserStop
  <2>1. ~userStopped'
    BY <1>4 DEF User, UserStart, UserStartQueue, UserPauseQueue, UserStopQueue, UserEvents, UserReload
  <2>2. \/ op' = op
        \/ \E k \in Op : op' = [op EXCEPT !["user"] = k] /\ (k.pc = "stopping" => ~k.restart /\ ~k.whole)
    <3>1. CASE UserStart \/ UserStartQueue \/ UserEvents
      BY <3>1 DEF UserStart, UserStartQueue, UserEvents
    <3>2. CASE UserPauseQueue
      BY <3>2, Idles DEF UserPauseQueue
    <3>3. CASE UserStopQueue
      <4>1. ~[Idle EXCEPT !.pc = "stopping"].restart
        BY DEF Idle
      <4> QED BY <3>3, <4>1, Idles DEF UserStopQueue
    <3>4. CASE UserReload
      <4> DEFINE again == (queueState.state = "RUNNING")
                 k == [Idle EXCEPT !.pc = "fetch", !.reload = TRUE, !.restart = again]
      <4>1. k \in Op /\ k.pc = "fetch"
        BY DEF Idle, Op
      <4>2. op' = [op EXCEPT !["user"] = k]
        BY <3>4 DEF UserReload
      <4> HIDE DEF k
      <4> QED BY <4>1, <4>2
    <3> QED BY <1>4, <3>1, <3>2, <3>3, <3>4 DEF User
  <2>3. /\ \A q \in Process \ {"user"} : op'[q] = op[q]
        /\ op'["user"].pc = "stopping" => ~op'["user"].restart /\ ~op'["user"].whole
    BY <1>1, <1>2, <2>2, OpGoesOn DEF AllIdle
  <2>4. OneOp'
    BY <1>1, <1>2, <2>3, NobodyElse DEF StopInv
  <2> QED BY <1>1, <2>1, <2>3, <2>4 DEF StopInv, Stopping, Stopped
<1> QED
  BY <1>3, <1>4

LEMMA StepStops == ASSUME StopInv, NEW p \in Process, Step(p) PROVE StopInv'
<1>1. TypeOK' /\ StatesTyped /\ OpTyped
  BY StepTyped, TypeParts DEF StopInv
<1>2. /\ op[p].pc \notin {"idle", "boot"}
      /\ \A q \in Process \ {p} : op'[q] = op[q]
  BY <1>1 DEF Step, StopEnds, UpToDate, PausesForUpdate, PauseEnds, Parsed, ParseFails, OpTyped
<1>3. OneOp' /\ \A q \in Process \ {p} : op'[q].pc = "idle"
  BY <1>2, NobodyElse DEF StopInv
<1>4. ~userStopped
  BY <1>2 DEF StopInv, Stopped, Process
<1>5. op'[p].pc # "stopping"
  <2>1. CASE StopEnds(p) \/ UpToDate(p) \/ Parsed(p) \/ ParseFails(p)
    BY <1>1, <2>1, Idles DEF StopEnds, UpToDate, Parsed, ParseFails, OpTyped
  <2>2. CASE PausesForUpdate(p) \/ PauseEnds(p)
    <3>1. op[p] \in Op
      BY <1>1 DEF OpTyped
    <3>2. PICK pc \in {"pausing", "parse", "idle"} :
              op' = [op EXCEPT ![p].pc = pc] \/ (pc = "idle" /\ op' = [op EXCEPT ![p] = Idle])
                 \/ (pc = "parse" /\ op' = [op EXCEPT ![p] = [@ EXCEPT !.pc = "parse"]])
      BY <2>2 DEF PausesForUpdate, PauseEnds
    <3> QED BY <1>1, <3>1, <3>2, Idles DEF OpTyped, Op
  <2> QED BY <2>1, <2>2 DEF Step
<1>6. Stopping'
  BY <1>3, <1>5 DEF Stopping, Process
<1>7. Stopped'
  <2> SUFFICES ASSUME userStopped' PROVE Stopped'
    BY DEF Stopped
  <2>1. StopEnds(p) /\ p = "user" /\ op["user"].whole
    BY <1>4 DEF Step, StopEnds, UpToDate, PausesForUpdate, PauseEnds, Parsed, ParseFails
  <2>2. ~op["user"].restart /\ eventsState = Now("STOPPED", "user")
    BY <2>1 DEF StopInv, Stopping, StopEnds
  <2>3. /\ queueState' = Now("STOPPED", "user") /\ managerState' = Now("STOPPED", "user")
        /\ op' = [op EXCEPT !["user"] = Idle] /\ eventsState' = eventsState
    BY <2>1, <2>2 DEF StopEnds, By
  <2>4. op'["user"].pc = "idle"
    BY <1>1, <2>3, Idles DEF OpTyped, Process
  <2> QED BY <1>3, <2>1, <2>2, <2>3, <2>4, NowIs DEF Stopped, Process
<1> QED
  BY <1>1, <1>3, <1>6, <1>7 DEF StopInv

LEMMA ApplicationStops ==
    ~Overlap /\ StopInv /\ (HeartbeatBegins \/ Nanny \/ Boot \/ Rebuilt) => StopInv'
<1> SUFFICES ASSUME ~Overlap, StopInv, HeartbeatBegins \/ Nanny \/ Boot \/ Rebuilt PROVE StopInv'
  OBVIOUS
<1>1. TypeOK' /\ StatesTyped /\ OpTyped /\ Limits
  BY ApplicationTyped, TypeParts DEF StopInv
<1>2. CASE HeartbeatBegins
  <2>1. AllIdle /\ ~HeartbeatSkips /\ UNCHANGED <<eventsState, userStopped>>
    BY <1>2 DEF HeartbeatBegins, MayBegin, states
  <2>2. ~userStopped
    BY <2>1, NowIs DEF StopInv, Stopped, HeartbeatSkips
  <2>3. \A q \in Process \ {"health"} : op'[q] = op[q]
    BY <1>1, <1>2 DEF HeartbeatBegins, OpTyped
  <2>4. OneOp' /\ op'["user"].pc = "idle"
    BY <2>1, <2>3, NobodyElse DEF StopInv, Process
  <2> QED BY <1>1, <2>1, <2>2, <2>4 DEF StopInv, Stopping, Stopped
<1>3. CASE Nanny
  <2>1. AllIdle /\ UNCHANGED <<managerState, op, userStopped>>
    BY <1>3 DEF Nanny, MayBegin
  <2>2. OneOp' /\ op'["user"].pc = "idle"
    BY <2>1 DEF StopInv, OneOp, AllIdle, Process
  <2>3. ASSUME userStopped PROVE UNCHANGED <<eventsState, queueState>>
    <3>1. eventsState.state = "STOPPED" /\ queueState.state = "STOPPED"
      BY <2>3, NowIs DEF StopInv, Stopped
    <3>2. /\ eventsState # Now("PAUSED", "system") /\ queueState # Now("PAUSED", "system")
          /\ eventsState.state # "RUNNING"
      BY <3>1, NowIs
    <3>3. apiLimit \in {"none", "soft", "hard"}
      BY <1>1 DEF Limits
    <3> QED BY <1>3, <3>2, <3>3 DEF Nanny, PauseEvents
  <2>4. Stopped'
    BY <2>1, <2>3 DEF StopInv, Stopped
  <2> QED BY <1>1, <2>2, <2>4 DEF StopInv, Stopping
<1>4. CASE Boot
  <2>1. /\ op["health"].pc = "boot" /\ op' = [op EXCEPT !["health"] = Idle] /\ "health" \in Process
        /\ userStopped' = userStopped
    BY <1>4 DEF Boot, Process
  <2>2. op'["health"].pc = "idle" /\ \A q \in Process \ {"health"} : op'[q] = op[q]
    BY <1>1, <2>1, Idles DEF OpTyped
  <2>3. OneOp' /\ op'["user"].pc = "idle" /\ op'["failure"].pc = "idle"
    BY <2>1, <2>2, NobodyElse DEF StopInv, Process
  <2>4. ASSUME userStopped PROVE UNCHANGED <<managerState, eventsState, queueState>>
    <3>1. managerState.causedBy = "user"
      BY <2>4, NowIs DEF StopInv, Stopped
    <3> QED BY <1>4, <3>1 DEF Boot, states
  <2>5. Stopped'
    BY <2>1, <2>2, <2>3, <2>4 DEF StopInv, Stopped
  <2> QED BY <1>1, <2>3, <2>5 DEF StopInv, Stopping
<1>5. CASE Rebuilt
  <2>1. /\ op'["health"].pc = "boot" /\ (\A p \in Process \ {"health"} : op'[p].pc = "idle")
        /\ userStopped' = userStopped
    BY <1>1, <1>5, ConstructedIs DEF Rebuilt
  <2>2. ~userStopped
    BY <1>5 DEF Rebuilt, StopInv, Stopped
  <2>3. OneOp' /\ op'["user"].pc = "idle"
    BY <2>1 DEF OneOp, Process
  <2> QED BY <1>1, <2>1, <2>2, <2>3 DEF StopInv, Stopping, Stopped
<1> QED
  BY <1>2, <1>3, <1>4, <1>5

LEMMA StopStep == ~Overlap /\ ~Panics /\ StopInv /\ [Next]_vars => StopInv'
<1>1. StopInv /\ UNCHANGED vars => StopInv'
  BY DEF StopInv, TypeOK, vars, OneOp, Stopping, Stopped
<1> QED
  BY <1>1, EnvironmentStops, UserStops, StepStops, ApplicationStops DEF Next

\* If operations do not overlap and other managers' failures are their own, a
\* manager that a user stopped is not started until a user does something about
\* it or the bot is rebuilt, whatever heartbeats, the nanny and restarts of the
\* application do.
THEOREM StopStaysAlways == ~Overlap /\ ~Panics /\ Services => StopStays
<1> SUFFICES ASSUME ~Overlap, ~Panics PROVE Services => StopStays
  OBVIOUS
<1>1. AllInit => StopInv
  BY StopBegins DEF AllInit
<1>2. [AllNext]_allVars => [Next]_vars
  BY DEF AllNext, allVars, vars
<1>3. StopInv /\ [AllNext]_allVars => StopInv'
  BY <1>2, StopStep
<1>4. StopInv' => (userStopped /\ userStopped' => ~Starts)
  BY NowIs DEF StopInv, Stopped, Starts
<1>5. StopInv /\ [AllNext]_allVars => [userStopped /\ userStopped' => ~Starts]_vars
  BY <1>3, <1>4
<1> QED
  BY <1>1, <1>3, <1>5, PTL DEF Services, StopStays

\* The running states and what concerns the bots have the declared types in every
\* reachable state, whichever operations overlap.
THEOREM ServicesTypes == Services => []TypesOK
<1>1. AllInit => TypesOK /\ BotsInv
  BY StatesBegin, BotsBegin DEF AllInit, TypesOK, BotsInv
<1>2. TypesOK /\ BotsInv /\ [AllNext]_allVars => TypesOK' /\ BotsInv'
  <2>1. [AllNext]_allVars => [BotNext]_botVars /\ [Next]_vars
    BY DEF AllNext, allVars, botVars, vars
  <2>2. BotsInv' => BotsTypeOK'
    BY DEF BotsInv
  <2> QED BY <2>1, <2>2, StatesStep, BotsTyped DEF TypesOK
<1> QED
  BY <1>1, <1>2, PTL DEF Services
=============================================================================
