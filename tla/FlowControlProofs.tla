--------------------------- MODULE FlowControlProofs ---------------------------
(***************************************************************************)
(* Proofs about FlowControl, for any runs, checks, rules and gotos: no     *)
(* check is run again by a later pass through its run; a check is          *)
(* triggered exactly if its rules, joined by its condition, are; and the   *)
(* checks are run in the order that CheckFlow documents.                   *)
(***************************************************************************)
EXTENDS FlowControl, WellFoundedInduction, TLAPS

(***************************************************************************)
(* Recursion over a sequence.                                              *)
(***************************************************************************)

\* Induction up to n, for a set in place of a predicate.
LEMMA InductionUpTo ==
    ASSUME NEW n \in Nat, NEW I,
           0 \in I,
           \A k \in 0 .. n - 1 : k \in I => k + 1 \in I
    PROVE  0 .. n \subseteq I
<1> SUFFICES ASSUME ~ (0 .. n \subseteq I) PROVE FALSE
  OBVIOUS
<1> DEFINE R == {p \in Nat \X Nat : p[1] < p[2]}
           Bad == (0 .. n) \ I
<1>1. IsWellFoundedOn(R, Nat)
  <2>1. OpToRel(<, Nat) = R
    BY DEF OpToRel
  <2> QED BY <2>1, NatLessThanWellFounded
<1>2. PICK m \in Bad : \A j \in Bad : ~ (<<j, m>> \in R)
  <2>1. Bad \in SUBSET Nat /\ Bad # {}
    OBVIOUS
  <2> HIDE DEF R, Bad
  <2> QED BY <1>1, <2>1, WFMin
<1>3. m \in 0 .. n /\ m \notin I /\ m # 0 /\ m - 1 \in 0 .. n - 1
  BY <1>2
<1>4. m - 1 \in I
  <2>1. <<m - 1, m>> \in R
    BY <1>3
  <2> HIDE DEF R
  <2> QED BY <1>2, <1>3, <2>1
<1>5. m - 1 + 1 \in I
  BY <1>3, <1>4
<1> QED
  BY <1>3, <1>5

\* A function that each step takes further from its value before.
Stepwise(f, n, S, base, step) ==
    /\ f \in [0 .. n -> S]
    /\ f[0] = base
    /\ \A k \in 1 .. n : f[k] = step[<<f[k - 1], k>>]

\* There is one.
LEMMA RecursionExists ==
    ASSUME NEW n \in Nat, NEW S, NEW base \in S, NEW step \in [S \X (1 .. n) -> S]
    PROVE  \E f : Stepwise(f, n, S, base, step)
<1> USE DEF Stepwise
<1> DEFINE Upto(k, f) == Stepwise(f, k, S, base, step)
           I == {k \in 0 .. n : \E f : Upto(k, f)}
<1>1. 0 \in I
  <2> DEFINE g == [k \in 0 .. 0 |-> base]
  <2>1. g \in [0 .. 0 -> S] /\ g[0] = base
    OBVIOUS
  <2> HIDE DEF g
  <2>2. Upto(0, g)
    BY <2>1
  <2> QED BY <2>2
<1>2. ASSUME NEW k \in 0 .. n - 1, k \in I PROVE k + 1 \in I
  <2>1. PICK f : Upto(k, f)
    BY <1>2
  <2> DEFINE next == step[<<f[k], k + 1>>]
             g == [j \in 0 .. k + 1 |-> IF j <= k THEN f[j] ELSE next]
  <2>2. next \in S
    <3>1. <<f[k], k + 1>> \in S \X (1 .. n)
      BY <2>1
    <3> QED BY <3>1
  <2>3. /\ g \in [0 .. k + 1 -> S] /\ g[0] = f[0]
        /\ \A j \in 0 .. k : g[j] = f[j]
        /\ g[k + 1] = next
    <3> HIDE DEF next
    <3> QED BY <2>1, <2>2
  <2>4. ASSUME NEW j \in 1 .. k + 1 PROVE g[j] = step[<<g[j - 1], j>>]
    <3>1. CASE j = k + 1
      <4>1. g[j - 1] = f[k]
        BY <2>3, <3>1
      <4> HIDE DEF g
      <4> QED BY <2>3, <3>1, <4>1
    <3>2. CASE j # k + 1
      <4>1. j \in 1 .. k /\ j - 1 \in 0 .. k /\ j \in 0 .. k
        BY <3>2
      <4> HIDE DEF g
      <4> QED BY <2>1, <2>3, <4>1
    <3> QED BY <3>1, <3>2
  <2> HIDE DEF g
  <2>5. Upto(k + 1, g)
    BY <2>1, <2>3, <2>4
  <2> QED BY <2>5
<1>3. 0 .. n \subseteq I
  <2> HIDE DEF I
  <2> QED BY <1>1, <1>2, InductionUpTo
<1>4. n \in I
  BY <1>3
<1> QED
  BY <1>4

(***************************************************************************)
(* Rules joined by a condition.                                            *)
(***************************************************************************)

\* Results of rules that say what the rules find, or nothing yet.
Facts == {known \in [RulesIn(config) -> Outcome \cup {"none"}] :
             \A r \in RulesIn(config) : known[r] \in {"none", truth[r]}}

\* Rules, or entries, that have been joined so far.
Joinings == [known : Facts, ran : BOOLEAN, verdict : {"open", "passed", "failed"}]

\* What may be found: a rule that failed its filters before is skipped.
Findings == {"passed", "failed", "skipped"}

\* Values that are joined one after the other, until the verdict is clear.
JoinsUp(after, n, condition, values) ==
    /\ after[0].verdict = "open" /\ after[0].ran = FALSE
    /\ \A k \in 1 .. n :
           IF after[k - 1].verdict # "open" THEN after[k] = after[k - 1]
           ELSE \E known : after[k] = Join(condition, after[k - 1],
                                           IF values[k] THEN "passed" ELSE "failed", known)

\* The verdict about n findings, if none of them is skipped, is that of its
\* condition, although the later ones are left out when it is clear.
LEMMA JoinsAll ==
    ASSUME NEW n \in Nat, NEW condition \in {"AND", "OR"},
           NEW after, NEW values \in [1 .. n -> BOOLEAN], JoinsUp(after, n, condition, values)
    PROVE  Joined(condition, after[n]) = "passed" <=> Holds(condition, Range(values))
<1> USE DEF JoinsUp
<1> DEFINE decides(k) == values[k] <=> condition = "OR"
           clear == IF condition = "OR" THEN "passed" ELSE "failed"
           I == {k \in 0 .. n :
                    \/ /\ after[k].verdict = "open" /\ (after[k].ran <=> k > 0)
                       /\ \A j \in 1 .. k : ~decides(j)
                    \/ after[k].verdict = clear /\ \E j \in 1 .. k : decides(j)}
<1>1. 0 \in I
  OBVIOUS
<1>2. ASSUME NEW k \in 0 .. n - 1, k \in I PROVE k + 1 \in I
  <2>1. k + 1 \in 1 .. n /\ k + 1 - 1 = k /\ 1 .. k + 1 = 1 .. k \cup {k + 1}
    OBVIOUS
  <2>2. CASE after[k].verdict # "open"
    <3>1. after[k + 1] = after[k]
      BY <2>1, <2>2
    <3> QED BY <1>2, <2>1, <2>2, <3>1
  <2>3. CASE after[k].verdict = "open"
    <3>1. PICK known : after[k + 1] = Join(condition, after[k],
                                           IF values[k + 1] THEN "passed" ELSE "failed", known)
      BY <2>1, <2>3
    <3>2. /\ after[k + 1].ran
          /\ after[k + 1].verdict = IF decides(k + 1) THEN clear ELSE "open"
      <4> DEFINE found == IF values[k + 1] THEN "passed" ELSE "failed"
      <4>1. decides(k + 1) <=> \/ condition = "OR" /\ found = "passed"
                               \/ condition = "AND" /\ found = "failed"
        BY <2>1
      <4>2. decides(k + 1) => found = clear
        BY <2>1
      <4>3. found # "skipped"
        OBVIOUS
      <4>4. after[k + 1] = Join(condition, after[k], found, known)
        BY <3>1
      <4> HIDE DEF decides, clear, found
      <4>5. /\ after[k + 1].ran = (after[k].ran \/ found # "skipped")
            /\ after[k + 1].verdict = IF \/ condition = "OR" /\ found = "passed"
                                         \/ condition = "AND" /\ found = "failed"
                                      THEN found ELSE "open"
        <5> HIDE DEF decides, clear, found
        <5> QED BY <4>4 DEF Join
      <4>6. after[k + 1].verdict = IF decides(k + 1) THEN clear ELSE "open"
        <5> HIDE DEF decides, clear, found
        <5> QED BY <4>1, <4>2, <4>5
      <4> QED BY <4>3, <4>5, <4>6
    <3>3. \A j \in 1 .. k : ~decides(j)
      BY <1>2, <2>3
    <3> QED BY <2>1, <3>2, <3>3
  <2> QED BY <2>2, <2>3
<1>3. n \in I
  <2>1. 0 .. n \subseteq I
    <3> HIDE DEF I
    <3> QED BY <1>1, <1>2, InductionUpTo
  <2> QED BY <2>1
<1> DEFINE facts == Range(values)
<1>4. facts \subseteq BOOLEAN /\ \A v : v \in facts <=> \E k \in 1 .. n : values[k] = v
  BY DEF Range
<1> HIDE DEF facts
<1>5. CASE after[n].verdict = "open"
  <2>1. (after[n].ran <=> n > 0) /\ \A j \in 1 .. n : ~decides(j)
    BY <1>3, <1>5
  <2>2. CASE condition = "OR"
    <3>1. TRUE \notin facts
      BY <1>4, <2>1, <2>2
    <3> QED BY <1>5, <2>2, <3>1 DEF Joined, Holds, facts
  <2>3. CASE condition = "AND"
    <3>1. n > 0 <=> facts = {TRUE}
      <4>1. FALSE \notin facts
        BY <1>4, <2>1, <2>3
      <4>2. n > 0 => values[1] \in facts
        BY <1>4
      <4>3. n = 0 => facts = {}
        BY <1>4
      <4>4. n > 0 => facts # {}
        BY <4>2
      <4>5. facts # {} => facts = {TRUE}
        BY <1>4, <4>1
      <4>6. n = 0 \/ n > 0
        OBVIOUS
      <4> QED BY <4>3, <4>4, <4>5, <4>6
    <3> QED BY <1>5, <2>1, <2>3, <3>1 DEF Joined, Holds, facts
  <2> QED BY <2>2, <2>3
<1>6. CASE after[n].verdict # "open"
  <2>1. after[n].verdict = clear
    BY <1>3, <1>6
  <2>2. PICK j \in 1 .. n : decides(j)
    BY <1>3, <1>6
  <2>3. CASE condition = "OR"
    <3>1. TRUE \in facts
      BY <1>4, <2>2, <2>3
    <3> QED BY <2>1, <2>3, <3>1 DEF Joined, Holds, facts
  <2>4. CASE condition = "AND"
    <3>1. FALSE \in facts
      BY <1>4, <2>2, <2>4
    <3> QED BY <2>1, <2>4, <3>1 DEF Joined, Holds, facts
  <2> QED BY <2>3, <2>4
<1> QED
  BY <1>5, <1>6

\* truth says of every rule what it would find.
TruthOK == truth \in [RulesIn(config) -> Outcome]

\* A rule that is run: its result is kept, and it is what the rule finds, unless
\* its filters do not pass.
LEMMA RuleRuns ==
    ASSUME TruthOK, NEW known \in Facts, NEW r \in RulesIn(config)
    PROVE  /\ Recorded(known, r) \in Facts
           /\ Found(known, r) \in Findings
           /\ truth[r] # "filtered" =>
                  Found(known, r) = IF truth[r] = "passed" THEN "passed" ELSE "failed"
<1>1. truth[r] \in {"passed", "failed", "filtered"}
  BY DEF TruthOK, Outcome
<1>2. known \in [RulesIn(config) -> Outcome \cup {"none"}] /\ known[r] \in {"none", truth[r]}
  BY DEF Facts
<1>3. Recorded(known, r) \in Facts
  <2> DEFINE now == Recorded(known, r)
  <2>1. now = [known EXCEPT ![r] = IF known[r] = "none" THEN truth[r] ELSE known[r]]
    BY DEF Recorded
  <2> HIDE DEF now
  <2>2. now \in [RulesIn(config) -> Outcome \cup {"none"}]
    BY <1>1, <1>2, <2>1 DEF Outcome
  <2>3. \A q \in RulesIn(config) : now[q] \in {"none", truth[q]}
    BY <1>2, <2>1 DEF Facts
  <2> QED BY <2>2, <2>3 DEF Facts, now
<1>4. Found(known, r) \in Findings
  BY <1>1, <1>2 DEF Found, Findings
<1>5. truth[r] # "filtered" =>
          Found(known, r) = IF truth[r] = "passed" THEN "passed" ELSE "failed"
  BY <1>1, <1>2 DEF Found
<1> QED
  BY <1>3, <1>4, <1>5

\* Joining something more.
LEMMA JoinType ==
    ASSUME NEW so \in Joinings, NEW condition, NEW found \in Findings, NEW known \in Facts
    PROVE  Join(condition, so, found, known) \in Joinings
<1> DEFINE joins == \/ condition = "OR" /\ found = "passed"
                    \/ condition = "AND" /\ found = "failed"
           any == so.ran \/ found # "skipped"
           now == IF joins THEN found ELSE "open"
<1>1. joins => found \in {"passed", "failed"}
  OBVIOUS
<1>2. any \in BOOLEAN /\ now \in {"open", "passed", "failed"}
  BY <1>1
<1>3. Join(condition, so, found, known) = [known |-> known, ran |-> any, verdict |-> now]
  BY DEF Join
<1> HIDE DEF joins, any, now
<1> QED
  BY <1>2, <1>3 DEF Joinings

LEMMA JoinedType ==
    ASSUME NEW so \in Joinings, NEW condition
    PROVE  Joined(condition, so) \in {"passed", "failed"}
BY DEF Joined, Joinings

\* after is what RunSet defines by recursion.
SetJoins(after, n, set, known) ==
    after = [k \in 0 .. n |->
                IF k = 0 THEN Joining(known)
                ELSE LET so == after[k - 1]
                         r == set.rules[k]
                     IN IF so.verdict # "open" THEN so
                        ELSE Join(set.condition, so, Found(so.known, r), Recorded(so.known, r))]

\* A rule set, of which some rules may have been run before, some are left out
\* because the verdict is clear, and none or some are skipped.
LEMMA SetRuns ==
    ASSUME TruthOK, NEW known \in Facts, NEW set \in Entry, Range(set.rules) \subseteq RulesIn(config)
    PROVE  /\ RunSet(set, known).known \in Facts
           /\ Joined(set.condition, RunSet(set, known)) \in {"passed", "failed"}
           /\ (\A r \in Range(set.rules) : truth[r] # "filtered") =>
                  (Joined(set.condition, RunSet(set, known)) = "passed"
                       <=> Holds(set.condition, {truth[r] = "passed" : r \in Range(set.rules)}))
<1> DEFINE n == Len(set.rules)
           rule(k) == set.rules[k]
           step == [x \in Joinings \X (1 .. n) |->
                       IF x[1].verdict # "open" THEN x[1]
                       ELSE Join(set.condition, x[1], Found(x[1].known, rule(x[2])),
                                 Recorded(x[1].known, rule(x[2])))]
           after == CHOOSE f : SetJoins(f, n, set, known)
<1>1. n \in Nat /\ set.rules \in Seq(Rules) /\ set.condition \in {"AND", "OR"}
  BY DEF Entry
<1>2. \A k \in 1 .. n : rule(k) \in RulesIn(config) /\ rule(k) \in Range(set.rules)
  BY <1>1 DEF Range
<1> HIDE DEF n
<1>3. Joining(known) \in Joinings
  BY DEF Joining, Joinings
<1>4. ASSUME NEW so \in Joinings, NEW k \in 1 .. n
      PROVE  /\ Join(set.condition, so, Found(so.known, rule(k)), Recorded(so.known, rule(k))) \in Joinings
             /\ so.known \in Facts
  <2>1. so.known \in Facts
    BY DEF Joinings
  <2>2. Found(so.known, rule(k)) \in Findings /\ Recorded(so.known, rule(k)) \in Facts
    BY <1>2, <2>1, RuleRuns
  <2> QED BY <2>1, <2>2, JoinType
<1>5. step \in [Joinings \X (1 .. n) -> Joinings]
  <2> SUFFICES ASSUME NEW so \in Joinings, NEW k \in 1 .. n PROVE step[<<so, k>>] \in Joinings
    OBVIOUS
  <2>1. step[<<so, k>>] = IF so.verdict # "open" THEN so
                          ELSE Join(set.condition, so, Found(so.known, rule(k)),
                                    Recorded(so.known, rule(k)))
    OBVIOUS
  <2> QED BY <1>4, <2>1
<1>6. PICK f \in [0 .. n -> Joinings] :
          f[0] = Joining(known) /\ \A k \in 1 .. n : f[k] = step[<<f[k - 1], k>>]
  <2> DEFINE base == Joining(known)
  <2>1. base \in Joinings
    BY <1>3
  <2> HIDE DEF step, base
  <2>2. \E f : Stepwise(f, n, Joinings, base, step)
    BY <1>1, <1>5, <2>1, RecursionExists
  <2> QED BY <2>2 DEF base, Stepwise
<1>7. SetJoins(f, n, set, known)
  <2>1. ASSUME NEW k \in 1 .. n
        PROVE  f[k] = LET so == f[k - 1]
                          r == set.rules[k]
                      IN IF so.verdict # "open" THEN so
                         ELSE Join(set.condition, so, Found(so.known, r), Recorded(so.known, r))
    <3>1. f[k - 1] \in Joinings
      BY <1>1
    <3>2. <<f[k - 1], k>> \in Joinings \X (1 .. n)
      BY <3>1
    <3> QED BY <1>6, <3>2
  <2>2. \A k \in 0 .. n : k = 0 \/ k \in 1 .. n
    BY <1>1
  <2>3. f = [k \in 0 .. n |-> f[k]]
    OBVIOUS
  <2> QED BY <1>6, <2>1, <2>2, <2>3 DEF SetJoins
<1>8. SetJoins(after, n, set, known)
  BY <1>7
<1>9. RunSet(set, known) = after[n]
  BY DEF RunSet, SetJoins, n
<1> HIDE DEF after
<1>10. after[0] = Joining(known)
  <2>1. 0 \in 0 .. n
    BY <1>1
  <2> QED BY <1>8, <2>1 DEF SetJoins
<1>11. ASSUME NEW k \in 1 .. n
       PROVE  after[k] = IF after[k - 1].verdict # "open" THEN after[k - 1]
                         ELSE Join(set.condition, after[k - 1], Found(after[k - 1].known, rule(k)),
                                   Recorded(after[k - 1].known, rule(k)))
  <2>1. k \in 0 .. n /\ k # 0
    BY <1>1
  <2> QED BY <1>8, <2>1 DEF SetJoins
<1>12. \A k \in 0 .. n : after[k] \in Joinings
  <2> DEFINE I == {k \in 0 .. n : after[k] \in Joinings}
  <2>1. 0 \in I
    BY <1>1, <1>3, <1>10
  <2>2. ASSUME NEW k \in 0 .. n - 1, k \in I PROVE k + 1 \in I
    <3>1. k + 1 \in 1 .. n /\ k + 1 - 1 = k /\ k + 1 \in 0 .. n /\ after[k] \in Joinings
      BY <1>1, <2>2
    <3>2. after[k + 1] \in Joinings
      BY <1>4, <1>11, <3>1
    <3> QED BY <3>1, <3>2
  <2>3. 0 .. n \subseteq I
    <3> HIDE DEF I
    <3> QED BY <1>1, <2>1, <2>2, InductionUpTo
  <2> QED BY <2>3
<1>13. after[n] \in Joinings
  BY <1>1, <1>12
<1>14. ASSUME \A r \in Range(set.rules) : truth[r] # "filtered"
       PROVE  Joined(set.condition, after[n]) = "passed"
                  <=> Holds(set.condition, {truth[r] = "passed" : r \in Range(set.rules)})
  <2> DEFINE values == [k \in 1 .. n |-> truth[rule(k)] = "passed"]
  <2>1. values \in [1 .. n -> BOOLEAN] /\ \A k \in 1 .. n : values[k] = (truth[rule(k)] = "passed")
    OBVIOUS
  <2>2. after[0].verdict = "open" /\ after[0].ran = FALSE
    BY <1>10 DEF Joining
  <2> DEFINE condition == set.condition
  <2>3. ASSUME NEW k \in 1 .. n
        PROVE  IF after[k - 1].verdict # "open" THEN after[k] = after[k - 1]
               ELSE \E so : after[k] = Join(condition, after[k - 1],
                                            IF values[k] THEN "passed" ELSE "failed", so)
    <3>1. after[k - 1] \in Joinings /\ after[k - 1].known \in Facts
      BY <1>1, <1>4, <1>12
    <3>2. Found(after[k - 1].known, rule(k)) =
              IF truth[rule(k)] = "passed" THEN "passed" ELSE "failed"
      BY <1>2, <1>14, <3>1, RuleRuns
    <3>3. Found(after[k - 1].known, rule(k)) = IF values[k] THEN "passed" ELSE "failed"
      BY <3>2
    <3> HIDE DEF values
    <3> QED BY <1>11, <3>3
  <2>4. Range(values) = {truth[r] = "passed" : r \in Range(set.rules)}
    <3>1. Range(set.rules) = {rule(k) : k \in 1 .. n}
      BY <1>1 DEF Range, n
    <3>2. Range(values) = {truth[rule(k)] = "passed" : k \in 1 .. n}
      BY DEF Range
    <3> HIDE DEF rule
    <3> QED BY <3>1, <3>2
  <2> HIDE DEF values, condition
  <2>5. JoinsUp(after, n, condition, values)
    BY <2>2, <2>3 DEF JoinsUp
  <2>6. condition \in {"AND", "OR"}
    BY <1>1 DEF condition
  <2>7. Joined(condition, after[n]) = "passed" <=> Holds(condition, Range(values))
    BY <1>1, <2>1, <2>5, <2>6, JoinsAll
  <2> QED BY <2>4, <2>7 DEF condition
<1>15. after[n].known \in Facts /\ Joined(set.condition, after[n]) \in {"passed", "failed"}
  BY <1>13, JoinedType DEF Joinings
<1> QED
  BY <1>9, <1>14, <1>15

\* A rule or a rule set of a check.
LEMMA EntryRuns ==
    ASSUME TruthOK, NEW known \in Facts, NEW e \in Entry, Range(e.rules) \subseteq RulesIn(config)
    PROVE  /\ FoundBy(e, known) \in Findings
           /\ RecordedBy(e, known) \in Facts
           /\ (\A r \in Range(e.rules) : truth[r] # "filtered") =>
                  FoundBy(e, known) = IF Value(e) THEN "passed" ELSE "failed"
<1>1. CASE e.isSet
  <2> DEFINE verdictOf == Joined(e.condition, RunSet(e, known))
             holds == Holds(e.condition, {truth[r] = "passed" : r \in Range(e.rules)})
  <2>1. /\ RunSet(e, known).known \in Facts
        /\ verdictOf \in {"passed", "failed"}
        /\ (\A r \in Range(e.rules) : truth[r] # "filtered") =>
               (verdictOf = "passed" <=> holds)
    BY SetRuns
  <2>2. FoundBy(e, known) = verdictOf /\ RecordedBy(e, known) = RunSet(e, known).known
    BY <1>1 DEF FoundBy, RecordedBy
  <2>3. Value(e) = holds
    BY <1>1 DEF Value
  <2> HIDE DEF verdictOf, holds
  <2> QED BY <2>1, <2>2, <2>3 DEF Findings
<1>2. CASE ~e.isSet
  <2> DEFINE r == e.rules[1]
  <2>1. Len(e.rules) = 1 /\ e.rules \in Seq(Rules)
    BY <1>2 DEF Entry
  <2>2. Head(e.rules) = r /\ Range(e.rules) = {r}
    BY <2>1 DEF Range
  <2>3. r \in RulesIn(config)
    BY <2>2
  <2>4. FoundBy(e, known) = Found(known, r) /\ RecordedBy(e, known) = Recorded(known, r)
    BY <1>2, <2>2 DEF FoundBy, RecordedBy
  <2>5. Value(e) <=> truth[r] = "passed"
    <3>1. {truth[q] = "passed" : q \in Range(e.rules)} = {truth[r] = "passed"}
      BY <2>2
    <3>2. Value(e) <=> {truth[r] = "passed"} = {TRUE}
      BY <1>2, <3>1 DEF Value, Holds
    <3> QED BY <3>2
  <2> HIDE DEF r
  <2> QED BY <2>2, <2>3, <2>4, <2>5, RuleRuns
<1> QED
  BY <1>1, <1>2

\* after is what RunRules defines by recursion.
RulesJoin(after, n, check) ==
    after = [k \in 0 .. n |->
                IF k = 0 THEN Joining(results)
                ELSE LET so == after[k - 1]
                         e == check.entries[k]
                     IN IF so.verdict # "open" THEN so
                        ELSE Join(check.condition, so, FoundBy(e, so.known), RecordedBy(e, so.known))]

\* All rules of a check, with the results of earlier checks.
LEMMA CheckRuns ==
    ASSUME TruthOK, results \in Facts, NEW check \in Check,
           \A e \in Range(check.entries) : Range(e.rules) \subseteq RulesIn(config)
    PROVE  /\ RunRules(check).known \in Facts
           /\ (\A e \in Range(check.entries) : \A r \in Range(e.rules) : truth[r] # "filtered") =>
                  (Joined(check.condition, RunRules(check)) = "passed"
                       <=> Holds(check.condition, {Value(e) : e \in Range(check.entries)}))
<1> DEFINE n == Len(check.entries)
           entry(k) == check.entries[k]
           next(so, k) == Join(check.condition, so, FoundBy(entry(k), so.known),
                               RecordedBy(entry(k), so.known))
           step == [x \in Joinings \X (1 .. n) |->
                       IF x[1].verdict # "open" THEN x[1] ELSE next(x[1], x[2])]
           base == Joining(results)
           after == CHOOSE f : RulesJoin(f, n, check)
<1>1. n \in Nat /\ check.entries \in Seq(Entry) /\ check.condition \in {"AND", "OR"}
  BY DEF Check
<1>2. ASSUME NEW k \in 1 .. n
      PROVE  /\ entry(k) \in Entry /\ entry(k) \in Range(check.entries)
             /\ Range(entry(k).rules) \subseteq RulesIn(config)
  BY <1>1 DEF Range
<1> HIDE DEF n
<1>3. base \in Joinings
  BY DEF Joining, Joinings
<1>4. ASSUME NEW so \in Joinings, NEW k \in 1 .. n
      PROVE  next(so, k) \in Joinings /\ so.known \in Facts
  <2>1. so.known \in Facts
    BY DEF Joinings
  <2>2. FoundBy(entry(k), so.known) \in Findings /\ RecordedBy(entry(k), so.known) \in Facts
    BY <1>2, <2>1, EntryRuns
  <2> QED BY <2>1, <2>2, JoinType
<1>5. step \in [Joinings \X (1 .. n) -> Joinings]
  <2> SUFFICES ASSUME NEW so \in Joinings, NEW k \in 1 .. n PROVE step[<<so, k>>] \in Joinings
    OBVIOUS
  <2>1. step[<<so, k>>] = IF so.verdict # "open" THEN so ELSE next(so, k)
    OBVIOUS
  <2> QED BY <1>4, <2>1
<1>6. PICK f : Stepwise(f, n, Joinings, base, step)
  <2> HIDE DEF step, base
  <2> QED BY <1>1, <1>3, <1>5, RecursionExists
<1>7. RulesJoin(f, n, check)
  <2>1. ASSUME NEW k \in 1 .. n
        PROVE  f[k] = LET so == f[k - 1]
                          e == check.entries[k]
                      IN IF so.verdict # "open" THEN so
                         ELSE Join(check.condition, so, FoundBy(e, so.known), RecordedBy(e, so.known))
    <3>1. f[k - 1] \in Joinings
      BY <1>1, <1>6 DEF Stepwise
    <3>2. <<f[k - 1], k>> \in Joinings \X (1 .. n)
      BY <3>1
    <3> QED BY <1>6, <3>2 DEF Stepwise
  <2>2. \A k \in 0 .. n : k = 0 \/ k \in 1 .. n
    BY <1>1
  <2>3. f = [k \in 0 .. n |-> f[k]] /\ f[0] = base
    BY <1>6 DEF Stepwise
  <2> QED BY <2>1, <2>2, <2>3 DEF RulesJoin
<1>8. RulesJoin(after, n, check)
  BY <1>7
<1>9. RunRules(check) = after[n]
  BY DEF RunRules, RulesJoin, n
<1> HIDE DEF after
<1>10. after[0] = base
  <2>1. 0 \in 0 .. n
    BY <1>1
  <2> QED BY <1>8, <2>1 DEF RulesJoin
<1>11. ASSUME NEW k \in 1 .. n
       PROVE  after[k] = IF after[k - 1].verdict # "open" THEN after[k - 1]
                         ELSE next(after[k - 1], k)
  <2>1. k \in 0 .. n /\ k # 0
    BY <1>1
  <2> QED BY <1>8, <2>1 DEF RulesJoin
<1>12. \A k \in 0 .. n : after[k] \in Joinings
  <2> DEFINE I == {k \in 0 .. n : after[k] \in Joinings}
  <2>1. 0 \in I
    BY <1>1, <1>3, <1>10
  <2>2. ASSUME NEW k \in 0 .. n - 1, k \in I PROVE k + 1 \in I
    <3>1. k + 1 \in 1 .. n /\ k + 1 - 1 = k /\ k + 1 \in 0 .. n /\ after[k] \in Joinings
      BY <1>1, <2>2
    <3> HIDE DEF next
    <3>2. after[k + 1] \in Joinings
      BY <1>4, <1>11, <3>1
    <3> QED BY <3>1, <3>2
  <2>3. 0 .. n \subseteq I
    <3> HIDE DEF I
    <3> QED BY <1>1, <2>1, <2>2, InductionUpTo
  <2> QED BY <2>3
<1>13. after[n].known \in Facts
  BY <1>1, <1>12 DEF Joinings
<1>14. ASSUME \A e \in Range(check.entries) : \A r \in Range(e.rules) : truth[r] # "filtered"
       PROVE  Joined(check.condition, after[n]) = "passed"
                  <=> Holds(check.condition, {Value(e) : e \in Range(check.entries)})
  <2> DEFINE values == [k \in 1 .. n |-> Value(entry(k))]
             condition == check.condition
  <2>1. values \in [1 .. n -> BOOLEAN] /\ \A k \in 1 .. n : values[k] = Value(entry(k))
    <3>1. ASSUME NEW k \in 1 .. n PROVE Value(entry(k)) \in BOOLEAN
      <4> DEFINE e == entry(k)
                 joined == IF e.isSet THEN e.condition ELSE "AND"
                 facts == {truth[r] = "passed" : r \in Range(e.rules)}
      <4>1. Value(e) = Holds(joined, facts)
        BY DEF Value
      <4> HIDE DEF e, joined, facts
      <4>2. Holds(joined, facts) \in BOOLEAN
        <5>1. CASE joined = "AND"
          <6>1. Holds(joined, facts) = (facts = {TRUE})
            BY <5>1 DEF Holds
          <6> QED BY <6>1
        <5>2. CASE joined # "AND"
          <6>1. Holds(joined, facts) = (TRUE \in facts)
            BY <5>2 DEF Holds
          <6> QED BY <6>1
        <5> QED BY <5>1, <5>2
      <4> QED BY <4>1, <4>2 DEF e
    <3> HIDE DEF entry
    <3> QED BY <3>1
  <2>2. after[0].verdict = "open" /\ after[0].ran = FALSE
    BY <1>10 DEF Joining
  <2>3. ASSUME NEW k \in 1 .. n
        PROVE  IF after[k - 1].verdict # "open" THEN after[k] = after[k - 1]
               ELSE \E so : after[k] = Join(condition, after[k - 1],
                                            IF values[k] THEN "passed" ELSE "failed", so)
    <3>1. after[k - 1] \in Joinings /\ after[k - 1].known \in Facts
      BY <1>1, <1>4, <1>12
    <3>2. FoundBy(entry(k), after[k - 1].known) = IF Value(entry(k)) THEN "passed" ELSE "failed"
      BY <1>2, <1>14, <3>1, EntryRuns
    <3>3. FoundBy(entry(k), after[k - 1].known) = IF values[k] THEN "passed" ELSE "failed"
      BY <2>1, <3>2
    <3> HIDE DEF values
    <3> QED BY <1>11, <3>3
  <2>4. Range(values) = {Value(e) : e \in Range(check.entries)}
    <3>1. Range(check.entries) = {entry(k) : k \in 1 .. n}
      BY <1>1 DEF Range, n
    <3>2. Range(values) = {Value(entry(k)) : k \in 1 .. n}
      BY DEF Range
    <3> HIDE DEF entry
    <3> QED BY <3>1, <3>2
  <2> HIDE DEF values, condition
  <2>5. JoinsUp(after, n, condition, values)
    BY <2>2, <2>3 DEF JoinsUp
  <2>6. condition \in {"AND", "OR"}
    BY <1>1 DEF condition
  <2>7. Joined(condition, after[n]) = "passed" <=> Holds(condition, Range(values))
    BY <1>1, <2>1, <2>5, <2>6, JoinsAll
  <2> QED BY <2>4, <2>7 DEF condition
<1> QED
  BY <1>9, <1>13, <1>14

(***************************************************************************)
(* Types, and what the results say.                                        *)
(***************************************************************************)

\* In addition, results of rules are what the rules find, the run in progress is
\* one of the runs, and the config is one of those considered.
TypesInv ==
    /\ TypeOK
    /\ results \in Facts
    /\ config \in Configs
    /\ pc = "checks" => runIndex \in RunIndexes

\* The rules that stand in a check are rules of the config.
LEMMA RulesOfCheck ==
    ASSUME config \in [Places -> Check], NEW p \in Places
    PROVE  /\ config[p] \in Check
           /\ \A e \in Range(config[p].entries) : e \in Entry /\ Range(e.rules) \subseteq RulesIn(config)
<1>1. config[p] \in Check /\ config[p].entries \in Seq(Entry)
  BY DEF Check
<1>2. ASSUME NEW e \in Range(config[p].entries)
      PROVE  e \in Entry /\ Range(e.rules) \subseteq RulesIn(config)
  <2>1. e \in Entry
    BY <1>1 DEF Range
  <2>2. e \in UNION {Range(config[q].entries) : q \in Places}
    OBVIOUS
  <2> QED BY <2>1, <2>2 DEF RulesIn
<1> QED
  BY <1>1, <1>2

\* A place, in numbers.
LEMMA PlaceIs ==
    ASSUME NEW p \in Places
    PROVE  /\ p = <<p[1], p[2]>>
           /\ p[1] \in RunIndexes /\ p[2] \in 1 .. CheckCount[p[1]]
           /\ CheckCount[p[1]] \in Nat
           /\ Len(CheckCount) \in Nat
<1>1. PICK r \in RunIndexes : p \in {<<r, c>> : c \in 1 .. CheckCount[r]}
  BY DEF Places
<1>2. PICK c \in 1 .. CheckCount[r] : p = <<r, c>>
  BY <1>1
<1> QED
  BY <1>1, <1>2, ConstAssumption DEF RunIndexes

\* A post behavior is typed whether or not it is one of the code's.
LEMMA TypesInit == Init => TypesInv
<1> SUFFICES ASSUME Init PROVE TypesInv
  OBVIOUS
<1>1. /\ config \in [Places -> Check] /\ config \in Configs
      /\ gotoContext \in {None} \cup {b \in Gotos : b.kind # "gotoIn"}
      /\ Len(CheckCount) \in Nat
  BY ConstAssumption DEF Init
<1>2. None \in Behavior /\ NextRun \in Behavior /\ Gotos \subseteq Behavior
  BY DEF None, NextRun, Behavior, Gotos
<1>3. postBehavior \in Behavior
  BY <1>1, <1>2 DEF Init
<1>4. results \in Facts
  BY DEF Init, Facts
<1>5. <<>> \in Seq(Gotos)
  OBVIOUS
<1>6. results \in [RulesIn(config) -> Outcome \cup {"none"}]
  BY DEF Init
<1>7. verdict \in [Places -> {"none", "passed", "failed"}]
  BY DEF Init
<1> QED
  BY <1>1, <1>3, <1>4, <1>5, <1>6, <1>7 DEF Init, TypesInv, TypeOK, Facts

\* What stays as it is.
LEMMA TypesRest ==
    ASSUME TypesInv, UNCHANGED <<config, truth, results, verdict>>
    PROVE  /\ config' \in [Places -> Check] /\ config' \in Configs
           /\ truth' \in [RulesIn(config)' -> Outcome]
           /\ results' \in [RulesIn(config)' -> Outcome \cup {"none"}]
           /\ results' \in Facts'
           /\ verdict' \in [Places -> {"none", "passed", "failed"}]
<1>1. RulesIn(config)' = RulesIn(config) /\ Facts' = Facts
  BY DEF Facts, RulesIn
<1> QED
  BY <1>1 DEF TypesInv, TypeOK

\* A check that ends leaves everything but the results typed.
LEMMA CheckEndsTypes ==
    ASSUME TypesInv, NEW p, p = Place, p \in Places, pc = "checks", NEW b \in Behavior, CheckEnds(b)
    PROVE  /\ pc' \in {"runs", "checks", "done"}
           /\ runIndex' \in 1 .. Len(CheckCount) + 1
           /\ gotoContext' \in Gotos \cup {None}
           /\ checkIndex' \in Nat \ {0}
           /\ ran' \subseteq Places /\ running' \subseteq Places
           /\ at' = p /\ postBehavior' = b
           /\ hitInRun' \in Seq(Gotos) /\ hitGotos' = hitGotos
           /\ passedOver' = {} /\ even' \in BOOLEAN
           /\ UNCHANGED <<config, truth>>
           /\ pc' = "checks" => runIndex' = runIndex /\ runIndex \in RunIndexes
<1>1. /\ p = <<p[1], p[2]>> /\ p[1] = runIndex /\ p[1] \in RunIndexes
      /\ p[2] \in 1 .. CheckCount[p[1]] /\ CheckCount[p[1]] \in Nat /\ Len(CheckCount) \in Nat
  <2>1. p[1] = runIndex
    BY DEF Place
  <2> QED BY <2>1, PlaceIs
<1>2. /\ Continue(p, b) /\ InRunGotoHit /\ even' = ~even /\ passedOver' = {}
      /\ at' = p /\ postBehavior' = b /\ UNCHANGED <<config, truth, hitGotos>>
  BY DEF CheckEnds
<1>3. /\ TypeOK /\ ran \subseteq Places /\ running \cup {p} \subseteq Places
      /\ runIndex \in RunIndexes
  BY DEF TypesInv, TypeOK
<1>4. b.kind \in {"gotoRun", "gotoIn", "goto"} => b \in Gotos
  BY DEF Gotos
<1>5. hitInRun' \in Seq(Gotos)
  <2>1. gotoContext.kind = "gotoIn" => gotoContext \in Gotos
    BY <1>3 DEF TypeOK, None
  <2>2. hitInRun \in Seq(Gotos)
    BY <1>3 DEF TypeOK
  <2>3. gotoContext \in Gotos => Append(hitInRun, gotoContext) \in Seq(Gotos)
    BY <2>2
  <2> QED BY <1>2, <2>1, <2>2, <2>3 DEF InRunGotoHit
<1>6. CASE RunEnds(b, running \cup {p})
  BY <1>1, <1>2, <1>3, <1>4, <1>5, <1>6 DEF RunEnds, RunIndexes, TypeOK
<1>7. CASE /\ checkIndex' = IF b.kind = "next" THEN After(p) ELSE p[2]
           /\ gotoContext' = IF b.kind = "gotoIn" THEN b ELSE None
           /\ running' = running \cup {p}
           /\ UNCHANGED <<pc, runIndex, ran>>
  <2>1. After(p) \in Nat \ {0} /\ p[2] \in Nat \ {0}
    BY <1>1 DEF After
  <2> QED BY <1>1, <1>2, <1>3, <1>4, <1>5, <1>7, <2>1 DEF TypeOK
<1> QED
  BY <1>2, <1>6, <1>7 DEF Continue

\* The post behaviors of a check.
LEMMA BehaviorsOfCheck ==
    ASSUME NEW check \in Check
    PROVE  check.postTrigger \in Behavior /\ check.postFail \in Behavior
BY DEF Check

\* The verdict on a check whose rules are run.
LEMMA VerdictOfCheck ==
    ASSUME TypesInv, NEW p \in Places
    PROVE  /\ RunRules(config[p]).known \in Facts
           /\ (\A e \in Range(config[p].entries) : \A r \in Range(e.rules) : truth[r] # "filtered") =>
                  (Triggered(config[p]) <=>
                       \/ config[p].entries = <<>>
                       \/ Holds(config[p].condition, {Value(e) : e \in Range(config[p].entries)}))
<1>1. config \in [Places -> Check] /\ TruthOK /\ results \in Facts
  BY DEF TypesInv, TypeOK, TruthOK
<1>2. /\ config[p] \in Check
      /\ \A e \in Range(config[p].entries) : Range(e.rules) \subseteq RulesIn(config)
  BY <1>1, RulesOfCheck
<1> QED
  BY <1>1, <1>2, CheckRuns DEF Triggered

LEMMA TypesStep == TypesInv /\ [Next]_vars => TypesInv'
<1> SUFFICES ASSUME TypesInv, [Next]_vars PROVE TypesInv'
  OBVIOUS
<1>1. Len(CheckCount) \in Nat /\ TypeOK
  BY ConstAssumption DEF TypesInv
<1>2. ASSUME Terminated PROVE TypesInv'
  BY <1>1, <1>2, TypesRest DEF Terminated, TypesInv, TypeOK
<1>3. ASSUME FollowsGoto PROVE hitGotos' \in Seq(Gotos)
  <2>1. hitGotos \in Seq(Gotos) /\ gotoContext \in Gotos \cup {None}
    BY <1>1 DEF TypeOK
  <2> QED BY <1>3, <2>1 DEF FollowsGoto
<1>4. CASE Finished
  BY <1>1, <1>4, TypesRest DEF Finished, TypesInv, TypeOK
<1>5. CASE RunBegins
  <2>1. /\ hitGotos' \in Seq(Gotos) /\ RunAt \in RunIndexes /\ pc' = "checks" /\ hitInRun' = <<>>
        /\ runIndex' = RunAt /\ checkIndex' = 1 /\ gotoContext' \in {gotoContext, None}
        /\ UNCHANGED <<config, truth, ran, running, results, at, postBehavior, verdict,
                       passedOver, even>>
    BY <1>3, <1>5 DEF RunBegins
  <2>2. runIndex' \in 1 .. Len(CheckCount) + 1
    BY <1>1, <2>1 DEF RunIndexes
  <2>3. <<>> \in Seq(Gotos)
    OBVIOUS
  <2> HIDE DEF RunAt
  <2> QED BY <1>1, <2>1, <2>2, <2>3, TypesRest DEF TypesInv, TypeOK
<1>6. CASE RunSkipped
  <2>1. /\ hitGotos' \in Seq(Gotos) /\ RunAt \in RunIndexes
        /\ runIndex' = RunAt + 1 /\ gotoContext' = None /\ passedOver' = passedOver \cup {RunAt}
        /\ pc = "runs"
        /\ UNCHANGED <<config, truth, pc, checkIndex, ran, running, results, at, postBehavior,
                       hitInRun, verdict, even>>
    BY <1>3, <1>6 DEF RunSkipped
  <2>2. runIndex' \in 1 .. Len(CheckCount) + 1
    BY <1>1, <2>1 DEF RunIndexes
  <2> HIDE DEF RunAt
  <2> QED BY <1>1, <2>1, <2>2, TypesRest DEF TypesInv, TypeOK
<1>7. ASSUME NEW enabled, ComesTo(enabled)
      PROVE  /\ pc = "checks" /\ Place \in Places /\ config[Place] \in Check
             /\ config[Place].postTrigger \in Behavior /\ config[Place].postFail \in Behavior
  <2>1. pc = "checks" /\ Place \in Places /\ config \in [Places -> Check]
    BY <1>1, <1>7 DEF ComesTo, TypeOK
  <2>2. config[Place] \in Check
    BY <2>1, RulesOfCheck
  <2> QED BY <2>1, <2>2, BehaviorsOfCheck
<1>8. ASSUME NEW enabled, ComesTo(enabled), NEW b \in Behavior, CheckEnds(b),
             results' \in Facts, verdict' \in [Places -> {"none", "passed", "failed"}]
      PROVE  TypesInv'
  <2> DEFINE p == Place
  <2>1. p \in Places /\ pc = "checks"
    BY <1>7, <1>8
  <2> HIDE DEF p
  <2>2. /\ pc' \in {"runs", "checks", "done"}
        /\ runIndex' \in 1 .. Len(CheckCount) + 1
        /\ gotoContext' \in Gotos \cup {None}
        /\ checkIndex' \in Nat \ {0}
        /\ ran' \subseteq Places /\ running' \subseteq Places
        /\ at' = p /\ postBehavior' = b
        /\ hitInRun' \in Seq(Gotos) /\ hitGotos' = hitGotos
        /\ passedOver' = {} /\ even' \in BOOLEAN
        /\ UNCHANGED <<config, truth>>
        /\ pc' = "checks" => runIndex' = runIndex /\ runIndex \in RunIndexes
    BY <1>8, <2>1, CheckEndsTypes DEF p
  <2>3. RulesIn(config)' = RulesIn(config) /\ Facts' = Facts
    BY <2>2 DEF Facts, RulesIn
  <2>4. results' \in [RulesIn(config)' -> Outcome \cup {"none"}]
    BY <1>8, <2>3 DEF Facts
  <2> QED BY <1>1, <1>8, <2>1, <2>2, <2>3, <2>4 DEF TypesInv, TypeOK
<1>9. CASE CheckDisabled
  BY <1>1, <1>7, <1>8, <1>9 DEF CheckDisabled, TypesInv, TypeOK
<1>10. CASE CheckNotTriggered
  BY <1>1, <1>7, <1>8, <1>10 DEF CheckNotTriggered, TypesInv, TypeOK
<1>11. CASE CheckHandled
  <2> DEFINE p == Place
             check == config[p]
             b == IF Triggered(check) THEN check.postTrigger ELSE check.postFail
  <2>1. /\ ComesTo(TRUE) /\ CheckEnds(b)
        /\ results' = IF check.entries = <<>> THEN results ELSE RunRules(check).known
        /\ verdict' = [verdict EXCEPT ![p] = IF Triggered(check) THEN "passed" ELSE "failed"]
    BY <1>11 DEF CheckHandled
  <2>2. p \in Places /\ check.postTrigger \in Behavior /\ check.postFail \in Behavior
    BY <1>7, <2>1
  <2> HIDE DEF p
  <2>3. RunRules(check).known \in Facts
    BY <2>2, VerdictOfCheck
  <2>4. results' \in Facts
    BY <2>1, <2>3 DEF TypesInv
  <2>5. verdict' \in [Places -> {"none", "passed", "failed"}]
    BY <1>1, <2>1 DEF TypeOK
  <2>6. b \in Behavior
    BY <2>2
  <2> HIDE DEF b
  <2> QED BY <1>8, <2>1, <2>4, <2>5, <2>6
<1>12. CASE UNCHANGED vars
  <2>1. UNCHANGED <<config, truth, results, verdict>>
    BY <1>12 DEF vars
  <2> QED BY <1>1, <1>12, <2>1, TypesRest DEF vars, TypesInv, TypeOK
<1> QED
  BY <1>2, <1>4, <1>5, <1>6, <1>9, <1>10, <1>11, <1>12 DEF Next, RunFails, CheckFails

\* Every state of handling an activity has the declared types, for any config.
THEOREM FlowTypes == Spec => []TypeOK
<1>1. TypesInv => TypeOK
  BY DEF TypesInv
<1> QED
  BY <1>1, TypesInit, TypesStep, PTL DEF Spec

LEMMA VerdictInit == Init => VerdictIsJoin
  BY DEF Init, VerdictIsJoin

LEMMA VerdictStep == TypesInv /\ VerdictIsJoin /\ [Next]_vars => VerdictIsJoin'
<1> SUFFICES ASSUME TypesInv, VerdictIsJoin, [Next]_vars, NEW p \in Places, verdict'[p] # "none"
             PROVE  \/ \E e \in Range(config'[p].entries) : \E r \in Range(e.rules) : truth'[r] = "filtered"
                    \/ (verdict'[p] = "passed") <=>
                           \/ config'[p].entries = <<>>
                           \/ Holds(config'[p].condition, {Value(e)' : e \in Range(config'[p].entries)})
  BY DEF VerdictIsJoin
<1>1. UNCHANGED <<config, truth>>
  BY DEF Next, RunFails, CheckFails, Terminated, Finished, RunBegins, RunSkipped, CheckDisabled,
         CheckNotTriggered, CheckHandled, CheckEnds, vars
<1>2. {Value(e)' : e \in Range(config'[p].entries)} = {Value(e) : e \in Range(config[p].entries)}
  BY <1>1 DEF Value
<1>3. CASE verdict'[p] = verdict[p]
  BY <1>1, <1>2, <1>3 DEF VerdictIsJoin
<1>4. CASE verdict'[p] # verdict[p]
  <2>1. CheckHandled /\ p = Place
    <3>1. CheckHandled \/ UNCHANGED verdict
      BY DEF Next, RunFails, CheckFails, Terminated, Finished, RunBegins, RunSkipped, CheckDisabled,
             CheckNotTriggered, vars
    <3>2. verdict \in [Places -> {"none", "passed", "failed"}]
      BY DEF TypesInv, TypeOK
    <3> QED BY <1>4, <3>1, <3>2 DEF CheckHandled
  <2>2. verdict'[p] = IF Triggered(config[p]) THEN "passed" ELSE "failed"
    <3>1. verdict \in [Places -> {"none", "passed", "failed"}]
      BY DEF TypesInv, TypeOK
    <3>2. verdict' = [verdict EXCEPT ![p] = IF Triggered(config[p]) THEN "passed" ELSE "failed"]
      BY <2>1 DEF CheckHandled
    <3> QED BY <3>1, <3>2
  <2> QED BY <1>1, <1>2, <2>2, VerdictOfCheck
<1> QED
  BY <1>3, <1>4

\* A check whose rules' filters pass is triggered exactly if its rules, joined by
\* its condition, are: however many checks share rules, and whichever are left out
\* because the verdict is clear, for any checks, rule sets and results.
THEOREM VerdictCorrect == Spec => []VerdictIsJoin
<1> QED
  BY TypesInit, TypesStep, VerdictInit, VerdictStep, PTL DEF Spec

(***************************************************************************)
(* The documented order.                                                   *)
(***************************************************************************)

\* A check that is not enabled has a post behavior that is one: Run.handle would
\* come to it again and again.
DisabledValid ==
    \A cfg \in Configs : \A p \in Places : ~cfg[p].enabled => cfg[p].postFail.kind # "invalid"

\* All runs from r on have been passed over, up to the one that is next.
Passed(r) == r <= runIndex /\ r .. runIndex - 1 \subseteq passedOver

\* Where the Manager and the Run are follows from the last check's post behavior.
OrderInv ==
    /\ postBehavior.kind # "invalid"
    /\ pc = "runs" /\ gotoContext # None =>
           postBehavior = gotoContext /\ gotoContext.kind \in {"gotoRun", "goto"} /\ passedOver = {}
    /\ pc = "runs" /\ gotoContext = None =>
           \/ postBehavior.kind = "nextRun" /\ Passed(at[1] + 1)
           \/ /\ postBehavior.kind = "next" /\ at \in Places
              /\ at[2] >= CheckCount[at[1]] /\ Passed(at[1] + 1)
           \/ postBehavior.kind = "gotoRun" /\ Passed(postBehavior.run)
           \/ postBehavior.kind = "goto" /\ postBehavior.run \in passedOver
                                         /\ Passed(postBehavior.run + 1)
    /\ pc = "checks" /\ Place \in Places => Place \in Documented!Follow(at, postBehavior)

LEMMA OrderInit == Init => OrderInv
<1> SUFFICES ASSUME Init PROVE OrderInv
  OBVIOUS
<1>1. gotoContext = None \/ gotoContext.kind \in {"gotoRun", "goto"}
  <2>1. gotoContext = None \/ (gotoContext \in Gotos /\ gotoContext.kind # "gotoIn")
    BY ConstAssumption DEF Init
  <2> QED BY <2>1 DEF Gotos
<1>2. /\ NextRun.kind = "nextRun" /\ at[1] = 0 /\ runIndex = 1 /\ passedOver = {} /\ pc = "runs"
      /\ postBehavior = IF gotoContext = None THEN NextRun ELSE gotoContext
  BY DEF Init, NextRun, None
<1>3. Passed(1)
  BY <1>2 DEF Passed
<1> QED
  BY <1>1, <1>2, <1>3 DEF OrderInv

\* What follows a check p with post behavior b.
LEMMA Follows ==
    ASSUME NEW p, NEW b
    PROVE  /\ b.kind = "next" /\ p[2] < CheckCount[p[1]] =>
                  Documented!Follow(p, b) = {<<p[1], p[2] + 1>>}
           /\ b.kind = "nextRun" \/ (b.kind = "next" /\ ~ (p[2] < CheckCount[p[1]])) =>
                  Documented!Follow(p, b) = Documented!Enter(p[1] + 1)
           /\ b.kind = "gotoRun" => Documented!Follow(p, b) = Documented!Enter(b.run)
           /\ b.kind = "gotoIn" => Documented!Follow(p, b) = {<<p[1], b.check>>} \cap Places
           /\ b.kind = "goto" =>
                  Documented!Follow(p, b) = IF b.run \in passedOver THEN Documented!Enter(b.run + 1)
                                            ELSE {<<b.run, b.check>>} \cap Places
<1>1. Documented!Places = Places
  BY DEF Documented!Places, Places, Documented!RunIndexes, RunIndexes
<1> QED
  BY <1>1 DEF Documented!Follow

\* The first check of the run that is next, if all before it were passed over.
LEMMA Enters ==
    ASSUME NEW r \in Nat, Passed(r), runIndex \in Nat, <<runIndex, 1>> \in Places
    PROVE  <<runIndex, 1>> \in Documented!Enter(r)
<1>1. Documented!Places = Places
  BY DEF Documented!Places, Places, Documented!RunIndexes, RunIndexes
<1> QED
  BY <1>1 DEF Documented!Enter, Passed

\* The Manager begins a run, or passes it over.
LEMMA OrderRuns ==
    ASSUME TypesInv, OrderInv, RunBegins \/ RunSkipped
    PROVE  OrderInv'
<1>1. /\ pc = "runs" /\ RunAt \in RunIndexes /\ runIndex \in Nat
      /\ RunAt = IF gotoContext = None THEN runIndex ELSE gotoContext.run
      /\ UNCHANGED <<at, postBehavior>> /\ postBehavior \in Behavior
      /\ postBehavior.run \in Nat /\ at[1] \in Nat /\ at[2] \in Nat
  <2>1. at = <<0, 0>> \/ (at[1] \in Nat /\ at[2] \in Nat)
    <3>1. at \in Places => at[1] \in RunIndexes /\ at[2] \in 1 .. CheckCount[at[1]]
      BY PlaceIs
    <3> QED BY <3>1 DEF TypesInv, TypeOK, RunIndexes
  <2> QED BY <2>1 DEF RunBegins, RunSkipped, RunAt, TypesInv, TypeOK, RunIndexes, Behavior
<1>2. RunAt \in Nat
  BY <1>1 DEF RunIndexes
<1>3. gotoContext # None => postBehavior = gotoContext /\ gotoContext.kind \in {"gotoRun", "goto"}
                            /\ passedOver = {} /\ RunAt = postBehavior.run
  BY <1>1 DEF OrderInv
<1>4. gotoContext = None =>
          \/ postBehavior.kind = "nextRun" /\ Passed(at[1] + 1)
          \/ /\ postBehavior.kind = "next" /\ at \in Places
             /\ at[2] >= CheckCount[at[1]] /\ Passed(at[1] + 1)
          \/ postBehavior.kind = "gotoRun" /\ Passed(postBehavior.run)
          \/ postBehavior.kind = "goto" /\ postBehavior.run \in passedOver
                                        /\ Passed(postBehavior.run + 1)
  BY <1>1 DEF OrderInv
<1>5. CASE RunBegins
  <2>1. /\ pc' = "checks" /\ runIndex' = RunAt /\ checkIndex' = 1 /\ UNCHANGED passedOver
        /\ gotoContext' = IF gotoContext.kind = "goto" THEN gotoContext ELSE None
        /\ CheckCount[RunAt] > 0
    BY <1>5 DEF RunBegins
  <2>2. Documented!Follow(at, postBehavior)' = Documented!Follow(at, postBehavior)
    BY <1>1, <2>1 DEF Documented!Follow, Documented!Enter
  <2>3. None.kind = "next"
    BY DEF None
  <2>4. Place' = <<RunAt, IF gotoContext.kind = "goto" THEN gotoContext.check ELSE 1>>
    <3>1. gotoContext.kind = "goto" => gotoContext' # None
      BY <2>1, <2>3
    <3>2. gotoContext.kind # "goto" => gotoContext' = None
      BY <2>1
    <3> QED BY <2>1, <3>1, <3>2 DEF Place
  <2>5. ASSUME Place' \in Places PROVE Place' \in Documented!Follow(at, postBehavior)
    <3>1. CASE gotoContext.kind = "goto"
      <4>1. postBehavior = gotoContext /\ passedOver = {} /\ Place' = <<postBehavior.run, postBehavior.check>>
        BY <1>3, <2>3, <2>4, <3>1
      <4> QED BY <2>5, <3>1, <4>1, Follows
    <3>2. CASE gotoContext # None /\ gotoContext.kind # "goto"
      <4>1. /\ postBehavior.kind = "gotoRun" /\ RunAt = postBehavior.run
            /\ Place' = <<RunAt, 1>>
        BY <1>3, <2>4, <3>2
      <4>2. Documented!Places = Places
        BY DEF Documented!Places, Places, Documented!RunIndexes, RunIndexes
      <4>3. Place' \in Documented!Enter(postBehavior.run)
        BY <1>2, <2>5, <4>1, <4>2 DEF Documented!Enter
      <4> QED BY <4>1, <4>3, Follows
    <3>3. CASE gotoContext = None
      <4>1. Place' = <<runIndex, 1>>
        BY <1>1, <2>3, <2>4, <3>3
      <4>2. \A r \in Nat : Passed(r) => Place' \in Documented!Enter(r)
        BY <1>1, <2>5, <4>1, Enters
      <4>3. at[1] + 1 \in Nat /\ postBehavior.run + 1 \in Nat
        BY <1>1
      <4>4. at[2] >= CheckCount[at[1]] /\ at[1] \in RunIndexes => ~ (at[2] < CheckCount[at[1]])
        BY <1>1, ConstAssumption DEF RunIndexes
      <4>5. CASE postBehavior.kind = "next"
        <5>1. at \in Places /\ at[2] >= CheckCount[at[1]] /\ Passed(at[1] + 1)
          BY <1>4, <3>3, <4>5
        <5>2. ~ (at[2] < CheckCount[at[1]])
          BY <4>4, <5>1, PlaceIs
        <5> QED BY <4>2, <4>3, <4>5, <5>1, <5>2, Follows
      <4>6. CASE postBehavior.kind = "nextRun"
        BY <1>4, <3>3, <4>2, <4>3, <4>6, Follows
      <4>7. CASE postBehavior.kind = "gotoRun"
        BY <1>1, <1>4, <3>3, <4>2, <4>7, Follows
      <4>8. CASE postBehavior.kind = "goto"
        BY <1>4, <3>3, <4>2, <4>3, <4>8, Follows
      <4> QED BY <1>4, <3>3, <4>5, <4>6, <4>7, <4>8
    <3> QED BY <3>1, <3>2, <3>3
  <2> QED BY <1>1, <2>1, <2>2, <2>5 DEF OrderInv
<1>6. CASE RunSkipped
  <2>1. /\ runIndex' = RunAt + 1 /\ gotoContext' = None /\ passedOver' = passedOver \cup {RunAt}
        /\ UNCHANGED pc
    BY <1>6 DEF RunSkipped
  <2> HIDE DEF RunAt
  <2>2. CASE gotoContext = None
    <3>1. RunAt = runIndex
      BY <1>1, <2>2
    <3>2. \A r \in Nat : Passed(r) => Passed(r)'
      BY <1>1, <2>1, <3>1 DEF Passed
    <3>3. at[1] + 1 \in Nat /\ postBehavior.run + 1 \in Nat
      BY <1>1
    <3>4. Passed(at[1] + 1)' <=> (at[1] + 1 <= runIndex' /\ at[1] + 1 .. runIndex' - 1 \subseteq passedOver')
      BY <1>1 DEF Passed
    <3>5. Passed(at[1] + 1) => Passed(at[1] + 1)'
      BY <1>1, <3>2, <3>3, <3>4 DEF Passed
    <3>6. Passed(postBehavior.run) => Passed(postBehavior.run)'
      BY <1>1, <3>2 DEF Passed
    <3>7. Passed(postBehavior.run + 1) => Passed(postBehavior.run + 1)'
      BY <1>1, <3>2, <3>3 DEF Passed
    <3> QED BY <1>1, <1>4, <2>1, <2>2, <3>5, <3>6, <3>7 DEF OrderInv
  <2>3. CASE gotoContext # None
    <3>1. postBehavior.kind \in {"gotoRun", "goto"} /\ RunAt = postBehavior.run
      BY <1>3, <2>3
    <3>2. /\ Passed(postBehavior.run)' /\ Passed(postBehavior.run + 1)'
          /\ postBehavior'.run \in passedOver'
      BY <1>1, <1>2, <2>1, <3>1 DEF Passed
    <3> QED BY <1>1, <2>1, <3>1, <3>2 DEF OrderInv
  <2> QED BY <2>2, <2>3
<1> QED
  BY <1>5, <1>6

\* A check ends.
LEMMA OrderChecks ==
    ASSUME TypesInv, OrderInv, pc = "checks", NEW p, p = Place, p \in Places,
           NEW b \in Behavior, b.kind # "invalid", CheckEnds(b)
    PROVE  OrderInv' /\ Documented!RunCheck
<1>1. /\ p = <<runIndex, p[2]>> /\ p[1] = runIndex
      /\ runIndex \in Nat /\ p[2] \in Nat /\ CheckCount[p[1]] \in Nat
  <2>1. p[1] = runIndex
    BY DEF Place
  <2> QED BY <2>1, PlaceIs DEF RunIndexes
<1>2. /\ Continue(p, b) /\ at' = p /\ postBehavior' = b /\ passedOver' = {}
  BY DEF CheckEnds
<1>3. p \in Documented!Follow(at, postBehavior)
  BY DEF OrderInv
<1>4. b.kind \in {"next", "nextRun", "stop", "gotoRun", "gotoIn", "goto"}
  BY DEF Behavior
<1>5. None.kind = "next"
  BY DEF None
<1>6. CASE RunEnds(b, running \cup {p}) /\ ~ (b.kind = "next" /\ p[2] < CheckCount[p[1]])
           /\ b.kind # "gotoIn"
  <2>1. /\ pc' = IF b.kind = "stop" THEN "done" ELSE "runs"
        /\ gotoContext' = IF b.kind \in {"gotoRun", "goto"} THEN b ELSE None
        /\ runIndex' = runIndex + 1
    BY <1>6 DEF RunEnds, Stops
  <2>2. Passed(at[1] + 1)'
    BY <1>1, <1>2, <2>1 DEF Passed
  <2>3. OrderInv'
    <3>1. b.kind = "next" => at' \in Places /\ at'[2] >= CheckCount[at'[1]]
      BY <1>1, <1>2, <1>6
    <3>2. CASE b.kind \in {"gotoRun", "goto"}
      <4>1. gotoContext' = b /\ pc' = "runs"
        BY <2>1, <3>2
      <4>2. b # None
        BY <1>5, <3>2
      <4> QED BY <1>2, <3>2, <4>1, <4>2 DEF OrderInv
    <3>3. CASE b.kind \in {"next", "nextRun"}
      <4>1. gotoContext' = None /\ pc' = "runs"
        BY <2>1, <3>3
      <4> QED BY <1>2, <2>2, <3>1, <3>3, <4>1 DEF OrderInv
    <3>4. CASE b.kind = "stop"
      <4>1. pc' = "done"
        BY <2>1, <3>4
      <4> QED BY <1>2, <3>4, <4>1 DEF OrderInv
    <3> QED BY <1>4, <1>6, <3>2, <3>3, <3>4
  <2>4. Documented!RunCheck
    BY <1>2, <1>3, <2>1 DEF Documented!RunCheck
  <2> QED BY <2>3, <2>4
<1>7. CASE /\ (b.kind = "next" /\ p[2] < CheckCount[p[1]]) \/ b.kind = "gotoIn"
           /\ checkIndex' = IF b.kind = "next" THEN After(p) ELSE p[2]
           /\ gotoContext' = IF b.kind = "gotoIn" THEN b ELSE None
           /\ UNCHANGED <<pc, runIndex>>
  <2>1. /\ Documented!Follow(at, postBehavior)' = {<<p[1], p[2] + 1>>} \/ b.kind = "gotoIn"
        /\ Documented!Follow(at, postBehavior)' = {<<p[1], b.check>>} \cap Places \/ b.kind # "gotoIn"
    <3>1. Documented!Places = Places
      BY DEF Documented!Places, Places, Documented!RunIndexes, RunIndexes
    <3> QED BY <1>2, <1>7, <3>1 DEF Documented!Follow
  <2>2. CASE b.kind = "gotoIn"
    <3>1. Place' = <<p[1], b.check>>
      BY <1>1, <1>5, <1>7, <2>2 DEF Place
    <3>2. OrderInv'
      BY <1>2, <1>7, <2>1, <2>2, <3>1 DEF OrderInv
    <3> QED BY <1>2, <1>3, <1>7, <2>2, <3>2 DEF Documented!RunCheck
  <2>3. CASE b.kind = "next"
    <3>1. Place' = <<p[1], p[2] + 1>>
      BY <1>1, <1>7, <2>3 DEF Place, After
    <3>2. OrderInv'
      BY <1>2, <1>7, <2>1, <2>3, <3>1 DEF OrderInv
    <3> QED BY <1>2, <1>3, <1>7, <2>3, <3>2 DEF Documented!RunCheck
  <2> QED BY <1>7, <2>2, <2>3
<1>8. \/ b.kind = "next" /\ p[2] < CheckCount[p[1]]
      \/ b.kind = "gotoIn"
      \/ ~ (b.kind = "next" /\ p[2] < CheckCount[p[1]]) /\ b.kind # "gotoIn"
  OBVIOUS
<1> QED
  BY <1>2, <1>6, <1>7, <1>8 DEF Continue

LEMMA OrderStep ==
    DisabledValid /\ TypesInv /\ OrderInv /\ [Next]_vars
        => OrderInv' /\ [Documented!Next]_(Documented!vars)
<1> SUFFICES ASSUME DisabledValid, TypesInv, OrderInv, [Next]_vars
             PROVE  OrderInv' /\ [Documented!Next]_(Documented!vars)
  OBVIOUS
<1>1. ASSUME pc \in {"runs", "checks"}, pc' \in {"done", "failed"},
             UNCHANGED <<at, postBehavior, passedOver>>
      PROVE  OrderInv' /\ Documented!Next
  BY <1>1 DEF OrderInv, Documented!Next, Documented!End
<1>2. CASE RunFails \/ CheckFails \/ Finished
  BY <1>1, <1>2 DEF RunFails, CheckFails, Terminated, Finished
<1>3. CASE RunBegins
  <2>1. UNCHANGED Documented!vars
    BY <1>3 DEF RunBegins, Documented!vars
  <2> QED BY <1>3, <2>1, OrderRuns
<1>4. CASE RunSkipped
  <2>1. Documented!PassOver
    BY <1>4 DEF RunSkipped, Documented!PassOver, Documented!RunIndexes, RunIndexes
  <2> QED BY <1>4, <2>1, OrderRuns DEF Documented!Next
<1>5. ASSUME NEW enabled, ComesTo(enabled)
      PROVE  /\ pc = "checks" /\ Place \in Places /\ config[Place].enabled = enabled
             /\ config[Place].postTrigger \in Behavior /\ config[Place].postFail \in Behavior
  <2>1. pc = "checks" /\ Place \in Places /\ config \in [Places -> Check]
    BY <1>5 DEF ComesTo, TypesInv, TypeOK
  <2>2. config[Place] \in Check
    BY <2>1, RulesOfCheck
  <2> QED BY <1>5, <2>1, <2>2, BehaviorsOfCheck DEF ComesTo
<1>6. ASSUME NEW enabled, ComesTo(enabled), NEW b \in Behavior, b.kind # "invalid", CheckEnds(b)
      PROVE  OrderInv' /\ Documented!Next
  BY <1>5, <1>6, OrderChecks DEF Documented!Next
<1>7. CASE CheckDisabled
  <2> DEFINE b == config[Place].postFail
  <2>1. ComesTo(FALSE) /\ CheckEnds(b)
    BY <1>7 DEF CheckDisabled
  <2>2. b \in Behavior /\ b.kind # "invalid"
    <3>1. config \in Configs /\ Place \in Places /\ config[Place].enabled = FALSE /\ b \in Behavior
      BY <1>5, <2>1 DEF TypesInv
    <3> QED BY <3>1 DEF DisabledValid
  <2> HIDE DEF b
  <2> QED BY <1>6, <2>1, <2>2
<1>8. CASE CheckNotTriggered
  <2> DEFINE b == config[Place].postFail
  <2>1. ComesTo(TRUE) /\ CheckEnds(b) /\ b.kind # "invalid" /\ b \in Behavior
    BY <1>5, <1>8 DEF CheckNotTriggered
  <2> HIDE DEF b
  <2> QED BY <1>6, <2>1
<1>9. CASE CheckHandled
  <2> DEFINE check == config[Place]
             b == IF Triggered(check) THEN check.postTrigger ELSE check.postFail
  <2>1. ComesTo(TRUE) /\ CheckEnds(b) /\ b.kind # "invalid" /\ b \in Behavior
    BY <1>5, <1>9 DEF CheckHandled
  <2> HIDE DEF b
  <2> QED BY <1>6, <2>1
<1>10. CASE UNCHANGED vars
  <2>1. UNCHANGED Documented!vars
    BY <1>10 DEF vars, Documented!vars
  <2>2. OrderInv'
    BY <1>10 DEF vars, OrderInv, Passed, Place, Documented!Follow, Documented!Enter
  <2> QED BY <2>1, <2>2
<1> QED
  BY <1>2, <1>3, <1>4, <1>7, <1>8, <1>9, <1>10 DEF Next

\* The checks are run in the order that flowControl.md documents: after each one
\* comes what its post behavior names, past the runs that are passed over, for
\* any runs and checks, gotos between them, and whatever fails.
THEOREM OrderDocumented == DisabledValid /\ Spec => FollowsDocumentation
<1> SUFFICES ASSUME DisabledValid PROVE Spec => FollowsDocumentation
  OBVIOUS
<1>1. Init => Documented!Init
  <2> SUFFICES ASSUME Init PROVE Documented!Init
    OBVIOUS
  <2>1. gotoContext = None \/ gotoContext.kind \in {"gotoRun", "goto"}
    <3>1. gotoContext = None \/ (gotoContext \in Gotos /\ gotoContext.kind # "gotoIn")
      BY ConstAssumption DEF Init
    <3> QED BY <3>1 DEF Gotos
  <2>2. NextRun.kind = "nextRun"
    BY DEF NextRun, None
  <2> QED BY <2>1, <2>2 DEF Init, Documented!Init
<1>2. TypesInv /\ OrderInv /\ [Next]_vars => OrderInv' /\ [Documented!Next]_(Documented!vars)
  BY OrderStep
<1> QED
  BY <1>1, <1>2, TypesInit, TypesStep, OrderInit, PTL
  DEF Spec, FollowsDocumentation, Documented!Spec

(***************************************************************************)
(* No check is run again.                                                  *)
(***************************************************************************)

LEMMA RunOnceInit == Init => RunOnce
BY DEF Init, RunOnce

\* A check that ends, wherever its post behavior leads, was not run before.
LEMMA RunOnceCheckEnds ==
    ASSUME RunOnce, MayRun(Place), NEW b, CheckEnds(b)
    PROVE  RunOnce'
<1> DEFINE p == Place
<1>1. Continue(p, b)
  BY DEF CheckEnds
<1>2. p \notin ran
  BY DEF MayRun
<1> HIDE DEF p
<1>3. CASE RunEnds(b, running \cup {p})
  BY <1>3 DEF RunEnds, RunOnce
<1>4. CASE running' = running \cup {p} /\ ran' = ran
  BY <1>2, <1>4 DEF RunOnce
<1> QED
  BY <1>1, <1>3, <1>4 DEF Continue

LEMMA RunOnceNext == RunOnce /\ [Next]_vars => RunOnce'
<1> SUFFICES ASSUME RunOnce, [Next]_vars
             PROVE  RunOnce'
  OBVIOUS
<1>1. CASE RunFails \/ CheckFails
  BY <1>1 DEF RunFails, CheckFails, Terminated, RunOnce
<1>2. CASE Finished
  BY <1>2 DEF Finished, RunOnce
<1>3. CASE RunBegins
  BY <1>3 DEF RunBegins, RunOnce
<1>4. CASE RunSkipped
  BY <1>4 DEF RunSkipped, RunOnce
<1>5. CASE CheckDisabled
  BY <1>5, RunOnceCheckEnds DEF CheckDisabled, ComesTo
<1>6. CASE CheckNotTriggered
  BY <1>6, RunOnceCheckEnds DEF CheckNotTriggered, ComesTo
<1>7. CASE CheckHandled
  <2> DEFINE check == config[Place]
             b == IF Triggered(check) THEN check.postTrigger ELSE check.postFail
  <2>1. MayRun(Place) /\ CheckEnds(b)
    BY <1>7 DEF CheckHandled, ComesTo
  <2> HIDE DEF b
  <2> QED
    BY <2>1, RunOnceCheckEnds
<1>8. CASE UNCHANGED vars
  BY <1>8 DEF vars, RunOnce
<1> QED
  BY <1>1, <1>2, <1>3, <1>4, <1>5, <1>6, <1>7, <1>8 DEF Next

\* No check is run a second time by a later pass through its run, for any config,
\* any results of its rules and any goto.
THEOREM RunOnceCorrect == Spec => []RunOnce
<1>1. RunOnce /\ [Next]_vars => RunOnce'
  BY RunOnceNext
<1> QED
  BY RunOnceInit, <1>1, PTL DEF Spec
=============================================================================
