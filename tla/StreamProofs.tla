----------------------------- MODULE StreamProofs -----------------------------
(***************************************************************************)
(* Lemmas about Stream: what the operators of a poll return, for listings  *)
(* of any length, pages of any size and any number of items.  The theorems *)
(* about the managers that use a stream rest on them.                      *)
(***************************************************************************)
EXTENDS Stream, SequenceTheorems, WellFoundedInduction, TLAPS

(***************************************************************************)
(* Natural numbers.                                                        *)
(***************************************************************************)

\* A nonempty set of naturals has a least element.
LEMMA LeastNat ==
    ASSUME NEW I \in SUBSET Nat, I # {}
    PROVE  \E i \in I : \A j \in I : i <= j
<1> DEFINE R == {p \in Nat \X Nat : p[1] < p[2]}
<1>1. OpToRel(<, Nat) = R
  BY DEF OpToRel
<1>2. IsWellFoundedOn(R, Nat)
  BY <1>1, NatLessThanWellFounded
<1>3. PICK i \in I : \A j \in I : ~ (<<j, i>> \in R)
  <2> HIDE DEF R
  <2> QED
    BY <1>2, WFMin
<1>4. \A j \in Nat : j < i => <<j, i>> \in R
  OBVIOUS
<1>5. ASSUME NEW j \in I PROVE i <= j
  <2> HIDE DEF R
  <2>1. i \in Nat /\ j \in Nat /\ ~ (j < i)
    BY <1>3, <1>4
  <2> QED
    BY <2>1
<1> QED
  BY <1>5

\* A nonempty set of naturals with a bound has a greatest element.
LEMMA GreatestNat ==
    ASSUME NEW n \in Nat, NEW I \in SUBSET (0 .. n), I # {}
    PROVE  \E i \in I : \A j \in I : j <= i
<1> DEFINE J == {n - i : i \in I}
<1>1. J \in SUBSET Nat /\ J # {}
  <2>1. \A i \in I : n - i \in Nat
    OBVIOUS
  <2> QED BY <2>1
<1>2. PICK j \in J : \A k \in J : j <= k
  <2> HIDE DEF J
  <2> QED BY <1>1, LeastNat
<1>3. PICK i \in I : j = n - i
  BY <1>2
<1>4. \A k \in I : n - i <= n - k
  BY <1>2, <1>3
<1> QED
  BY <1>4

\* Induction up to n, for a set in place of a predicate.
LEMMA InductionUpTo ==
    ASSUME NEW n \in Nat, NEW I,
           0 \in I,
           \A k \in 0 .. n - 1 : k \in I => k + 1 \in I
    PROVE  0 .. n \subseteq I
<1> SUFFICES ASSUME ~ (0 .. n \subseteq I) PROVE FALSE
  OBVIOUS
<1> DEFINE Bad == (0 .. n) \ I
<1>1. Bad \in SUBSET Nat /\ Bad # {}
  OBVIOUS
<1>2. PICK m \in Bad : \A j \in Bad : m <= j
  <2> HIDE DEF Bad
  <2> QED BY <1>1, LeastNat
<1>3. m # 0 /\ m - 1 \in 0 .. n - 1
  BY <1>2
<1>4. m - 1 \in I
  BY <1>2, <1>3
<1>5. m - 1 + 1 \in I
  BY <1>3, <1>4
<1> QED
  BY <1>2, <1>3, <1>5

(***************************************************************************)
(* Sequences.                                                              *)
(***************************************************************************)

\* The elements of sequences that operators build.
LEMMA RangeOfAppend ==
    ASSUME NEW S, NEW s \in Seq(S), NEW x \in S
    PROVE  Range(Append(s, x)) = Range(s) \cup {x}
<1>1. /\ DOMAIN Append(s, x) = 1 .. Len(s) + 1
      /\ DOMAIN s = 1 .. Len(s)
      /\ Len(s) \in Nat
  OBVIOUS
<1>2. Append(s, x)[Len(s) + 1] = x /\ \A j \in DOMAIN s : Append(s, x)[j] = s[j]
  OBVIOUS
<1>3. 1 .. Len(s) + 1 = 1 .. Len(s) \cup {Len(s) + 1}
  BY <1>1
<1> HIDE DEF Range
<1>4. \A y : y \in Range(Append(s, x)) <=> \E j \in 1 .. Len(s) + 1 : y = Append(s, x)[j]
  BY <1>1 DEF Range
<1>5. \A y : y \in Range(s) <=> \E j \in 1 .. Len(s) : y = s[j]
  BY <1>1 DEF Range
<1> QED
  BY <1>1, <1>2, <1>3, <1>4, <1>5

LEMMA RangeOfConcat ==
    ASSUME NEW S, NEW s \in Seq(S), NEW t \in Seq(S)
    PROVE  s \o t \in Seq(S) /\ Range(s \o t) = Range(s) \cup Range(t)
<1>1. s \o t \in Seq(S)
  OBVIOUS
<1> QED
  BY <1>1, RangeConcatenation

LEMMA RangeOfCons ==
    ASSUME NEW S, NEW s \in Seq(S), NEW x \in S
    PROVE  Range(<<x>> \o s) = {x} \cup Range(s)
<1> DEFINE one == <<x>>
<1>1. one \in Seq(S) /\ Range(one) = {x}
  BY DEF Range
<1> HIDE DEF one
<1>2. Range(one \o s) = {x} \cup Range(s)
  BY <1>1, RangeOfConcat
<1> QED
  BY <1>2 DEF one

\* A part of a sequence.
LEMMA PartOf ==
    ASSUME NEW S, NEW s \in Seq(S), NEW a \in Nat \ {0}, NEW b \in Nat, b <= Len(s)
    PROVE  SubSeq(s, a, b) \in Seq(S) /\ Range(SubSeq(s, a, b)) \subseteq Range(s)
<1>1. DOMAIN s = 1 .. Len(s) /\ Len(s) \in Nat
  OBVIOUS
<1>2. CASE a > b
  <2>1. SubSeq(s, a, b) = <<>>
    BY <1>2
  <2> QED BY <2>1 DEF Range
<1>3. CASE a <= b
  <2>1. SubSeq(s, a, b) \in Seq(S) /\ DOMAIN SubSeq(s, a, b) = 1 .. b - a + 1
    BY <1>1, <1>3
  <2>2. \A j \in 1 .. b - a + 1 : SubSeq(s, a, b)[j] = s[a + j - 1] /\ a + j - 1 \in 1 .. Len(s)
    BY <1>1, <1>3
  <2> QED BY <1>1, <2>1, <2>2 DEF Range
<1> QED
  BY <1>2, <1>3

(***************************************************************************)
(* Only: a subsequence.                                                    *)
(***************************************************************************)

\* f is what Only defines by recursion, on the first n of the items.
Recursive(f, n, items, kept) ==
    f = [k \in 0 .. n |->
            IF k = 0 THEN <<>>
            ELSE IF items[k] \in kept THEN Append(f[k - 1], items[k])
            ELSE f[k - 1]]

\* Such a function exists.
LEMMA RecursiveExists ==
    ASSUME NEW n \in Nat, NEW items, NEW kept
    PROVE  \E f : Recursive(f, n, items, kept)
<1> DEFINE I == {k \in 0 .. n : \E f : Recursive(f, k, items, kept)}
<1>1. 0 \in I
  <2>1. Recursive([k \in 0 .. 0 |-> <<>>], 0, items, kept)
    BY DEF Recursive
  <2> QED BY <2>1
<1>2. ASSUME NEW k \in 0 .. n - 1, k \in I PROVE k + 1 \in I
  <2>1. PICK f : Recursive(f, k, items, kept)
    BY <1>2
  <2> DEFINE g == [j \in 0 .. k + 1 |->
                      IF j <= k THEN f[j]
                      ELSE IF items[j] \in kept THEN Append(f[j - 1], items[j])
                      ELSE f[j - 1]]
  <2>2. \A j \in 0 .. k : f[j] = IF j = 0 THEN <<>>
                                 ELSE IF items[j] \in kept THEN Append(f[j - 1], items[j])
                                 ELSE f[j - 1]
    BY <2>1 DEF Recursive
  <2>3. \A j \in 0 .. k + 1 : j # 0 => g[j - 1] = f[j - 1]
    OBVIOUS
  <2>4. \A j \in 0 .. k + 1 : g[j] = IF j = 0 THEN <<>>
                                 ELSE IF items[j] \in kept THEN Append(g[j - 1], items[j])
                                 ELSE g[j - 1]
    BY <2>2, <2>3
  <2>5. g = [j \in 0 .. k + 1 |-> g[j]]
    OBVIOUS
  <2>6. Recursive(g, k + 1, items, kept)
    <3> HIDE DEF g
    <3> QED BY <2>4, <2>5 DEF Recursive
  <2> QED BY <2>6
<1>3. 0 .. n \subseteq I
  <2> HIDE DEF I
  <2> QED BY <1>1, <1>2, InductionUpTo
<1> QED
  BY <1>3

\* No item is followed by a newer one, or by itself.
Descending(s) == \A j, k \in DOMAIN s : j < k => s[k] < s[j]

\* No item of kept is there twice.
DistinctIn(s, kept) == \A j, k \in DOMAIN s : j < k /\ s[j] = s[k] => s[j] \notin kept

\* No item is there twice.
Distinct(s) == \A j, k \in DOMAIN s : j < k => s[j] # s[k]

\* Only returns a sequence of the items that are in kept and of no others; what
\* descends still does, and what is kept once is there once.
LEMMA OnlyKept ==
    ASSUME NEW items \in Seq(Items), NEW kept
    PROVE  /\ Only(items, kept) \in Seq(Items)
           /\ Range(Only(items, kept)) = Range(items) \cap kept
           /\ Descending(items) => Descending(Only(items, kept))
           /\ DistinctIn(items, kept) => Distinct(Only(items, kept))
<1> DEFINE n == Len(items)
           f == CHOOSE f : Recursive(f, n, items, kept)
           Upto(k) == {items[j] : j \in 1 .. k} \cap kept
           I == {k \in 0 .. n : /\ f[k] \in Seq(Items)
                                /\ Range(f[k]) = Upto(k)
                                /\ Descending(items) => Descending(f[k])
                                /\ DistinctIn(items, kept) => Distinct(f[k])}
<1>1. n \in Nat
  OBVIOUS
<1>2. Recursive(f, n, items, kept)
  <2> HIDE DEF n
  <2> QED BY <1>1, RecursiveExists
<1>3. Only(items, kept) = f[n]
  BY DEF Only, Recursive
<1> HIDE DEF f
<1>4. f[0] = <<>>
  <2>1. 0 \in 0 .. n
    BY <1>1
  <2> HIDE DEF n
  <2> QED BY <1>2, <2>1 DEF Recursive
<1>5. ASSUME NEW k \in 1 .. n
      PROVE  f[k] = IF items[k] \in kept THEN Append(f[k - 1], items[k]) ELSE f[k - 1]
  <2>1. k \in 0 .. n /\ k # 0
    BY <1>1
  <2> HIDE DEF n
  <2> QED BY <1>2, <2>1 DEF Recursive
<1>6. 0 \in I
  <2>1. Range(f[0]) = {} /\ Descending(f[0]) /\ Distinct(f[0]) /\ f[0] \in Seq(Items)
    BY <1>4 DEF Range, Descending, Distinct
  <2>2. Upto(0) = {} /\ 0 \in 0 .. n
    BY <1>1
  <2> QED BY <2>1, <2>2
<1>7. ASSUME NEW k \in 0 .. n - 1, k \in I PROVE k + 1 \in I
  <2> DEFINE i == items[k + 1]
             s == f[k]
  <2>1. /\ s \in Seq(Items)
        /\ Range(s) = Upto(k)
        /\ Descending(items) => Descending(s)
        /\ DistinctIn(items, kept) => Distinct(s)
    BY <1>7
  <2>2. i \in Items /\ k + 1 \in 0 .. n
    BY <1>1
  <2>3. f[k + 1] = IF i \in kept THEN Append(s, i) ELSE s
    BY <1>1, <1>5
  <2>4. Upto(k + 1) = Upto(k) \cup ({i} \cap kept)
    BY <1>1
  <2>5. CASE i \notin kept
    <3>1. f[k + 1] = s /\ Upto(k + 1) = Upto(k)
      BY <2>3, <2>4, <2>5
    <3> QED BY <2>1, <2>2, <3>1
  <2>6. CASE i \in kept
    <3>1. f[k + 1] = Append(s, i)
      BY <2>3, <2>6
    <3>2. Append(s, i) \in Seq(Items)
      BY <2>1, <2>2
    <3>3. Range(Append(s, i)) = Upto(k) \cup {i}
      BY <2>1, <2>2, RangeOfAppend
    <3>4. ASSUME Descending(items) PROVE Descending(Append(s, i))
      <4>1. \A j \in DOMAIN s : i < s[j]
        <5> SUFFICES ASSUME NEW j \in DOMAIN s PROVE i < s[j]
          OBVIOUS
        <5>1. s[j] \in Upto(k)
          BY <2>1 DEF Range
        <5>2. PICK l \in 1 .. k : s[j] = items[l]
          BY <5>1
        <5> QED BY <1>1, <3>4, <5>2 DEF Descending
      <4>2. \A j \in DOMAIN s : s[j] \in Items
        BY <2>1
      <4>3. Descending(s)
        BY <2>1, <3>4
      <4> HIDE DEF s, i
      <4>4. DOMAIN Append(s, i) = 1 .. Len(s) + 1 /\ DOMAIN s = 1 .. Len(s) /\ Len(s) \in Nat
        BY <2>1, <2>2
      <4>5. Append(s, i)[Len(s) + 1] = i /\ \A j \in DOMAIN s : Append(s, i)[j] = s[j]
        BY <2>1, <2>2
      <4> QED BY <4>1, <4>3, <4>4, <4>5 DEF Descending
    <3>5. ASSUME DistinctIn(items, kept) PROVE Distinct(Append(s, i))
      <4>1. \A j \in DOMAIN s : s[j] # i
        <5> SUFFICES ASSUME NEW j \in DOMAIN s PROVE s[j] # i
          OBVIOUS
        <5>1. s[j] \in Upto(k)
          BY <2>1 DEF Range
        <5>2. PICK l \in 1 .. k : s[j] = items[l]
          BY <5>1
        <5>3. l \in DOMAIN items /\ k + 1 \in DOMAIN items /\ l < k + 1
          BY <1>1
        <5>4. items[l] = items[k + 1] => items[l] \notin kept
          BY <3>5, <5>3 DEF DistinctIn
        <5> QED BY <2>6, <5>2, <5>4
      <4>2. Distinct(s)
        BY <2>1, <3>5
      <4> HIDE DEF s, i
      <4>3. DOMAIN Append(s, i) = 1 .. Len(s) + 1 /\ DOMAIN s = 1 .. Len(s) /\ Len(s) \in Nat
        BY <2>1, <2>2
      <4>4. Append(s, i)[Len(s) + 1] = i /\ \A j \in DOMAIN s : Append(s, i)[j] = s[j]
        BY <2>1, <2>2
      <4> QED BY <4>1, <4>2, <4>3, <4>4 DEF Distinct
    <3> QED BY <2>2, <2>4, <2>6, <3>1, <3>2, <3>3, <3>4, <3>5
  <2> QED BY <2>5, <2>6
<1>8. n \in I
  <2>1. 0 .. n \subseteq I
    <3> HIDE DEF I, n
    <3> QED BY <1>1, <1>6, <1>7, InductionUpTo
  <2>2. n \in 0 .. n
    BY <1>1
  <2> HIDE DEF n, I
  <2> QED BY <2>1, <2>2
<1>9. Upto(n) = Range(items) \cap kept
  BY <1>1 DEF Range
<1> QED
  BY <1>3, <1>8, <1>9

(***************************************************************************)
(* Sequences without repetition.                                           *)
(***************************************************************************)

\* What follows the n-th element of a sequence.
LEMMA RestOf ==
    ASSUME NEW S, NEW s \in Seq(S), NEW n \in Nat, 1 <= n, n <= Len(s)
    PROVE  /\ SubSeq(s, n + 1, Len(s)) \in Seq(S)
           /\ Range(SubSeq(s, n + 1, Len(s))) = {s[k] : k \in n + 1 .. Len(s)}
           /\ Distinct(s) => /\ Distinct(SubSeq(s, n + 1, Len(s)))
                             /\ s[n] \notin Range(SubSeq(s, n + 1, Len(s)))
<1> DEFINE rest == SubSeq(s, n + 1, Len(s))
<1>1. DOMAIN s = 1 .. Len(s) /\ Len(s) \in Nat
  OBVIOUS
<1>2. n = Len(s) \/ n < Len(s)
  OBVIOUS
<1>3. rest \in Seq(S) /\ DOMAIN rest = 1 .. Len(s) - n
  <2>1. CASE n = Len(s)
    BY <1>1, <2>1
  <2>2. CASE n < Len(s)
    BY <1>1, <2>2
  <2> QED BY <1>2, <2>1, <2>2
<1>4. \A j \in 1 .. Len(s) - n : rest[j] = s[n + j]
  <2>1. CASE n = Len(s)
    BY <1>1, <2>1
  <2>2. CASE n < Len(s)
    BY <1>1, <2>2
  <2> QED BY <1>2, <2>1, <2>2
<1> HIDE DEF rest
<1>5. Range(rest) = {s[k] : k \in n + 1 .. Len(s)}
  <2> DEFINE after == {s[k] : k \in n + 1 .. Len(s)}
  <2>1. ASSUME NEW j \in 1 .. Len(s) - n PROVE rest[j] \in after
    <3>1. n + j \in n + 1 .. Len(s)
      BY <1>1
    <3> QED BY <1>4, <3>1
  <2>2. ASSUME NEW k \in n + 1 .. Len(s) PROVE \E j \in 1 .. Len(s) - n : rest[j] = s[k]
    <3>1. k - n \in 1 .. Len(s) - n /\ n + (k - n) = k
      BY <1>1
    <3> QED BY <1>4, <3>1
  <2>3. Range(rest) = {rest[j] : j \in 1 .. Len(s) - n}
    BY <1>3 DEF Range
  <2> QED BY <2>1, <2>2, <2>3
<1>6. ASSUME Distinct(s) PROVE Distinct(rest)
  <2> SUFFICES ASSUME NEW j \in 1 .. Len(s) - n, NEW k \in 1 .. Len(s) - n, j < k
               PROVE  rest[j] # rest[k]
    BY <1>3 DEF Distinct
  <2>1. n + j \in DOMAIN s /\ n + k \in DOMAIN s /\ n + j < n + k
    BY <1>1
  <2>2. s[n + j] # s[n + k]
    BY <1>6, <2>1 DEF Distinct
  <2> QED BY <1>4, <2>2
<1>7. ASSUME Distinct(s) PROVE s[n] \notin Range(rest)
  <2> SUFFICES ASSUME NEW k \in n + 1 .. Len(s) PROVE s[n] # s[k]
    BY <1>5
  <2>1. n \in DOMAIN s /\ k \in DOMAIN s /\ n < k
    BY <1>1
  <2> QED BY <1>7, <2>1 DEF Distinct
<1> QED
  BY <1>3, <1>5, <1>6, <1>7 DEF rest

\* Sequences that share no element.
LEMMA DistinctConcat ==
    ASSUME NEW S, NEW s \in Seq(S), NEW t \in Seq(S),
           Distinct(s), Distinct(t), Range(s) \cap Range(t) = {}
    PROVE  Distinct(s \o t)
<1> DEFINE both == s \o t
<1>1. /\ DOMAIN s = 1 .. Len(s) /\ DOMAIN t = 1 .. Len(t)
      /\ Len(s) \in Nat /\ Len(t) \in Nat
      /\ DOMAIN both = 1 .. Len(s) + Len(t)
  OBVIOUS
<1>2. \A k \in DOMAIN both : both[k] = IF k <= Len(s) THEN s[k] ELSE t[k - Len(s)]
  OBVIOUS
<1>3. /\ \A k \in DOMAIN s : s[k] \in Range(s)
      /\ \A k \in DOMAIN t : t[k] \in Range(t)
  BY DEF Range
<1> HIDE DEF both
<1> SUFFICES ASSUME NEW j \in DOMAIN both, NEW k \in DOMAIN both, j < k
             PROVE  both[j] # both[k]
  BY DEF Distinct, both
<1>4. CASE k <= Len(s)
  <2>1. j \in DOMAIN s /\ k \in DOMAIN s
    BY <1>1, <1>4
  <2> QED BY <1>1, <1>2, <1>4, <2>1 DEF Distinct
<1>5. CASE j <= Len(s) /\ ~ (k <= Len(s))
  <2>1. j \in DOMAIN s /\ k - Len(s) \in DOMAIN t
    BY <1>1, <1>5
  <2>2. s[j] # t[k - Len(s)]
    BY <1>3, <2>1
  <2> QED BY <1>2, <1>5, <2>2
<1>6. CASE ~ (j <= Len(s))
  <2>1. j - Len(s) \in DOMAIN t /\ k - Len(s) \in DOMAIN t /\ j - Len(s) < k - Len(s)
    BY <1>1, <1>6
  <2>2. t[j - Len(s)] # t[k - Len(s)]
    BY <2>1 DEF Distinct
  <2> QED BY <1>1, <1>2, <1>6, <2>2
<1> QED
  BY <1>1, <1>4, <1>5, <1>6

(***************************************************************************)
(* Reddit's listings.                                                      *)
(***************************************************************************)

\* A new item is listed before the others, which are older.
LEMMA PostLists ==
    ASSUME StreamTypeOK, NEW r, Post(r), Range(listing) \subseteq 1 .. posted
    PROVE  /\ Range(listing') = {posted + 1} \cup Range(listing)
           /\ Descending(listing) => Descending(listing')
           /\ Distinct(listing) => Distinct(listing')
<1> DEFINE longer == <<posted + 1>> \o listing
<1>1. /\ listing \in Seq(Items) /\ posted \in Nat /\ posted + 1 \in Items
      /\ listing' = longer
  BY StreamAssumption DEF StreamTypeOK, Post, Items
<1>2. Range(longer) = {posted + 1} \cup Range(listing)
  BY <1>1, RangeOfCons
<1>3. /\ DOMAIN listing = 1 .. Len(listing) /\ Len(listing) \in Nat
      /\ DOMAIN longer = 1 .. Len(listing) + 1
      /\ longer[1] = posted + 1
      /\ \A k \in 2 .. Len(listing) + 1 : longer[k] = listing[k - 1]
  BY <1>1
<1>4. \A k \in DOMAIN listing : listing[k] \in 1 .. posted
  BY DEF Range
<1> HIDE DEF longer
<1>5. ASSUME NEW j \in DOMAIN longer, NEW k \in DOMAIN longer, j < k
      PROVE  /\ Descending(listing) => longer[k] < longer[j]
             /\ Distinct(listing) => longer[j] # longer[k]
  <2>1. k - 1 \in DOMAIN listing /\ longer[k] = listing[k - 1]
    BY <1>3, <1>5
  <2>2. CASE j = 1
    BY <1>1, <1>3, <1>4, <2>1, <2>2
  <2>3. CASE j # 1
    <3>1. j - 1 \in DOMAIN listing /\ longer[j] = listing[j - 1] /\ j - 1 < k - 1
      BY <1>3, <1>5, <2>3
    <3> QED BY <2>1, <3>1 DEF Descending, Distinct
  <2> QED BY <2>2, <2>3
<1> QED
  BY <1>1, <1>2, <1>5 DEF Descending, Distinct

\* What a stream is shown of the listing.
LEMMA ListedItems ==
    ASSUME listing \in Seq(Items), NEW s
    PROVE  /\ Listed(s) \in Seq(Items)
           /\ Range(Listed(s)) = {i \in Range(listing) : home[i] \in stream[s].subreddits}
           /\ Descending(listing) => Descending(Listed(s))
           /\ Distinct(listing) => Distinct(Listed(s))
<1>1. Range(listing) \subseteq Items
  BY RangeOfSeq
<1>2. \A kept : Distinct(listing) => DistinctIn(listing, kept)
  BY DEF Distinct, DistinctIn
<1> QED
  BY <1>1, <1>2, OnlyKept DEF Listed

\* The first page is a part of it; what it leaves out is older than all of it.
LEMMA FirstPageBegins ==
    ASSUME listing \in Seq(Items), NEW s
    PROVE  /\ FirstPage(s) \in Seq(Items)
           /\ Range(FirstPage(s)) \subseteq Range(Listed(s))
           /\ Distinct(listing) => Distinct(FirstPage(s))
           /\ Descending(listing) =>
                  \A i \in Range(Listed(s)) \ Range(FirstPage(s)) :
                      \A j \in Range(FirstPage(s)) : i < j
<1> DEFINE all == Listed(s)
           n == IF Len(all) < PageSize THEN Len(all) ELSE PageSize
           first == SubSeq(all, 1, n)
<1>1. /\ all \in Seq(Items)
      /\ Descending(listing) => Descending(all)
      /\ Distinct(listing) => Distinct(all)
  BY ListedItems
<1> HIDE DEF all
<1>2. /\ Len(all) \in Nat /\ n \in Nat /\ n <= Len(all)
      /\ DOMAIN all = 1 .. Len(all)
  BY <1>1, StreamAssumption
<1> HIDE DEF n
<1>3. first \in Seq(Items) /\ Range(first) \subseteq Range(all)
  BY <1>1, <1>2, PartOf
<1>4. DOMAIN first = 1 .. n /\ \A k \in 1 .. n : first[k] = all[k]
  BY <1>1, <1>2
<1>5. ASSUME Descending(listing),
             NEW i \in Range(all) \ Range(first), NEW j \in Range(first)
      PROVE  i < j
  <2>1. PICK k \in 1 .. Len(all) : all[k] = i
    BY <1>2 DEF Range
  <2>2. PICK l \in 1 .. n : first[l] = j
    BY <1>4 DEF Range
  <2>3. k \notin 1 .. n
    <3>1. \A m \in 1 .. n : all[m] \in Range(first)
      <4> HIDE DEF first
      <4> QED BY <1>4 DEF Range
    <3> QED BY <2>1, <3>1
  <2>4. l < k /\ l \in 1 .. Len(all)
    BY <1>2, <2>1, <2>2, <2>3
  <2>5. all[k] < all[l]
    BY <1>1, <1>2, <1>5, <2>1, <2>4 DEF Descending
  <2> QED BY <1>4, <2>1, <2>2, <2>5
<1>6. Distinct(listing) => Distinct(first)
  BY <1>1, <1>2, <1>4 DEF Distinct
<1> QED
  BY <1>3, <1>5, <1>6 DEF FirstPage, all, n

\* A further page adds entries of the listing to those already there.
LEMMA NextPageAdds ==
    ASSUME listing \in Seq(Items), NEW s, NEW batch \in Seq(Items)
    PROVE  /\ WithNextPage(s, batch) \in Seq(Items)
           /\ Range(WithNextPage(s, batch)) \subseteq Range(batch) \cup Range(Listed(s))
           /\ \A kept : Distinct(listing) /\ Range(batch) \cap kept = {}
                           => DistinctIn(WithNextPage(s, batch), kept)
<1> DEFINE all == Listed(s)
           last == CHOOSE k \in DOMAIN all : all[k] = Last(batch)
           upTo == IF last + PageSize > Len(all) THEN Len(all) ELSE last + PageSize
           page == SubSeq(all, last + 1, upTo)
<1>1. all \in Seq(Items) /\ (Distinct(listing) => Distinct(all))
  BY ListedItems
<1>2. CASE Last(batch) \notin Range(all)
  <2>1. WithNextPage(s, batch) = batch
    BY <1>2 DEF WithNextPage
  <2>2. \A k \in DOMAIN batch : batch[k] \in Range(batch)
    BY DEF Range
  <2> QED BY <2>1, <2>2 DEF DistinctIn
<1>3. CASE Last(batch) \in Range(all)
  <2>1. last \in DOMAIN all
    BY <1>3 DEF Range
  <2>2. WithNextPage(s, batch) = batch \o page
    BY <1>3 DEF WithNextPage
  <2> HIDE DEF last, all
  <2>3. /\ last \in Nat /\ upTo \in Nat /\ upTo <= Len(all) /\ last <= upTo
        /\ last + 1 \in Nat \ {0} /\ Len(all) \in Nat
        /\ DOMAIN all = 1 .. Len(all)
    BY <1>1, <2>1, StreamAssumption
  <2> HIDE DEF upTo
  <2>4. page \in Seq(Items) /\ Range(page) \subseteq Range(all)
    BY <1>1, <2>3, PartOf
  <2>5. Distinct(all) => Distinct(page)
    <3>1. DOMAIN page = 1 .. upTo - last /\ \A k \in DOMAIN page : page[k] = all[last + k]
      <4>1. CASE upTo = last
        BY <1>1, <2>3, <4>1
      <4>2. CASE last < upTo
        BY <1>1, <2>3, <4>2
      <4> QED BY <2>3, <4>1, <4>2
    <3> HIDE DEF page
    <3>2. ASSUME NEW j \in DOMAIN page, NEW k \in DOMAIN page, j < k
          PROVE  last + j \in DOMAIN all /\ last + k \in DOMAIN all /\ last + j < last + k
      BY <2>3, <3>1, <3>2
    <3> QED BY <3>1, <3>2 DEF Distinct
  <2> HIDE DEF page
  <2>6. Range(batch \o page) = Range(batch) \cup Range(page) /\ batch \o page \in Seq(Items)
    BY <2>4, RangeOfConcat
  <2>7. ASSUME NEW kept, Distinct(listing), Range(batch) \cap kept = {}
        PROVE  DistinctIn(batch \o page, kept)
    <3> DEFINE both == batch \o page
    <3>1. /\ DOMAIN batch = 1 .. Len(batch) /\ Len(batch) \in Nat
          /\ DOMAIN page = 1 .. Len(page) /\ Len(page) \in Nat
          /\ DOMAIN both = 1 .. Len(batch) + Len(page)
          /\ \A k \in DOMAIN both :
                both[k] = IF k <= Len(batch) THEN batch[k] ELSE page[k - Len(batch)]
      BY <2>4
    <3>2. \A k \in DOMAIN batch : batch[k] \notin kept
      BY <2>7 DEF Range
    <3>3. Distinct(page)
      BY <1>1, <2>5, <2>7
    <3> HIDE DEF both
    <3> SUFFICES ASSUME NEW j \in DOMAIN both, NEW k \in DOMAIN both, j < k, both[j] = both[k]
                 PROVE  both[j] \notin kept
      BY DEF DistinctIn, both
    <3>4. CASE j <= Len(batch)
      <4>1. j \in DOMAIN batch /\ both[j] = batch[j]
        BY <3>1, <3>4
      <4> QED BY <3>2, <4>1
    <3>5. CASE ~ (j <= Len(batch))
      <4>1. /\ j - Len(batch) \in DOMAIN page /\ k - Len(batch) \in DOMAIN page
            /\ j - Len(batch) < k - Len(batch)
            /\ both[j] = page[j - Len(batch)] /\ both[k] = page[k - Len(batch)]
        BY <3>1, <3>5
      <4> QED BY <3>3, <4>1 DEF Distinct
    <3> QED BY <3>4, <3>5
  <2> QED BY <2>2, <2>4, <2>6, <2>7 DEF all
<1> QED
  BY <1>2, <1>3

\* What Reddit answers a chain.
LEMMA BatchType ==
    ASSUME StreamTypeOK, NEW c \in Chains, Active(c)
    PROVE  Batch(c) \in Seq(Items)
<1>1. chain[c] \in Chain /\ listing \in Seq(Items)
  BY DEF StreamTypeOK, Active
<1>2. chain[c].batch \in Seq(Items)
  BY <1>1 DEF Chain
<1> QED
  BY <1>1, <1>2, FirstPageBegins, NextPageAdds DEF Batch

\* It consists of the pages the chain has and of what is listed; an item that is
\* not yet processed is there once, if the pages have been processed.
LEMMA BatchIs ==
    ASSUME StreamTypeOK, NEW c \in Chains, Awaits(c), NEW had,
           had = IF chain[c].pc = "get" THEN {} ELSE Range(chain[c].batch)
    PROVE  /\ Range(Batch(c)) \subseteq had \cup Range(Listed(chain[c].stream))
           /\ \A kept : Distinct(listing) /\ had \cap kept = {} => DistinctIn(Batch(c), kept)
<1>1. chain[c] \in Chain /\ listing \in Seq(Items)
  BY DEF StreamTypeOK, Active, Awaits
<1>2. chain[c].batch \in Seq(Items)
  BY <1>1 DEF Chain
<1>3. CASE chain[c].pc = "get"
  <2>1. Batch(c) = FirstPage(chain[c].stream)
    BY <1>3 DEF Batch
  <2>2. \A kept : Distinct(Batch(c)) => DistinctIn(Batch(c), kept)
    BY DEF Distinct, DistinctIn
  <2> QED BY <1>1, <2>1, <2>2, FirstPageBegins
<1>4. CASE chain[c].pc # "get"
  <2>1. Batch(c) = WithNextPage(chain[c].stream, chain[c].batch)
    BY <1>4 DEF Batch
  <2> QED BY <1>1, <1>2, <1>4, <2>1, NextPageAdds
<1> QED
  BY <1>3, <1>4

(***************************************************************************)
(* A poll.                                                                 *)
(***************************************************************************)

\* The new items of a poll: those of its earlier pages, and what is not yet
\* processed of the pages it has.
LEMMA NewItemsAre ==
    ASSUME StreamTypeOK, NEW c \in Chains, Active(c), NEW batch \in Seq(Items)
    PROVE  /\ NewItems(c, batch) \in Seq(Items)
           /\ Range(NewItems(c, batch)) =
                  Range(chain[c].newItems) \cup
                  (Range(batch) \ stream[chain[c].stream].processed)
           /\ /\ DistinctIn(batch, Items \ stream[chain[c].stream].processed)
              /\ Distinct(chain[c].newItems)
              /\ Range(chain[c].newItems) \subseteq stream[chain[c].stream].processed
              => Distinct(NewItems(c, batch))
<1>1. chain[c].newItems \in Seq(Items)
  BY DEF StreamTypeOK, Active, Chain
<1>2. Range(batch) \subseteq Items
  BY RangeOfSeq
<1> DEFINE unseen == UnseenIn(chain[c].stream, batch)
<1>3. /\ unseen \in Seq(Items)
      /\ Range(unseen) = Range(batch) \ stream[chain[c].stream].processed
      /\ DistinctIn(batch, Items \ stream[chain[c].stream].processed) => Distinct(unseen)
  BY <1>2, OnlyKept DEF UnseenIn
<1> HIDE DEF unseen
<1>4. NewItems(c, batch) = chain[c].newItems \o unseen
  BY DEF NewItems, unseen
<1> QED
  BY <1>1, <1>3, <1>4, RangeOfConcat, DistinctConcat

\* The newest of some items.
LEMMA NewestOf ==
    ASSUME NEW items \in Seq(Items), items # <<>>
    PROVE  Newest(items) \in Range(items) /\ \A j \in Range(items) : j <= Newest(items)
<1>1. Range(items) \subseteq Items
  BY RangeOfSeq
<1>2. Range(items) # {}
  <2>1. 1 \in DOMAIN items
    OBVIOUS
  <2> QED BY <2>1 DEF Range
<1>3. Range(items) \in SUBSET (0 .. MaxItem) /\ MaxItem \in Nat
  BY <1>1, StreamAssumption DEF Items
<1>4. \E i \in Range(items) : \A j \in Range(items) : j <= i
  BY <1>2, <1>3, GreatestNat
<1> QED
  BY <1>4 DEF Newest

\* The cutoff that a first poll sets: never 0, which stands for none, and not
\* beyond the present.
LEMMA FirstCutoffIs ==
    ASSUME StreamTypeOK, NEW s \in Streams, NEW items \in Seq(Items)
    PROVE  /\ FirstCutoff(s, items) \in 0 .. MaxItem + 1
           /\ UseDateCutoff => FirstCutoff(s, items) # 0
           /\ UseDateCutoff /\ stream[s].dateCutoff = 0 =>
                  FirstCutoff(s, items) = IF items = <<>> THEN posted + 1 ELSE Newest(items)
<1>1. posted \in 0 .. MaxItem /\ MaxItem \in Nat /\ stream[s].dateCutoff \in 0 .. MaxItem + 1
  BY StreamAssumption DEF StreamTypeOK, StreamFields
<1>2. items # <<>> => Newest(items) \in Items
  BY NewestOf, RangeOfSeq
<1> QED
  BY <1>1, <1>2 DEF FirstCutoff, Items

\* A first poll covers all it is shown: it has processed an item, or sets a cutoff
\* that the item does not reach.
LEMMA FirstPollCovers ==
    ASSUME StreamTypeOK, NEW s \in Streams, UseDateCutoff, stream[s].dateCutoff = 0,
           Range(listing) \subseteq 1 .. posted, Descending(listing),
           NEW items \in Seq(Items),
           Range(items) = Range(FirstPage(s)) \ stream[s].processed,
           NEW i \in Range(Listed(s))
    PROVE  \/ i \in stream[s].processed \cup Range(FirstPage(s))
           \/ i < FirstCutoff(s, items)
<1> SUFFICES ASSUME i \notin Range(FirstPage(s))
             PROVE  i < FirstCutoff(s, items)
  OBVIOUS
<1>1. listing \in Seq(Items) /\ posted \in Nat
  BY StreamAssumption DEF StreamTypeOK
<1>2. i \in 1 .. posted
  BY <1>1, ListedItems
<1>3. FirstCutoff(s, items) = IF items = <<>> THEN posted + 1 ELSE Newest(items)
  BY FirstCutoffIs
<1>4. CASE items = <<>>
  BY <1>1, <1>2, <1>3, <1>4
<1>5. CASE items # <<>>
  <2>1. Newest(items) \in Range(FirstPage(s))
    BY <1>5, NewestOf
  <2> QED BY <1>1, <1>3, <1>5, <2>1, FirstPageBegins
<1> QED
  BY <1>4, <1>5

\* The valid items of a poll are those at or after the cutoff.
LEMMA ValidItemsAre ==
    ASSUME NEW s, NEW items \in Seq(Items)
    PROVE  /\ ValidNewItems(s, items) \in Seq(Items)
           /\ Range(ValidNewItems(s, items)) =
                  {i \in Range(items) :
                      UseDateCutoff /\ stream[s].dateCutoff # 0 => i >= stream[s].dateCutoff}
           /\ Distinct(items) => Distinct(ValidNewItems(s, items))
<1>1. Range(items) \subseteq Items
  BY RangeOfSeq
<1>2. \A kept : Distinct(items) => DistinctIn(items, kept)
  BY DEF Distinct, DistinctIn
<1> QED
  BY <1>1, <1>2, OnlyKept DEF ValidNewItems

\* What a poll emits: nothing unless it is the last page of a poll that is not
\* the first, and then the new items that are valid.
LEMMA EmissionsAre ==
    ASSUME StreamTypeOK, NEW c \in Chains, Active(c), NEW batch \in Seq(Items)
    PROVE  LET s == chain[c].stream
           IN /\ Emissions(c, batch) \in Seq(Items)
              /\ Range(Emissions(c, batch)) =
                     IF ReadsOn(c, batch) \/ stream[s].newStart THEN {}
                     ELSE {i \in Range(NewItems(c, batch)) :
                              UseDateCutoff /\ stream[s].dateCutoff # 0
                                  => i >= stream[s].dateCutoff}
              /\ Distinct(NewItems(c, batch)) => Distinct(Emissions(c, batch))
<1> DEFINE s == chain[c].stream
           new == NewItems(c, batch)
<1>1. new \in Seq(Items)
  BY NewItemsAre
<1>2. CASE ReadsOn(c, batch) \/ stream[s].newStart
  <2>1. Emissions(c, batch) = <<>>
    BY <1>2 DEF Emissions
  <2>2. Distinct(<<>>)
    BY DEF Distinct
  <2> QED BY <1>2, <2>1, <2>2 DEF Range
<1>3. CASE ~ (ReadsOn(c, batch) \/ stream[s].newStart)
  <2>1. Emissions(c, batch) = ValidNewItems(s, new)
    BY <1>3 DEF Emissions
  <2> HIDE DEF new, s
  <2>2. /\ ValidNewItems(s, new) \in Seq(Items)
        /\ Range(ValidNewItems(s, new)) =
               {i \in Range(new) :
                   UseDateCutoff /\ stream[s].dateCutoff # 0 => i >= stream[s].dateCutoff}
        /\ Distinct(new) => Distinct(ValidNewItems(s, new))
    BY <1>1, ValidItemsAre
  <2> QED BY <1>3, <2>1, <2>2 DEF new, s
<1> QED
  BY <1>2, <1>3

(***************************************************************************)
(* The types of the fields and of the steps.                               *)
(***************************************************************************)

\* The methods of a stream keep its fields in their types.
LEMMA StartedType ==
    ASSUME NEW fields \in StreamFields, NEW c \in Chains, NEW newStart \in BOOLEAN
    PROVE  Started(fields, c, newStart) \in StreamFields
BY DEF Started, StreamFields

LEMMA EndedType ==
    ASSUME NEW fields \in StreamFields
    PROVE  Ended(fields) \in StreamFields
<1>1. 0 \in 0 .. MaxItem + 1
  BY StreamAssumption
<1> QED
  BY <1>1 DEF Ended, StreamFields

LEMMA NewStreamType ==
    ASSUME NEW s \in Streams, NEW subreddits \in SUBSET Subreddits,
           NEW enforceContinuity \in BOOLEAN
    PROVE  NewStream(s, subreddits, enforceContinuity) \in StreamFields
<1>1. 0 \in 0 .. MaxItem + 1
  BY StreamAssumption
<1> QED
  BY <1>1 DEF NewStream, StreamFields

\* A timer is a chain, and so it is something.
LEMMA TimerType ==
    ASSUME NEW s \in Streams
    PROVE  /\ Timer(s) \in Chain /\ Timer(s) # Nothing
           /\ Timer(s).stream = s /\ Timer(s).pc = "timer"
           /\ Timer(s).batch = <<>> /\ Timer(s).newItems = <<>>
<1>1. Timer(s) \in Chain
  BY DEF Timer, Chain
<1> QED
  BY <1>1, NothingAssumption DEF Timer

\* end() leaves every chain but the one it clears.
LEMMA ClearedTypes ==
    ASSUME NEW chains \in [Chains -> Chain \cup {Nothing}], NEW s
    PROVE  TimerCleared(chains, s) \in [Chains -> Chain \cup {Nothing}]
BY DEF TimerCleared

\* Nothing that happens on Reddit spoils a type.
LEMMA PostTypes ==
    ASSUME StreamTypeOK, NEW r \in Subreddits, Post(r)
    PROVE  StreamTypeOK'
<1>1. posted + 1 \in Items /\ posted' \in 0 .. MaxItem
  BY StreamAssumption DEF StreamTypeOK, Post, Items
<1>2. home' \in [Items -> Subreddits]
  BY <1>1 DEF StreamTypeOK, Post
<1>3. listing' \in Seq(Items)
  BY <1>1 DEF StreamTypeOK, Post
<1> QED
  BY <1>1, <1>2, <1>3 DEF StreamTypeOK, Post

LEMMA DelistTypes ==
    ASSUME StreamTypeOK, NEW i, Delist(i)
    PROVE  StreamTypeOK'
<1>1. listing' \in Seq(Items)
  BY OnlyKept DEF StreamTypeOK, Delist
<1> QED
  BY <1>1 DEF StreamTypeOK, Delist

LEMMA ReportTypes ==
    ASSUME StreamTypeOK, NEW i, Report(i)
    PROVE  StreamTypeOK'
<1>1. i \in Items
  BY StreamAssumption DEF StreamTypeOK, Report, Items
<1>2. listing' \in Seq(Items)
  BY <1>1 DEF StreamTypeOK, Report
<1> QED
  BY <1>2 DEF StreamTypeOK, Report

\* Nor does a step of a chain.
LEMMA FireTypes ==
    ASSUME StreamTypeOK, NEW c \in Chains, Fire(c)
    PROVE  StreamTypeOK'
<1>1. chain[c] \in Chain
  BY DEF StreamTypeOK, Fire, Active
<1>2. [chain[c] EXCEPT !.pc = "get"] \in Chain
  BY <1>1 DEF Chain
<1>3. chain' \in [Chains -> Chain \cup {Nothing}]
  BY <1>2 DEF StreamTypeOK, Fire
<1> QED
  BY <1>3 DEF StreamTypeOK, Fire

LEMMA FailTypes ==
    ASSUME StreamTypeOK, NEW c \in Chains, Fail(c)
    PROVE  StreamTypeOK'
<1>1. chain[c] \in Chain /\ chain[c].stream \in Streams
  BY DEF StreamTypeOK, Fail, Awaits, Active, Chain
<1>2. [Timer(chain[c].stream) EXCEPT !.pc = "retrying"] \in Chain
  BY <1>1, TimerType DEF Chain
<1>3. chain' \in [Chains -> Chain \cup {Nothing}]
  BY <1>2 DEF StreamTypeOK, Fail
<1>4. [stream[chain[c].stream] EXCEPT !.running = FALSE] \in StreamFields
  <2>1. stream[chain[c].stream] \in StreamFields
    BY <1>1 DEF StreamTypeOK
  <2> QED BY <2>1 DEF StreamFields
<1>5. stream' \in [Streams -> StreamFields]
  BY <1>1, <1>4 DEF StreamTypeOK, Fail
<1> QED
  BY <1>3, <1>5 DEF StreamTypeOK, Fail

LEMMA RetryTypes ==
    ASSUME StreamTypeOK, NEW c \in Chains, Retry(c)
    PROVE  StreamTypeOK'
<1> DEFINE s == chain[c].stream
<1>1. s \in Streams
  BY DEF StreamTypeOK, Retry, Active, Chain
<1>2. Timer(s) \in Chain /\ Started(stream[s], c, FALSE) \in StreamFields
  BY <1>1, TimerType, StartedType DEF StreamTypeOK
<1>3. /\ chain' = [chain EXCEPT ![c] = Timer(s)]
      /\ stream' = [stream EXCEPT ![s] = Started(stream[s], c, FALSE)]
      /\ UNCHANGED <<source, posted, home, listing>>
  BY DEF Retry
<1> HIDE DEF s
<1> QED
  BY <1>1, <1>2, <1>3 DEF StreamTypeOK

\* What becomes of the streams when chain c receives its last page: all that
\* share the Set remember what was seen, and the chain's stream is up to date.
LEMMA ReceiveFields ==
    ASSUME StreamTypeOK, NEW c \in Chains, Awaits(c), NEW batch \in Seq(Items),
           Receive(c, batch), NEW t \in Streams
    PROVE  LET s == chain[c].stream
               seen == IF stream[t].set = stream[s].set
                       THEN stream[s].processed \cup Range(batch) ELSE stream[t].processed
               ends == t = s /\ ~ReadsOn(c, batch)
           IN stream'[t] =
                  [subreddits |-> stream[t].subreddits,
                   enforceContinuity |-> stream[t].enforceContinuity,
                   running |-> stream[t].running,
                   newStart |-> stream[t].newStart /\ ~ends,
                   dateCutoff |-> IF ends /\ stream[s].newStart
                                  THEN FirstCutoff(s, NewItems(c, batch))
                                  ELSE stream[t].dateCutoff,
                   set |-> stream[t].set,
                   processed |-> seen,
                   interval |-> IF ends THEN c ELSE stream[t].interval]
<1> DEFINE s == chain[c].stream
           f(u) == IF stream[u].set = stream[s].set
                   THEN [stream[u] EXCEPT !.processed = Remembered(s, batch)] ELSE stream[u]
           seen == [u \in Streams |-> f(u)]
<1>1. s \in Streams /\ stream[t] \in StreamFields /\ stream[s] \in StreamFields
  BY DEF StreamTypeOK, Awaits, Active, Chain
<1>2. seen[t] = [stream[t] EXCEPT
                    !.processed = IF stream[t].set = stream[s].set
                                  THEN stream[s].processed \cup Range(batch) ELSE @]
  BY <1>1 DEF Remembered, StreamFields
<1>3. CASE ReadsOn(c, batch)
  <2>1. stream' = seen
    BY <1>3 DEF Receive
  <2> QED BY <1>1, <1>2, <1>3, <2>1 DEF StreamFields
<1>4. CASE ~ReadsOn(c, batch)
  <2>1. stream' = [seen EXCEPT
                      ![s].dateCutoff = IF stream[s].newStart
                                        THEN FirstCutoff(s, NewItems(c, batch)) ELSE @,
                      ![s].newStart = FALSE,
                      ![s].interval = c]
    BY <1>4 DEF Receive
  <2> QED BY <1>1, <1>2, <1>4, <2>1 DEF StreamFields
<1> QED
  BY <1>3, <1>4

\* The same of what any stream has processed.
LEMMA ReceiveRemembers ==
    ASSUME StreamTypeOK, NEW c \in Chains, Awaits(c), NEW batch \in Seq(Items),
           Receive(c, batch), NEW t \in Streams
    PROVE  LET s == chain[c].stream
           IN stream'[t].processed = IF stream[t].set = stream[s].set
                                     THEN stream[s].processed \cup Range(batch)
                                     ELSE stream[t].processed
<1> DEFINE s == chain[c].stream
           seen == IF stream[t].set = stream[s].set
                   THEN stream[s].processed \cup Range(batch) ELSE stream[t].processed
           ends == t = s /\ ~ReadsOn(c, batch)
           cutoff == IF ends /\ stream[s].newStart
                     THEN FirstCutoff(s, NewItems(c, batch)) ELSE stream[t].dateCutoff
<1>1. stream'[t] =
          [subreddits |-> stream[t].subreddits,
           enforceContinuity |-> stream[t].enforceContinuity,
           running |-> stream[t].running,
           newStart |-> stream[t].newStart /\ ~ends,
           dateCutoff |-> cutoff,
           set |-> stream[t].set,
           processed |-> seen,
           interval |-> IF ends THEN c ELSE stream[t].interval]
  BY ReceiveFields
<1>2. stream'[t].processed = seen
  <2> HIDE DEF seen, cutoff, ends
  <2> QED BY <1>1
<1> QED
  BY <1>2

\* The same of the chain's own stream.
LEMMA ReceiveUpdates ==
    ASSUME StreamTypeOK, NEW c \in Chains, Awaits(c), NEW batch \in Seq(Items),
           Receive(c, batch), NEW s, s = chain[c].stream
    PROVE  /\ stream'[s].subreddits = stream[s].subreddits
           /\ stream'[s].enforceContinuity = stream[s].enforceContinuity
           /\ stream'[s].processed = stream[s].processed \cup Range(batch)
           /\ stream'[s].running = stream[s].running
           /\ stream'[s].newStart <=> (stream[s].newStart /\ ReadsOn(c, batch))
           /\ stream'[s].dateCutoff =
                  IF ~ReadsOn(c, batch) /\ stream[s].newStart
                  THEN FirstCutoff(s, NewItems(c, batch)) ELSE stream[s].dateCutoff
           /\ stream'[s].interval = IF ReadsOn(c, batch) THEN stream[s].interval ELSE c
<1> DEFINE seen(t) == IF stream[t].set = stream[s].set
                      THEN stream[s].processed \cup Range(batch) ELSE stream[t].processed
           ends(t) == t = s /\ ~ReadsOn(c, batch)
<1>1. s \in Streams /\ stream[s] \in StreamFields
  BY DEF StreamTypeOK, Awaits, Active, Chain
<1>2. PICK t \in Streams : t = s
  BY <1>1
<1>3. /\ seen(t) = stream[s].processed \cup Range(batch)
      /\ ends(t) <=> ~ReadsOn(c, batch)
  BY <1>2
<1>4. stream'[t] =
          [subreddits |-> stream[t].subreddits,
           enforceContinuity |-> stream[t].enforceContinuity,
           running |-> stream[t].running,
           newStart |-> stream[t].newStart /\ ~ends(t),
           dateCutoff |-> IF ends(t) /\ stream[s].newStart
                          THEN FirstCutoff(s, NewItems(c, batch))
                          ELSE stream[t].dateCutoff,
           set |-> stream[t].set,
           processed |-> seen(t),
           interval |-> IF ends(t) THEN c ELSE stream[t].interval]
  BY ReceiveFields
<1>5. stream[s].newStart \in BOOLEAN
  BY <1>1 DEF StreamFields
<1> HIDE DEF seen, ends
<1>6. /\ stream'[t].subreddits = stream[t].subreddits
      /\ stream'[t].enforceContinuity = stream[t].enforceContinuity
      /\ stream'[t].running = stream[t].running
      /\ stream'[t].processed = seen(t)
  BY <1>4
<1>7. stream'[t].newStart <=> stream[t].newStart /\ ~ends(t)
  <2> DEFINE new == stream[t].newStart /\ ~ends(t)
  <2>1. new \in BOOLEAN
    OBVIOUS
  <2> HIDE DEF new
  <2>2. stream'[t].newStart = new
    BY <1>4 DEF new
  <2> QED BY <2>1, <2>2 DEF new
<1>8. stream'[t].dateCutoff = IF ends(t) /\ stream[s].newStart
                              THEN FirstCutoff(s, NewItems(c, batch)) ELSE stream[t].dateCutoff
  BY <1>4
<1>9. stream'[t].interval = IF ends(t) THEN c ELSE stream[t].interval
  BY <1>4
<1> QED
  BY <1>2, <1>3, <1>5, <1>6, <1>7, <1>8, <1>9

\* What becomes of the chains.
LEMMA ReceiveChains ==
    ASSUME StreamTypeOK, NEW c \in Chains, Awaits(c), NEW batch \in Seq(Items),
           Receive(c, batch)
    PROVE  /\ chain' \in [Chains -> Chain \cup {Nothing}]
           /\ \A d \in Chains \ {c} : chain'[d] = chain[d]
           /\ Active(c)' /\ chain'[c].stream = chain[c].stream
           /\ chain'[c].pc = IF ReadsOn(c, batch) THEN "more" ELSE "timer"
<1> DEFINE more == [chain[c] EXCEPT !.pc = "more", !.batch = batch,
                                    !.newItems = NewItems(c, batch)]
<1>1. chain[c] \in Chain /\ chain[c].stream \in Streams /\ Active(c)
  BY DEF StreamTypeOK, Awaits, Active, Chain
<1>2. CASE ReadsOn(c, batch)
  <2>1. more \in Chain /\ more.stream = chain[c].stream /\ more.pc = "more"
    BY <1>1, NewItemsAre DEF Chain
  <2>2. chain' = [chain EXCEPT ![c] = more]
    BY <1>1, <1>2 DEF Receive, StreamTypeOK, Chain
  <2> HIDE DEF more
  <2> QED BY <1>1, <1>2, <2>1, <2>2, NothingAssumption DEF StreamTypeOK, Active
<1>3. CASE ~ReadsOn(c, batch)
  <2>1. chain' = [chain EXCEPT ![c] = Timer(chain[c].stream)]
    BY <1>3 DEF Receive
  <2> QED BY <1>1, <1>3, <2>1, TimerType DEF StreamTypeOK, Active
<1> QED
  BY <1>2, <1>3

LEMMA ReceiveTypes ==
    ASSUME StreamTypeOK, NEW c \in Chains, Awaits(c), NEW batch \in Seq(Items),
           Receive(c, batch)
    PROVE  StreamTypeOK'
<1> DEFINE s == chain[c].stream
<1>1. s \in Streams /\ Active(c)
  BY DEF StreamTypeOK, Awaits, Active, Chain
<1>2. /\ Range(batch) \subseteq Items
      /\ FirstCutoff(s, NewItems(c, batch)) \in 0 .. MaxItem + 1
  BY <1>1, RangeOfSeq, NewItemsAre, FirstCutoffIs
<1>3. ASSUME NEW t \in Streams PROVE stream'[t] \in StreamFields
  <2> DEFINE seen == IF stream[t].set = stream[s].set
                     THEN stream[s].processed \cup Range(batch) ELSE stream[t].processed
             ends == t = s /\ ~ReadsOn(c, batch)
             cutoff == IF ends /\ stream[s].newStart
                       THEN FirstCutoff(s, NewItems(c, batch)) ELSE stream[t].dateCutoff
  <2>1. stream'[t] =
            [subreddits |-> stream[t].subreddits,
             enforceContinuity |-> stream[t].enforceContinuity,
             running |-> stream[t].running,
             newStart |-> stream[t].newStart /\ ~ends,
             dateCutoff |-> cutoff,
             set |-> stream[t].set,
             processed |-> seen,
             interval |-> IF ends THEN c ELSE stream[t].interval]
    BY ReceiveFields
  <2>2. stream[t] \in StreamFields /\ stream[s] \in StreamFields
    BY <1>1 DEF StreamTypeOK
  <2>3. seen \subseteq Items /\ cutoff \in 0 .. MaxItem + 1
    BY <1>2, <2>2 DEF StreamFields
  <2> HIDE DEF seen, cutoff, ends
  <2> QED BY <2>1, <2>2, <2>3 DEF StreamFields
<1>4. stream' = [t \in Streams |-> stream'[t]]
  BY <1>1 DEF Receive, StreamTypeOK
<1>5. stream' \in [Streams -> StreamFields]
  BY <1>3, <1>4
<1> QED
  BY <1>5, ReceiveChains DEF StreamTypeOK, Receive
=============================================================================
