---------------------------- MODULE CatalogProofs ----------------------------
(***************************************************************************)
(* Proofs about Catalog, for all tables that satisfy its assumptions: what *)
(* a search finds, and that more text never hides what less of it finds.   *)
(*                                                                         *)
(* Both need induction, over the ranks of an order and over the texts that *)
(* are joined.  It is done over sets (Induction): a set of numbers that is *)
(* not empty has a least element.                                          *)
(***************************************************************************)
EXTENDS Catalog, FiniteSetTheorems, SequenceTheorems, TLAPS

-----------------------------------------------------------------------------
(* Numbers, orders and what is kept of a sequence *)

LEMMA Least ==
  ASSUME NEW S \in SUBSET Nat, S # {}
  PROVE  \E m \in S : \A n \in S : m <= n
<1>. DEFINE less == {p \in Nat \X Nat : p[1] < p[2]}
<1>1. IsWellFoundedOn(less, Nat)
  BY NatLessThanWellFounded, Zenon DEF OpToRel
<1>2. PICK m \in S : \A n \in S : ~ (<<n, m>> \in less)
  BY <1>1, WFMin
<1>3. \A n \in S : ~ (n < m)
  BY <1>2
<1>. QED BY <1>3

LEMMA Induction ==
  ASSUME NEW S, 0 \in S, \A n \in Nat : n \in S => n + 1 \in S
  PROVE  Nat \subseteq S
<1>. SUFFICES ASSUME Nat \ S # {} PROVE FALSE
  OBVIOUS
<1>1. PICK m \in Nat \ S : \A n \in Nat \ S : m <= n
  BY Least
<1>2. m # 0 /\ m - 1 \in Nat /\ ~ (m <= m - 1)
  BY <1>1
<1>. QED BY <1>1, <1>2

\* An order by what comes before each element lists every element once: as an element
\* has strictly more before it than those before it have, no two have the same rank.
LEMMA InOrderFacts ==
  ASSUME NEW S, IsFiniteSet(S), NEW before,
         \A x \in S : before[x] \subseteq S /\ x \notin before[x],
         \A x, y \in S : x # y => x \in before[y] \/ y \in before[x],
         \A x, y \in S : x \in before[y] => before[x] \subseteq before[y]
  PROVE  /\ InOrder(S, before) \in [1..Cardinality(S) -> S]
         /\ \A x \in S : \E n \in 1..Cardinality(S) : InOrder(S, before)[n] = x
         /\ \A m, n \in 1..Cardinality(S) :
              m < n => InOrder(S, before)[m] \in before[InOrder(S, before)[n]]
<1>. DEFINE size == Cardinality(S)
            rank == [x \in S |-> Cardinality(before[x])]
<1>1. size \in Nat
  BY FS_CardinalityType
<1>2. \A x \in S : IsFiniteSet(before[x]) /\ rank[x] \in Nat
  BY FS_Subset, FS_CardinalityType
<1>3. ASSUME NEW x \in S, NEW y \in S, x \in before[y] PROVE rank[x] < rank[y]
  <2>1. /\ IsFiniteSet(before[x] \cup {x})
        /\ Cardinality(before[x] \cup {x}) = Cardinality(before[x]) + 1
    BY <1>2, FS_AddElement
  <2>2. before[x] \cup {x} \in SUBSET before[y]
    BY <1>3
  <2>3. Cardinality(before[x] \cup {x}) <= Cardinality(before[y])
    BY <1>2, <2>2, FS_Subset
  <2>. QED BY <1>2, <2>1, <2>3
<1>4. \A x \in S : rank[x] < size
  <2>1. SUFFICES ASSUME NEW x \in S PROVE Cardinality(before[x]) < size
    OBVIOUS
  <2>2. before[x] \in SUBSET S /\ before[x] # S
    BY <2>1
  <2>. QED BY <1>1, <1>2, <2>2, FS_Subset
<1>5. rank \in Injection(S, 0..(size - 1))
  <2>1. rank \in [S -> 0..(size - 1)]
    BY <1>1, <1>2, <1>4
  <2>2. \A x, y \in S : x # y => rank[x] # rank[y]
    BY <1>2, <1>3
  <2>. QED BY <2>1, <2>2 DEF Injection, IsInjective
<1>6. rank \in Surjection(S, 0..(size - 1))
  <2>1. IsFiniteSet(0..(size - 1)) /\ Cardinality(0..(size - 1)) = size
    BY <1>1, FS_Interval
  <2>. QED BY <1>5, <2>1, FS_Injection
<1>7. \A n \in 1..size : InOrder(S, before)[n] \in S /\ rank[InOrder(S, before)[n]] = n - 1
  <2>1. SUFFICES ASSUME NEW n \in 1..size
                 PROVE  InOrder(S, before)[n] \in S /\ rank[InOrder(S, before)[n]] = n - 1
    OBVIOUS
  <2>2. n - 1 \in 0..(size - 1)
    BY <1>1
  <2>3. \E x \in S : Cardinality(before[x]) = n - 1
    BY <1>6, <2>2 DEF Surjection
  <2>. QED BY <2>3 DEF InOrder
<1>8. ASSUME NEW x \in S PROVE \E n \in 1..size : InOrder(S, before)[n] = x
  <2>1. rank[x] + 1 \in 1..size
    BY <1>1, <1>2, <1>4
  <2>2. rank[InOrder(S, before)[rank[x] + 1]] = rank[x] /\ InOrder(S, before)[rank[x] + 1] \in S
    BY <1>2, <1>7, <2>1
  <2>3. InOrder(S, before)[rank[x] + 1] = x
    BY <1>5, <2>2 DEF Injection, IsInjective
  <2>. QED BY <2>1, <2>3
<1>9. ASSUME NEW m \in 1..size, NEW n \in 1..size, m < n
      PROVE  InOrder(S, before)[m] \in before[InOrder(S, before)[n]]
  <2>. DEFINE x == InOrder(S, before)[m]
              y == InOrder(S, before)[n]
  <2>1. x \in S /\ y \in S /\ rank[x] < rank[y]
    BY <1>1, <1>7, <1>9
  <2>2. x # y /\ ~ (rank[y] < rank[x])
    BY <1>2, <2>1
  <2>. QED BY <1>3, <2>1, <2>2
<1>10. InOrder(S, before) \in [1..size -> S]
  BY <1>7 DEF InOrder
<1>. QED BY <1>8, <1>9, <1>10

\* kept lists the places in their order, and Only what s has at them.
Keeps(kept, s, places) ==
  /\ Cardinality(places) \in Nat
  /\ kept \in [1..Cardinality(places) -> places]
  /\ \A i \in places : \E k \in 1..Cardinality(places) : kept[k] = i
  /\ \A k, l \in 1..Cardinality(places) : k < l => kept[k] < kept[l]
  /\ Only(s, places) = [k \in 1..Cardinality(places) |-> s[kept[k]]]

LEMMA OnlyFacts ==
  ASSUME NEW s, NEW n \in Nat, NEW places \in SUBSET (1..n)
  PROVE  \E kept : Keeps(kept, s, places)
<1>. DEFINE before == [i \in places |-> {j \in places : j < i}]
            kept == InOrder(places, before)
<1>1. IsFiniteSet(places) /\ Cardinality(places) \in Nat
  <2>1. IsFiniteSet(1..n)
    BY FS_Interval
  <2>. QED BY <2>1, FS_Subset, FS_CardinalityType
<1>2. \A i \in places : before[i] \subseteq places /\ i \notin before[i]
  OBVIOUS
<1>3. \A i, j \in places : i # j => i \in before[j] \/ j \in before[i]
  OBVIOUS
<1>4. \A i, j \in places : i \in before[j] => before[i] \subseteq before[j]
  <2>1. SUFFICES ASSUME NEW i \in places, NEW j \in places, i < j,
                        NEW k \in places, k < i
                 PROVE  k < j
    OBVIOUS
  <2>. QED BY <2>1
<1>5. /\ kept \in [1..Cardinality(places) -> places]
      /\ \A i \in places : \E k \in 1..Cardinality(places) : kept[k] = i
      /\ \A k, l \in 1..Cardinality(places) : k < l => kept[k] \in before[kept[l]]
  <2>. HIDE DEF before
  <2>. QED BY <1>1, <1>2, <1>3, <1>4, InOrderFacts
<1>6. \A k, l \in 1..Cardinality(places) : k < l => kept[k] < kept[l]
  <2>. HIDE DEF kept
  <2>. QED BY <1>5
<1>7. Only(s, places) = [k \in 1..Cardinality(places) |-> s[kept[k]]]
  <2>1. Only(s, places) = [k \in DOMAIN kept |-> s[kept[k]]]
    BY DEF Only
  <2>2. DOMAIN kept = 1..Cardinality(places)
    <3>. HIDE DEF kept
    <3>. QED BY <1>5
  <2>. QED BY <2>1, <2>2
<1>. QED
  <2>. HIDE DEF kept
  <2>. QED BY <1>1, <1>5, <1>6, <1>7 DEF Keeps

\* What is kept of a sequence is a sequence of the kept places.
LEMMA OnlyType ==
  ASSUME NEW X, NEW s \in Seq(X), NEW places \in SUBSET DOMAIN s
  PROVE  Only(s, places) \in Seq(X)
<1>1. Len(s) \in Nat /\ DOMAIN s = 1..Len(s) /\ s \in [1..Len(s) -> X]
  BY LenProperties
<1>2. PICK kept : Keeps(kept, s, places)
  BY <1>1, OnlyFacts
<1>. DEFINE size == Cardinality(places)
<1>. HIDE DEF size
<1>3. Only(s, places) \in [1..size -> X] /\ size \in Nat
  BY <1>1, <1>2 DEF Keeps, size
<1>. QED BY <1>3

-----------------------------------------------------------------------------
(* Joining texts: what FlattenSeq computes is unique, being so place by place *)

\* f joins up the first n sequences of s, one after the other.
Joins(f, s, n) ==
  \A i \in 1..n : f[i] = IF i = 1 THEN s[i] ELSE f[i - 1] \o s[i]

LEMMA JoinsExist ==
  ASSUME NEW X, NEW s \in Seq(Seq(X))
  PROVE  \E f \in [1..Len(s) -> Seq(X)] : Joins(f, s, Len(s))
<1>. DEFINE S == {n \in Nat : n <= Len(s) => \E f \in [1..n -> Seq(X)] : Joins(f, s, n)}
<1>1. 0 \in S
  <2>1. [i \in 1..0 |-> <<>>] \in [1..0 -> Seq(X)] /\ Joins([i \in 1..0 |-> <<>>], s, 0)
    BY DEF Joins
  <2>. QED BY <2>1
<1>2. ASSUME NEW n \in Nat, n \in S PROVE n + 1 \in S
  <2>1. SUFFICES ASSUME n + 1 <= Len(s)
                 PROVE  \E f \in [1..(n + 1) -> Seq(X)] : Joins(f, s, n + 1)
    OBVIOUS
  <2>2. PICK f \in [1..n -> Seq(X)] : Joins(f, s, n)
    BY <1>2, <2>1
  <2>. DEFINE new == IF n = 0 THEN s[1] ELSE f[n] \o s[n + 1]
              g == [i \in 1..(n + 1) |-> IF i = n + 1 THEN new ELSE f[i]]
  <2>3. new \in Seq(X)
    <3>1. s[n + 1] \in Seq(X)
      BY <2>1
    <3>2. CASE n = 0
      BY <3>1, <3>2
    <3>3. CASE n # 0
      BY <3>1, <3>3, <2>2
    <3>. QED BY <3>2, <3>3
  <2>4. g \in [1..(n + 1) -> Seq(X)]
    BY <2>2, <2>3
  <2>5. Joins(g, s, n + 1)
    <3>1. SUFFICES ASSUME NEW i \in 1..(n + 1)
                   PROVE  g[i] = IF i = 1 THEN s[i] ELSE g[i - 1] \o s[i]
      BY DEF Joins
    <3>2. CASE i = n + 1
      BY <3>2
    <3>3. CASE i # n + 1
      <4>1. i \in 1..n /\ (i # 1 => i - 1 \in 1..n /\ i - 1 # n + 1 /\ i - 1 \in 1..(n + 1))
        BY <3>3
      <4>2. g[i] = f[i] /\ (i # 1 => g[i - 1] = f[i - 1])
        BY <3>3, <4>1
      <4>3. QED BY <2>2, <4>1, <4>2 DEF Joins
    <3>. QED BY <3>2, <3>3
  <2>. QED BY <2>4, <2>5
<1>3. Nat \subseteq S
  <2>. HIDE DEF S
  <2>. QED BY <1>1, <1>2, Induction
<1>. QED BY <1>3

LEMMA JoinsUnique ==
  ASSUME NEW s, NEW m \in Nat, NEW n \in Nat, n <= m, NEW f, NEW g, Joins(f, s, m), Joins(g, s, n)
  PROVE  \A i \in 1..n : f[i] = g[i]
<1>. DEFINE S == {i \in Nat : i \in 1..n => f[i] = g[i]}
<1>1. 0 \in S
  OBVIOUS
<1>2. ASSUME NEW i \in Nat, i \in S PROVE i + 1 \in S
  <2>1. SUFFICES ASSUME i + 1 \in 1..n PROVE f[i + 1] = g[i + 1]
    OBVIOUS
  <2>2. i + 1 \in 1..m /\ (i + 1) - 1 = i /\ (i + 1 # 1 => i \in 1..n)
    BY <2>1
  <2>3. i + 1 # 1 => f[i] = g[i]
    BY <1>2, <2>2
  <2>. QED BY <2>1, <2>2, <2>3 DEF Joins
<1>3. Nat \subseteq S
  <2>. HIDE DEF S
  <2>. QED BY <1>1, <1>2, Induction
<1>. QED BY <1>3

LEMMA FlattenJoins ==
  ASSUME NEW X, NEW s \in Seq(Seq(X)), s # <<>>,
         NEW f \in [1..Len(s) -> Seq(X)], Joins(f, s, Len(s))
  PROVE  FlattenSeq(s) = f[Len(s)]
<1>. DEFINE Good(g) == g = [i \in 1..Len(s) |-> IF i = 1 THEN s[i] ELSE g[i - 1] \o s[i]]
            flat == CHOOSE g : Good(g)
<1>1. Good(f)
  BY DEF Joins
<1>2. Good(flat)
  <2>. HIDE DEF Good
  <2>. QED BY <1>1
<1>3. FlattenSeq(s) = flat[Len(s)]
  <2>1. Len(s) # 0
    OBVIOUS
  <2>. QED BY <2>1 DEF FlattenSeq
<1>4. Joins(flat, s, Len(s))
  <2>. HIDE DEF flat
  <2>. QED BY <1>2 DEF Joins
<1>5. Len(s) \in 1..Len(s)
  OBVIOUS
<1>. QED BY <1>3, <1>4, <1>5, JoinsUnique

-----------------------------------------------------------------------------
(* Searching the catalog *)

LEMMA ScoreFacts ==
  ASSUME NEW company, NEW query
  PROVE  /\ Score(company, query) \in {100, 98, 95, 75, 0}
         /\ Score(company, query) > 0 <=> Confidences(company, query) # {}
<1>. DEFINE S == Confidences(company, query) \cup {0}
<1>1. Confidences(company, query) \subseteq {100, 98, 95, 75}
  BY DEF Confidences
<1>2. \E x \in S : \A y \in S : x >= y
  <2>. HIDE DEF S
  <2>1. 0 \in S /\ S \subseteq {100, 98, 95, 75, 0}
    BY <1>1 DEF S
  <2>. QED BY <2>1
<1>3. Max(S) \in S /\ \A y \in S : Max(S) >= y
  <2>. HIDE DEF S
  <2>. QED BY <1>2 DEF Max
<1>. QED BY <1>1, <1>3 DEF Score

LEMMA Places ==
  /\ DOMAIN Companies = 1..Len(Listed) /\ DOMAIN Listed = 1..Len(Listed)
  /\ Len(Listed) \in Nat
BY TablesAssumption DEF Companies

\* The places of the companies that a text names.
Found(text) == {i \in DOMAIN Companies : Confidences(Companies[i], Normalize(text)) # {}}

\* ranked lists those N places as the matches of a search are listed.
Ranks(ranked, N, text) ==
  LET score(n) == Score(Companies[ranked[n]], Normalize(text)) IN
  /\ ranked \in [1..N -> Found(text)]
  /\ \A i \in Found(text) : \E n \in 1..N : ranked[n] = i
  /\ \A m, n \in 1..N : m < n =>
       score(m) > score(n) \/ (score(m) = score(n) /\ ranked[m] < ranked[n])
  /\ Search(text) = [n \in 1..N |-> Match(Companies[ranked[n]], Normalize(text))]

LEMMA SearchFacts == ASSUME NEW text PROVE \E N \in Nat : \E ranked : Ranks(ranked, N, text)
<1>. DEFINE query == Normalize(text)
            score == [i \in DOMAIN Companies |-> Score(Companies[i], query)]
            found == {i \in DOMAIN Companies : score[i] > 0}
            better(i) == {j \in found : score[j] > score[i] \/ (score[j] = score[i] /\ j < i)}
            before == [i \in found |-> better(i)]
            ranked == InOrder(found, before)
            N == Cardinality(found)
<1>1. found = Found(text)
  BY ScoreFacts DEF Found
<1>2. IsFiniteSet(found) /\ N \in Nat
  <2>1. IsFiniteSet(1..Len(Listed)) /\ found \in SUBSET (1..Len(Listed))
    BY Places, FS_Interval
  <2>. QED BY <2>1, FS_Subset, FS_CardinalityType
<1>3. \A i \in found : i \in Nat /\ score[i] \in Nat
  BY ScoreFacts, Places
<1>4. /\ \A i \in found : before[i] \subseteq found /\ i \notin before[i]
      /\ \A i, j \in found : i # j => i \in before[j] \/ j \in before[i]
      /\ \A i, j \in found : i \in before[j] => before[i] \subseteq before[j]
  <2>. HIDE DEF found, score
  <2>1. \A i \in found : before[i] \subseteq found /\ i \notin before[i]
    BY <1>3
  <2>2. \A i, j \in found : i # j => i \in before[j] \/ j \in before[i]
    BY <1>3
  <2>3. ASSUME NEW i \in found, NEW j \in found, i \in before[j], NEW k \in before[i]
        PROVE  k \in before[j]
    BY <1>3, <2>3
  <2>. QED BY <2>1, <2>2, <2>3
<1>5. /\ ranked \in [1..N -> found]
      /\ \A i \in found : \E n \in 1..N : ranked[n] = i
      /\ \A m, n \in 1..N : m < n => ranked[m] \in before[ranked[n]]
  <2>. HIDE DEF before, found
  <2>. QED BY <1>2, <1>4, InOrderFacts
<1>6. ASSUME NEW m \in 1..N, NEW n \in 1..N, m < n
      PROVE  LET a == Score(Companies[ranked[m]], query)
                 b == Score(Companies[ranked[n]], query)
             IN a > b \/ (a = b /\ ranked[m] < ranked[n])
  <2>1. ranked[m] \in found /\ ranked[n] \in found /\ ranked[m] \in before[ranked[n]]
    <3>. HIDE DEF before, found, ranked, N
    <3>. QED BY <1>5, <1>6
  <2>2. ranked[m] \in better(ranked[n])
    <3>. HIDE DEF found, ranked, better
    <3>. QED BY <2>1
  <2>3. ranked[m] \in DOMAIN Companies /\ ranked[n] \in DOMAIN Companies
    <3>. HIDE DEF ranked, score
    <3>. QED BY <2>1
  <2>. HIDE DEF ranked
  <2>. QED BY <2>2, <2>3
<1>7. Search(text) = [n \in 1..N |-> Match(Companies[ranked[n]], query)]
  <2>1. Search(text) = [n \in DOMAIN ranked |-> Match(Companies[ranked[n]], query)]
    BY DEF Search
  <2>2. DOMAIN ranked = 1..N
    <3>. HIDE DEF ranked, N
    <3>. QED BY <1>5
  <2>. QED BY <2>1, <2>2
<1>. QED
  <2>. HIDE DEF ranked, N, found, before
  <2>1. ranked \in [1..N -> Found(text)] /\ N \in Nat
    BY <1>1, <1>2, <1>5
  <2>2. \A i \in Found(text) : \E n \in 1..N : ranked[n] = i
    BY <1>1, <1>5
  <2>. QED BY <2>1, <2>2, <1>6, <1>7 DEF Ranks

\* Slugs are unique, so that places and slugs say the same.
LEMMA Slugs ==
  /\ \A i \in DOMAIN Companies : Companies[i].slug = Listed[i].slug
  /\ \A i, j \in DOMAIN Companies : Companies[i].slug = Companies[j].slug => i = j
BY KeysAssumption DEF Companies

SlugsOf(places) == {Companies[i].slug : i \in places}

\* A search finds exactly the companies that the text gives some reason for, each
\* once and the most certain first, for every catalog and text (catalog.rs, search).
THEOREM SearchIsComplete ==
  ASSUME NEW text
  PROVE  /\ CompaniesOf(Search(text)) = SlugsOf(Found(text))
         /\ \A m, n \in DOMAIN Search(text) : m < n =>
              /\ Search(text)[m].company # Search(text)[n].company
              /\ Search(text)[m].confidence >= Search(text)[n].confidence
<1>0. PICK N \in Nat : \E ranked : Ranks(ranked, N, text)
  BY SearchFacts
<1>1. PICK ranked : Ranks(ranked, N, text)
  BY <1>0
<1>2. \A n \in 1..N : /\ Search(text)[n].company = Companies[ranked[n]].slug
                      /\ Search(text)[n].confidence = Score(Companies[ranked[n]], Normalize(text))
  BY <1>1 DEF Ranks, Match
<1>3. DOMAIN Search(text) = 1..N
  BY <1>1 DEF Ranks
<1>4. CompaniesOf(Search(text)) = SlugsOf(Found(text))
  BY <1>1, <1>2, <1>3 DEF Ranks, CompaniesOf, SlugsOf
<1>5. ASSUME NEW m \in 1..N, NEW n \in 1..N, m < n
      PROVE  /\ Search(text)[m].company # Search(text)[n].company
             /\ Search(text)[m].confidence >= Search(text)[n].confidence
  <2>1. ranked[m] \in 1..Len(Listed) /\ ranked[n] \in 1..Len(Listed)
    BY <1>1, Places DEF Ranks, Found
  <2>2. /\ Score(Companies[ranked[m]], Normalize(text)) \in {100, 98, 95, 75, 0}
        /\ Score(Companies[ranked[n]], Normalize(text)) \in {100, 98, 95, 75, 0}
    BY ScoreFacts
  <2>3. ranked[m] # ranked[n]
    BY <1>1, <1>5, <2>1, <2>2 DEF Ranks
  <2>4. Search(text)[m].confidence >= Search(text)[n].confidence
    BY <1>1, <1>2, <1>5, <2>2 DEF Ranks
  <2>. QED BY <1>2, <2>1, <2>3, <2>4, Slugs, Places
<1>. QED BY <1>3, <1>4, <1>5

LEMMA SearchType ==
  ASSUME NEW text
  PROVE  /\ \E N \in Nat : DOMAIN Search(text) = 1..N
         /\ Search(text) \in Seq(Range(Search(text)))
         /\ CompaniesOf(Search(text)) \subseteq SlugsOf(DOMAIN Companies)
<1>1. PICK N \in Nat : \E ranked : Ranks(ranked, N, text)
  BY SearchFacts
<1>2. DOMAIN Search(text) = 1..N
  BY <1>1 DEF Ranks
<1>3. Search(text) \in [1..N -> Range(Search(text))]
  BY <1>1 DEF Ranks, Range
<1>. QED BY <1>2, <1>3, SearchIsComplete DEF SlugsOf, Found

-----------------------------------------------------------------------------
(* Joined and normalised texts *)

LEMMA FlattenEmpty == FlattenSeq(<<>>) = <<>>
BY DEF FlattenSeq

LEMMA FlattenType ==
  ASSUME NEW X, NEW s \in Seq(Seq(X))
  PROVE  FlattenSeq(s) \in Seq(X)
<1>1. CASE s = <<>>
  BY <1>1, FlattenEmpty, EmptySeq
<1>2. CASE s # <<>>
  <2>1. PICK f \in [1..Len(s) -> Seq(X)] : Joins(f, s, Len(s))
    BY JoinsExist
  <2>2. Len(s) \in 1..Len(s)
    BY <1>2
  <2>3. FlattenSeq(s) = f[Len(s)]
    BY <1>2, <2>1, FlattenJoins
  <2>. QED BY <2>1, <2>2, <2>3
<1>. QED BY <1>1, <1>2

LEMMA FlattenAppend ==
  ASSUME NEW X, NEW s \in Seq(Seq(X)), NEW x \in Seq(X)
  PROVE  FlattenSeq(Append(s, x)) = FlattenSeq(s) \o x
<1>. DEFINE t == Append(s, x)
<1>1. /\ t \in Seq(Seq(X)) /\ t # <<>> /\ Len(t) = Len(s) + 1 /\ Len(s) \in Nat
      /\ t[Len(s) + 1] = x /\ \A i \in 1..Len(s) : t[i] = s[i]
  BY AppendProperties, LenProperties
<1>2. PICK g \in [1..Len(t) -> Seq(X)] : Joins(g, t, Len(t))
  BY <1>1, JoinsExist
<1>3. FlattenSeq(t) = g[Len(s) + 1]
  <2>. HIDE DEF t
  <2>. QED BY <1>1, <1>2, FlattenJoins
<1>4. CASE s = <<>>
  <2>1. Len(s) = 0
    BY <1>4
  <2>2. Len(t) = 1 /\ t[1] = x
    <3>. HIDE DEF t
    <3>. QED BY <1>1, <2>1
  <2>3. g[1] = x
    <3>. HIDE DEF t
    <3>. QED BY <1>2, <2>2 DEF Joins
  <2>4. <<>> \o x = x
    BY ConcatEmptySeq
  <2>. QED BY <1>3, <1>4, <2>1, <2>3, <2>4, FlattenEmpty
<1>5. CASE s # <<>>
  <2>. HIDE DEF t
  <2>1. PICK f \in [1..Len(s) -> Seq(X)] : Joins(f, s, Len(s))
    BY JoinsExist
  <2>2. Joins(g, s, Len(s))
    <3>1. SUFFICES ASSUME NEW i \in 1..Len(s)
                   PROVE  g[i] = IF i = 1 THEN s[i] ELSE g[i - 1] \o s[i]
      BY DEF Joins
    <3>2. i \in 1..Len(t) /\ t[i] = s[i]
      BY <1>1
    <3>. QED BY <1>2, <3>2 DEF Joins
  <2>3. Len(s) \in 1..Len(s)
    BY <1>1, <1>5, EmptySeq
  <2>4. f[Len(s)] = g[Len(s)]
    BY <2>1, <2>2, <2>3, JoinsUnique
  <2>5. g[Len(s) + 1] = g[Len(s)] \o x
    <3>1. Len(s) + 1 \in 1..Len(t) /\ Len(s) + 1 # 1 /\ (Len(s) + 1) - 1 = Len(s)
      BY <1>1, <2>3
    <3>. QED BY <1>1, <1>2, <3>1 DEF Joins
  <2>6. FlattenSeq(s) = f[Len(s)]
    BY <1>5, <2>1, FlattenJoins
  <2>. QED BY <1>3, <2>4, <2>5, <2>6 DEF t
<1>. QED BY <1>4, <1>5

LEMMA FlattenConcat ==
  ASSUME NEW X, NEW s \in Seq(Seq(X)), NEW t \in Seq(Seq(X))
  PROVE  FlattenSeq(s \o t) = FlattenSeq(s) \o FlattenSeq(t)
<1>. DEFINE S == {n \in Nat : \A u \in Seq(Seq(X)) :
                    Len(u) = n => FlattenSeq(s \o u) = FlattenSeq(s) \o FlattenSeq(u)}
<1>1. 0 \in S
  <2>1. SUFFICES FlattenSeq(s \o <<>>) = FlattenSeq(s) \o FlattenSeq(<<>>)
    BY EmptySeq
  <2>2. s \o <<>> = s /\ FlattenSeq(s) \o <<>> = FlattenSeq(s)
    BY FlattenType, ConcatEmptySeq
  <2>. QED BY <2>2, FlattenEmpty
<1>2. ASSUME NEW n \in Nat, n \in S PROVE n + 1 \in S
  <2>1. SUFFICES ASSUME NEW u \in Seq(Seq(X)), Len(u) = n + 1
                 PROVE  FlattenSeq(s \o u) = FlattenSeq(s) \o FlattenSeq(u)
    OBVIOUS
  <2>2. PICK front \in Seq(Seq(X)), x \in Seq(X) : u = Append(front, x)
    <3>1. u # <<>>
      BY <2>1
    <3>. QED BY <3>1, SequenceEmptyOrAppend
  <2>3. Len(front) = n
    BY <2>1, <2>2
  <2>4. FlattenSeq(s \o front) = FlattenSeq(s) \o FlattenSeq(front)
    BY <1>2, <2>2, <2>3
  <2>5. s \o u = Append(s \o front, x) /\ s \o front \in Seq(Seq(X))
    BY <2>2
  <2>6. /\ FlattenSeq(s \o u) = FlattenSeq(s \o front) \o x
        /\ FlattenSeq(u) = FlattenSeq(front) \o x
    BY <2>2, <2>5, FlattenAppend
  <2>7. (FlattenSeq(s) \o FlattenSeq(front)) \o x = FlattenSeq(s) \o (FlattenSeq(front) \o x)
    <3>. DEFINE a == FlattenSeq(s)
                b == FlattenSeq(front)
    <3>1. a \in Seq(X) /\ b \in Seq(X)
      BY FlattenType
    <3>. HIDE DEF a, b, S
    <3>2. (a \o b) \o x = a \o (b \o x)
      BY <3>1, ConcatAssociative
    <3>. QED BY <3>2 DEF a, b
  <2>. QED BY <2>4, <2>6, <2>7, Zenon
<1>3. Nat \subseteq S
  <2>. HIDE DEF S
  <2>. QED BY <1>1, <1>2, Induction
<1>. QED BY <1>3

LEMMA Single == ASSUME NEW X, NEW x \in X PROVE <<x>> \in Seq(X)
OBVIOUS

LEMMA WordsType == \A token \in STRING : Words(token) \in Text
<1>1. SUFFICES ASSUME NEW token \in STRING PROVE Words(token) \in Text
  OBVIOUS
<1>2. \A known \in DOMAIN Plain : Plain[known] \in Text
  BY TablesAssumption
<1>3. <<token>> \in Text
  BY Single DEF Text
<1>. QED BY <1>2, <1>3 DEF Words

\* The words of each token of a text.
WordsOf(text) == [i \in DOMAIN text |-> Words(text[i])]

LEMMA WordsOfType ==
  ASSUME NEW text \in Text
  PROVE  WordsOf(text) \in Seq(Text) /\ Len(WordsOf(text)) = Len(text)
<1>1. Len(text) \in Nat /\ DOMAIN text = 1..Len(text) /\ \A i \in 1..Len(text) : text[i] \in STRING
  BY LenProperties DEF Text
<1>2. WordsOf(text) \in [1..Len(text) -> Text]
  BY <1>1, WordsType DEF WordsOf
<1>. QED BY <1>1, <1>2

LEMMA NormalizeType ==
  ASSUME NEW text \in Text
  PROVE  Normalize(text) \in Text
<1>1. FlattenSeq(WordsOf(text)) \in Text
  BY WordsOfType, FlattenType DEF Text
<1>. QED BY <1>1 DEF Normalize, WordsOf

LEMMA NormalizeConcat ==
  ASSUME NEW s \in Text, NEW t \in Text
  PROVE  Normalize(s \o t) = Normalize(s) \o Normalize(t)
<1>1. /\ s \o t \in Text /\ Len(s \o t) = Len(s) + Len(t) /\ Len(s) \in Nat /\ Len(t) \in Nat
      /\ DOMAIN s = 1..Len(s) /\ DOMAIN t = 1..Len(t) /\ DOMAIN (s \o t) = 1..Len(s \o t)
      /\ \A i \in 1..(Len(s) + Len(t)) :
           (s \o t)[i] = IF i <= Len(s) THEN s[i] ELSE t[i - Len(s)]
  BY ConcatProperties, LenProperties DEF Text
<1>2. WordsOf(s) \in Seq(Text) /\ WordsOf(t) \in Seq(Text) /\ WordsOf(s \o t) \in Seq(Text)
  BY <1>1, WordsOfType
<1>3. Len(WordsOf(s)) = Len(s) /\ Len(WordsOf(t)) = Len(t)
      /\ Len(WordsOf(s \o t)) = Len(s) + Len(t)
  BY <1>1, WordsOfType
<1>4. /\ WordsOf(s) \o WordsOf(t) \in Seq(Text)
      /\ Len(WordsOf(s) \o WordsOf(t)) = Len(s) + Len(t)
      /\ \A i \in 1..(Len(s) + Len(t)) :
           (WordsOf(s) \o WordsOf(t))[i] =
             IF i <= Len(s) THEN WordsOf(s)[i] ELSE WordsOf(t)[i - Len(s)]
  <2>. DEFINE a == WordsOf(s)
              b == WordsOf(t)
  <2>. HIDE DEF a, b
  <2>1. a \in Seq(Text) /\ b \in Seq(Text) /\ Len(a) = Len(s) /\ Len(b) = Len(t)
    BY <1>2, <1>3 DEF a, b
  <2>2. /\ a \o b \in Seq(Text) /\ Len(a \o b) = Len(a) + Len(b)
        /\ \A i \in 1..(Len(a) + Len(b)) :
             (a \o b)[i] = IF i <= Len(a) THEN a[i] ELSE b[i - Len(a)]
    BY <2>1, ConcatProperties
  <2>. QED BY <2>1, <2>2 DEF a, b
<1>5. \A i \in 1..(Len(s) + Len(t)) : WordsOf(s \o t)[i] = (WordsOf(s) \o WordsOf(t))[i]
  <2>1. SUFFICES ASSUME NEW i \in 1..(Len(s) + Len(t))
                 PROVE  WordsOf(s \o t)[i] = (WordsOf(s) \o WordsOf(t))[i]
    OBVIOUS
  <2>2. WordsOf(s \o t)[i] = Words((s \o t)[i])
    BY <1>1 DEF WordsOf
  <2>3. CASE i <= Len(s)
    <3>1. i \in DOMAIN s
      BY <1>1, <2>3
    <3>. QED BY <1>1, <1>4, <2>2, <2>3, <3>1 DEF WordsOf
  <2>4. CASE ~ (i <= Len(s))
    <3>1. i - Len(s) \in DOMAIN t
      BY <1>1, <2>4
    <3>. QED BY <1>1, <1>4, <2>2, <2>4, <3>1 DEF WordsOf
  <2>. QED BY <2>3, <2>4
<1>6. WordsOf(s \o t) = WordsOf(s) \o WordsOf(t)
  BY <1>2, <1>3, <1>4, <1>5, SeqEqual
<1>7. FlattenSeq(WordsOf(s) \o WordsOf(t)) = FlattenSeq(WordsOf(s)) \o FlattenSeq(WordsOf(t))
  BY <1>2, FlattenConcat DEF Text
<1>. QED BY <1>6, <1>7 DEF Normalize, WordsOf

-----------------------------------------------------------------------------
(* What more text adds *)

LEMMA PhraseConcat ==
  ASSUME NEW s \in Text, NEW t \in Text, NEW needle \in Text, needle # <<>>, Phrase(s, needle)
  PROVE  Phrase(s \o t, needle)
<1>1. /\ Len(s) \in Nat /\ Len(t) \in Nat /\ Len(needle) \in Nat \ {0}
      /\ Len(s \o t) = Len(s) + Len(t)
  BY LenProperties, EmptySeq, ConcatProperties DEF Text
<1>2. PICK i \in 0..(Len(s) - Len(needle)) : SubSeq(s, i + 1, i + Len(needle)) = needle
  BY DEF Phrase
<1>3. i + 1 \in 1..Len(s) /\ i + Len(needle) \in 1..Len(s)
  BY <1>1, <1>2
<1>4. SubSeq(s \o t, i + 1, i + Len(needle)) = needle
  BY <1>2, <1>3, SubSeqOfConcat1 DEF Text
<1>5. i \in 0..(Len(s \o t) - Len(needle))
  BY <1>1, <1>2
<1>. QED BY <1>4, <1>5 DEF Phrase

LEMMA PhrasePrefix ==
  ASSUME NEW s \in Text, NEW t \in Text, s # <<>>
  PROVE  Phrase(s \o t, s)
<1>1. Len(s) \in Nat \ {0} /\ Len(t) \in Nat /\ Len(s \o t) = Len(s) + Len(t)
  BY LenProperties, EmptySeq, ConcatProperties DEF Text
<1>2. 1 \in 1..Len(s) /\ Len(s) \in 1..Len(s)
  BY <1>1
<1>3. SubSeq(s \o t, 1, Len(s)) = SubSeq(s, 1, Len(s))
  BY <1>2, SubSeqOfConcat1 DEF Text
<1>4. SubSeq(s, 1, Len(s)) = s
  BY SubSeqFull DEF Text
<1>5. 0 \in 0..(Len(s \o t) - Len(s)) /\ 0 + 1 = 1 /\ 0 + Len(s) = Len(s)
  BY <1>1
<1>6. SubSeq(s \o t, 0 + 1, 0 + Len(s)) = s
  BY <1>3, <1>4, <1>5
<1>. QED BY <1>5, <1>6 DEF Phrase

LEMMA RangeConcat ==
  ASSUME NEW s \in Text, NEW t \in Text
  PROVE  Range(s) \subseteq Range(s \o t)
<1>1. /\ Len(s) \in Nat /\ Len(t) \in Nat /\ DOMAIN s = 1..Len(s)
      /\ s \o t \in Text /\ Len(s \o t) = Len(s) + Len(t) /\ DOMAIN (s \o t) = 1..Len(s \o t)
      /\ \A i \in 1..(Len(s) + Len(t)) :
           (s \o t)[i] = IF i <= Len(s) THEN s[i] ELSE t[i - Len(s)]
  BY LenProperties, ConcatProperties DEF Text
<1>2. SUFFICES ASSUME NEW i \in DOMAIN s PROVE s[i] \in Range(s \o t)
  BY DEF Range
<1>3. i \in DOMAIN (s \o t) /\ (s \o t)[i] = s[i]
  BY <1>1
<1>. QED BY <1>3 DEF Range

\* What the tables say of a company is text, and none of it is blank.
LEMMA TablesFacts ==
  ASSUME NEW i \in DOMAIN Companies
  PROVE  /\ Names(Companies[i]) \subseteq Text \ {<<>>}
         /\ \A alias \in Companies[i].aliases : Normalize(alias) \in Text \ {<<>>}
         /\ \A theme \in Companies[i].themes : Normalize(theme) \in Text \ {<<>>}
<1>1. Listed[i] \in [slug : STRING, name : Text, ticker : Text] /\ i \in DOMAIN Listed
  <2>1. i \in 1..Len(Listed)
    BY Places
  <2>. QED BY <2>1, Places, TablesAssumption, ElementOfSeq
<1>2. Companies[i].name = Listed[i].name /\ Companies[i].ticker = Listed[i].ticker
  BY DEF Companies
<1>3. /\ Companies[i].aliases = TextsOf(Listed[i].slug, Aliases)
      /\ Companies[i].themes = TextsOf(Listed[i].slug, Themes)
  BY DEF Companies
<1>4. Names(Companies[i]) \subseteq Text
  BY <1>1, <1>2, NormalizeType DEF Names
<1>5. Companies[i].aliases \subseteq Text /\ Companies[i].themes \subseteq Text
  BY <1>3, TablesAssumption DEF TextsOf
<1>. QED BY <1>4, <1>5, NormalizeType, NamesAssumption

\* A company that a text gives a reason for is still found when more follows.
LEMMA FoundConcat ==
  ASSUME NEW s \in Text, NEW t \in Text
  PROVE  Found(s) \subseteq Found(s \o t)
<1>. SUFFICES ASSUME NEW i \in DOMAIN Companies, Confidences(Companies[i], Normalize(s)) # {}
              PROVE  Confidences(Companies[i], Normalize(s \o t)) # {}
  BY DEF Found
<1>. DEFINE q == Normalize(s)
            x == Normalize(t)
            company == Companies[i]
<1>1. Normalize(s \o t) = q \o x /\ q \in Text /\ x \in Text
  BY NormalizeType, NormalizeConcat
<1>2. PICK score \in Confidences(company, q) : TRUE
  OBVIOUS
<1>. HIDE DEF q, x
<1>3. CASE \E name \in Names(company) : q = name \/ Phrase(q, name)
  <2>1. PICK name \in Names(company) : q = name \/ Phrase(q, name)
    BY <1>3
  <2>2. name \in Text /\ name # <<>>
    BY TablesFacts
  <2>3. Phrase(q \o x, name)
    BY <1>1, <2>1, <2>2, PhraseConcat, PhrasePrefix
  <2>4. 98 \in Confidences(company, q \o x)
    BY <2>3 DEF Confidences
  <2>. QED BY <1>1, <2>4
<1>4. CASE \E alias \in company.aliases : Phrase(q, Normalize(alias))
  <2>1. PICK alias \in company.aliases : Phrase(q, Normalize(alias))
    BY <1>4
  <2>2. Normalize(alias) \in Text /\ Normalize(alias) # <<>>
    BY TablesFacts
  <2>3. Phrase(q \o x, Normalize(alias))
    BY <1>1, <2>1, <2>2, PhraseConcat
  <2>4. 95 \in Confidences(company, q \o x)
    BY <2>3 DEF Confidences
  <2>. QED BY <1>1, <2>4
<1>5. CASE \E theme \in company.themes : OnTheme(q, theme)
  <2>1. PICK theme \in company.themes : OnTheme(q, theme)
    BY <1>5
  <2>2. OnTheme(q \o x, theme)
    BY <1>1, <2>1, RangeConcat DEF OnTheme
  <2>3. 75 \in Confidences(company, q \o x)
    BY <2>2 DEF Confidences
  <2>. QED BY <1>1, <2>3
<1>. QED BY <1>2, <1>3, <1>4, <1>5 DEF Confidences

\* Whatever follows a text, the companies that a search for the text finds are found
\* with it, although the confidence of every match is that of the whole (catalog.rs).
THEOREM MoreTextHidesNothing ==
  ASSUME NEW s \in Text, NEW t \in Text
  PROVE  CompaniesOf(Search(s)) \subseteq CompaniesOf(Search(s \o t))
BY FoundConcat, SearchIsComplete DEF SlugsOf

LEMMA NormalizeEmpty == Normalize(<<>>) = <<>>
<1>1. [i \in DOMAIN <<>> |-> Words(<<>>[i])] = <<>>
  OBVIOUS
<1>. QED BY <1>1, FlattenEmpty DEF Normalize

\* An empty text finds nothing.
LEMMA FoundEmpty == Found(<<>>) = {}
<1>. SUFFICES ASSUME NEW i \in DOMAIN Companies
              PROVE  Confidences(Companies[i], <<>>) = {}
  BY NormalizeEmpty DEF Found
<1>. DEFINE company == Companies[i]
<1>1. \A needle \in Text : needle # <<>> => ~ Phrase(<<>>, needle)
  <2>1. SUFFICES ASSUME NEW needle \in Text, needle # <<>> PROVE ~ Phrase(<<>>, needle)
    OBVIOUS
  <2>2. Len(needle) \in Nat \ {0} /\ Len(<<>>) = 0
    BY <2>1, EmptySeq DEF Text
  <2>3. 0..(Len(<<>>) - Len(needle)) = {}
    BY <2>2
  <2>. QED BY <2>3 DEF Phrase
<1>2. \A theme \in company.themes : ~ OnTheme(<<>>, theme)
  <2>1. SUFFICES ASSUME NEW theme \in company.themes PROVE ~ OnTheme(<<>>, theme)
    OBVIOUS
  <2>2. Normalize(theme) \in Text /\ Normalize(theme) # <<>>
    BY TablesFacts
  <2>3. 1 \in DOMAIN Normalize(theme)
    BY <2>2, EmptySeq, LenProperties DEF Text
  <2>4. Range(<<>>) = {}
    BY DEF Range
  <2>5. Normalize(theme)[1] \in Range(Normalize(theme))
    BY <2>3 DEF Range
  <2>. QED BY <2>4, <2>5 DEF OnTheme
<1>3. \A name \in Names(company) : name # <<>> /\ ~ Phrase(<<>>, name)
  BY <1>1, TablesFacts
<1>4. \A alias \in company.aliases : ~ Phrase(<<>>, Normalize(alias))
  BY <1>1, TablesFacts
<1>. QED BY <1>2, <1>3, <1>4 DEF Confidences

=============================================================================
