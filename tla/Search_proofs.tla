---------------------------- MODULE Search_proofs ----------------------------
(***************************************************************************)
(* For collections and batches of any size: an executed collection has     *)
(* been sent whole and no query of it twice, and no task outlives          *)
(* execute(). The loop stops where the remainder starts, because i is a    *)
(* multiple of BatchSize that does not pass that start. For snippets,      *)
(* catalogs and groups of any size: the cache is asked for each hash once, *)
(* so that the hits of a group are at most as many as its rows; the        *)
(* histogram names a song with enough of them, and the one that stands out *)
(* if none are missing.                                                    *)
(***************************************************************************)
EXTENDS Search, FiniteSetTheorems, FunctionTheorems, TLAPS

-----------------------------------------------------------------------------
(* Induction by a least counterexample: the library has its theorem about   *)
(* well-founded relations, which takes no operator.                         *)

\* There is such a relation for the numbers, and it has minima.
LEMMA NumbersAreWellFounded ==
    \E R : IsWellFoundedOn(R, Nat) /\ \A m, n \in Nat : m < n => <<m, n>> \in R
<1>1. IsWellFoundedOn(OpToRel(<, Nat), Nat)
  BY NatLessThanWellFounded, Zenon
<1>2. \A m, n \in Nat : m < n => <<m, n>> \in OpToRel(<, Nat)
  BY DEF OpToRel
<1> QED
  BY <1>1, <1>2, Zenon

LEMMA HasMinimal ==
    ASSUME NEW R, IsWellFoundedOn(R, Nat), NEW S, S \subseteq Nat, S # {}
    PROVE  \E m \in S : \A n \in S : <<n, m>> \notin R
BY WFMin, Zenon

\* A set of numbers that is not empty has a least one.
LEMMA LeastNumber ==
    ASSUME NEW S, S \subseteq Nat, S # {}
    PROVE  \E m \in S : \A n \in S : m <= n
<1>1. PICK R : IsWellFoundedOn(R, Nat) /\ \A m, n \in Nat : m < n => <<m, n>> \in R
  BY NumbersAreWellFounded, Zenon
<1>2. PICK m \in S : \A n \in S : <<n, m>> \notin R
  BY <1>1, HasMinimal, Zenon
<1>3. \A n \in S : ~(n < m)
  BY <1>1, <1>2
<1> QED
  BY <1>3

\* R puts the elements of S in a row.
IsRow(R, S) ==
    /\ \A x, y \in S : x = y \/ <<x, y>> \in R \/ <<y, x>> \in R
    /\ \A x \in S : <<x, x>> \notin R
    /\ \A x, y, z \in S : <<x, y>> \in R /\ <<y, z>> \in R => <<x, z>> \in R

\* A finite row that is not empty has a first element: one with the fewest
\* before it.
LEMMA HasFirst ==
    ASSUME NEW S, IsFiniteSet(S), S # {}, NEW R, IsRow(R, S)
    PROVE  \E x \in S : \A y \in S \ {x} : <<x, y>> \in R
<1> DEFINE Ahead(x) == {y \in S : <<y, x>> \in R}
           Ranks == {Cardinality(Ahead(x)) : x \in S}
<1>1. \A x \in S : IsFiniteSet(Ahead(x)) /\ Cardinality(Ahead(x)) \in Nat
  BY FS_Subset, FS_CardinalityType
<1>2. PICK m \in Ranks : \A n \in Ranks : m <= n
  <2>1. Ranks \subseteq Nat /\ Ranks # {}
    BY <1>1
  <2> HIDE DEF Ranks
  <2> QED
    BY <2>1, LeastNumber
<1>3. PICK x \in S : m = Cardinality(Ahead(x))
  OBVIOUS
<1>4. Ahead(x) = {}
  <2>1. SUFFICES ASSUME NEW y \in S, <<y, x>> \in R PROVE FALSE
    OBVIOUS
  <2>2. Ahead(y) \subseteq Ahead(x) /\ y \in Ahead(x) /\ y \notin Ahead(y)
    BY <2>1 DEF IsRow
  <2> HIDE DEF Ahead
  <2>3. Ahead(y) # Ahead(x)
    BY <2>2
  <2>4. /\ Cardinality(Ahead(y)) <= Cardinality(Ahead(x))
        /\ Cardinality(Ahead(y)) # Cardinality(Ahead(x))
    BY <1>1, <2>2, <2>3, FS_Subset
  <2>5. m <= Cardinality(Ahead(y))
    BY <1>2
  <2> QED
    BY <1>1, <1>3, <2>4, <2>5
<1> QED
  BY <1>4 DEF IsRow

\* The elements that come first in a finite row, as many as one likes.
LEMMA HasFirstOnes ==
    ASSUME NEW S, IsFiniteSet(S), NEW R, IsRow(R, S), NEW k \in 0 .. Cardinality(S)
    PROVE  \E T \in SUBSET S : /\ Cardinality(T) = k
                               /\ \A x \in T, y \in S \ T : <<x, y>> \in R
<1> DEFINE IsFirst(T, j) == /\ Cardinality(T) = j
                            /\ \A x \in T, y \in S \ T : <<x, y>> \in R
           Bad == {j \in 0 .. Cardinality(S) : ~ \E T \in SUBSET S : IsFirst(T, j)}
<1>0. Cardinality(S) \in Nat
  BY FS_CardinalityType
<1>1. SUFFICES ASSUME Bad # {} PROVE FALSE
  OBVIOUS
<1>2. PICK j \in Bad : \A i \in Bad : j <= i
  <2>1. Bad \subseteq Nat
    BY <1>0
  <2> HIDE DEF Bad
  <2> QED
    BY <1>1, <2>1, LeastNumber
<1>3. j \in 0 .. Cardinality(S)
  OBVIOUS
<1>4. j # 0
  <2>1. IsFirst({}, 0)
    BY FS_EmptySet
  <2> QED
    BY <2>1
<1>5. j - 1 \in 0 .. Cardinality(S) /\ j - 1 < Cardinality(S) /\ j - 1 \notin Bad
  <2> HIDE DEF Bad
  <2> QED
    BY <1>0, <1>2, <1>3, <1>4
<1>6. PICK T \in SUBSET S : IsFirst(T, j - 1)
  BY <1>5
<1>7. T # S /\ IsFiniteSet(T) /\ IsFiniteSet(S \ T)
  BY <1>0, <1>5, <1>6, FS_Subset
<1>8. IsRow(R, S \ T)
  BY DEF IsRow
<1>9. PICK x \in S \ T : \A y \in (S \ T) \ {x} : <<x, y>> \in R
  BY <1>7, <1>8, HasFirst
<1>10. Cardinality(T \cup {x}) = j
  <2>1. Cardinality(T) = j - 1 /\ x \notin T /\ j \in Int
    BY <1>0, <1>3, <1>6
  <2>2. Cardinality(T \cup {x}) = Cardinality(T) + 1
    BY <1>7, <2>1, FS_AddElement
  <2> QED
    BY <2>1, <2>2
<1>11. IsFirst(T \cup {x}, j)
  BY <1>6, <1>9, <1>10
<1>12. T \cup {x} \in SUBSET S
  BY <1>9
<1> HIDE DEF IsFirst
<1> QED
  BY <1>11, <1>12

\* The order of numbers is that of their multiples.
LEMMA NumbersTimes ==
    ASSUME NEW a \in Nat, NEW b \in Nat, a <= b, NEW c \in Nat
    PROVE  a * c <= b * c
<1> DEFINE d == b - a
<1>1. d \in Nat /\ b = a + d
  OBVIOUS
<1> HIDE DEF d
<1>2. d * c \in Nat /\ a * c \in Nat
  BY <1>1
<1>3. (a + d) * c = a * c + d * c
  BY <1>1
<1> QED
  BY <1>1, <1>2, <1>3

-----------------------------------------------------------------------------
(* The sum over a set.                                                      *)

SumOf(f, S) == MapThenSumSet(LAMBDA x : f[x], S)

Chosen(s) == CHOOSE x \in s : TRUE

\* What the fold computes for each subset.
AddsUp(sum, f, S) ==
    sum = [s \in SUBSET S |-> IF s = {} THEN 0 ELSE f[Chosen(s)] + sum[s \ {Chosen(s)}]]

\* The sum is a value of the function that the fold defines by recursion.
LEMMA SumIsChosen ==
    ASSUME NEW f, NEW S
    PROVE  SumOf(f, S) = (CHOOSE sum : AddsUp(sum, f, S))[S]
BY DEF SumOf, MapThenSumSet, MapThenFoldSet, AddsUp, Chosen

\* The recursion of the fold ends: there is a function that adds up on all sets
\* of a given size, if there is one for those that are smaller.
LEMMA SumExists ==
    ASSUME NEW S, IsFiniteSet(S), NEW f
    PROVE  \E sum : AddsUp(sum, f, S)
<1> DEFINE Upto(k) == {s \in SUBSET S : Cardinality(s) <= k}
           Adds(g, k) == \A s \in Upto(k) :
                            g[s] = IF s = {} THEN 0 ELSE f[Chosen(s)] + g[s \ {Chosen(s)}]
           Bad == {k \in Nat : ~ \E g : Adds(g, k)}
<1>1. \A s \in SUBSET S : IsFiniteSet(s) /\ Cardinality(s) \in Nat
  BY FS_Subset, FS_CardinalityType
<1>2. \A s \in SUBSET S : s # {} => /\ s \ {Chosen(s)} \in SUBSET S
                                     /\ Cardinality(s \ {Chosen(s)}) = Cardinality(s) - 1
  <2>1. SUFFICES ASSUME NEW s \in SUBSET S, s # {}
                 PROVE  Cardinality(s \ {Chosen(s)}) = Cardinality(s) - 1
    OBVIOUS
  <2>2. Chosen(s) \in s
    BY <2>1 DEF Chosen
  <2> QED
    BY <1>1, <2>2, FS_RemoveElement
<1>3. Bad = {}
  <2>1. SUFFICES ASSUME Bad # {} PROVE FALSE
    OBVIOUS
  <2>2. PICK k \in Bad : \A i \in Bad : k <= i
    <3>1. Bad \subseteq Nat
      OBVIOUS
    <3> HIDE DEF Bad
    <3> QED
      BY <2>1, <3>1, LeastNumber
  <2>3. k \in Nat
    OBVIOUS
  <2>4. k # 0
    <3>1. Adds([s \in SUBSET S |-> 0], 0)
      <4>1. \A s \in Upto(0) : s = {}
        BY <1>1, FS_EmptySet
      <4> QED
        BY <4>1
    <3> QED
      BY <3>1
  <2>5. PICK g : Adds(g, k - 1)
    <3>1. k - 1 \in Nat /\ k - 1 \notin Bad
      <4> HIDE DEF Bad
      <4> QED
        BY <2>2, <2>3, <2>4
    <3> QED
      BY <3>1
  <2> DEFINE h == [s \in SUBSET S |->
                      IF Cardinality(s) < k THEN g[s]
                      ELSE IF s = {} THEN 0 ELSE f[Chosen(s)] + g[s \ {Chosen(s)}]]
  <2>6. Adds(h, k)
    <3> SUFFICES ASSUME NEW s \in Upto(k)
                 PROVE  h[s] = IF s = {} THEN 0 ELSE f[Chosen(s)] + h[s \ {Chosen(s)}]
      OBVIOUS
    <3>1. s \in SUBSET S /\ Cardinality(s) <= k /\ Cardinality(s) \in Nat
      BY <1>1
    <3>2. ASSUME s # {} PROVE h[s \ {Chosen(s)}] = g[s \ {Chosen(s)}]
      <4>1. s \ {Chosen(s)} \in SUBSET S /\ Cardinality(s \ {Chosen(s)}) < k
        BY <1>2, <2>3, <3>1, <3>2
      <4> QED
        BY <4>1
    <3>3. CASE Cardinality(s) < k
      <4>1. h[s] = g[s]
        BY <3>1, <3>3
      <4>2. s \in Upto(k - 1)
        BY <2>3, <3>1, <3>3
      <4>3. g[s] = IF s = {} THEN 0 ELSE f[Chosen(s)] + g[s \ {Chosen(s)}]
        BY <2>5, <4>2
      <4> HIDE DEF h
      <4> QED
        BY <3>2, <4>1, <4>3
    <3>4. CASE ~ (Cardinality(s) < k)
      <4>1. h[s] = IF s = {} THEN 0 ELSE f[Chosen(s)] + g[s \ {Chosen(s)}]
        BY <3>1, <3>4
      <4> HIDE DEF h
      <4> QED
        BY <3>2, <4>1
    <3> QED
      BY <3>3, <3>4
  <2> HIDE DEF Adds
  <2> QED
    BY <2>3, <2>6
<1>4. PICK g : Adds(g, Cardinality(S))
  <2>1. Cardinality(S) \in Nat
    BY FS_CardinalityType
  <2> HIDE DEF Adds
  <2> QED
    BY <1>3, <2>1
<1>5. Upto(Cardinality(S)) = SUBSET S
  BY FS_Subset
<1> DEFINE sum == [s \in SUBSET S |-> g[s]]
<1>6. \A s \in SUBSET S : sum[s] = IF s = {} THEN 0 ELSE f[Chosen(s)] + sum[s \ {Chosen(s)}]
  BY <1>4, <1>5
<1>7. AddsUp(sum, f, S)
  BY <1>6 DEF AddsUp
<1> QED
  BY <1>7

\* A sum lies between the smallest and the greatest value times their number.
LEMMA SumBounds ==
    ASSUME NEW S, IsFiniteSet(S), NEW f, NEW low \in Int, NEW high \in Int,
           \A x \in S : f[x] \in low .. high
    PROVE  /\ SumOf(f, S) \in Int
           /\ Cardinality(S) * low <= SumOf(f, S)
           /\ SumOf(f, S) <= Cardinality(S) * high
<1>1. PICK sum : AddsUp(sum, f, S) /\ SumOf(f, S) = sum[S]
  BY SumExists, SumIsChosen
<1>2. \A s \in SUBSET S : sum[s] = IF s = {} THEN 0 ELSE f[Chosen(s)] + sum[s \ {Chosen(s)}]
  BY <1>1 DEF AddsUp
<1> DEFINE Fits(s) == /\ sum[s] \in Int
                      /\ Cardinality(s) * low <= sum[s]
                      /\ sum[s] <= Cardinality(s) * high
           Bad == {Cardinality(s) : s \in {t \in SUBSET S : ~Fits(t)}}
<1>3. \A s \in SUBSET S : IsFiniteSet(s) /\ Cardinality(s) \in Nat
  BY FS_Subset, FS_CardinalityType
<1>4. Bad = {}
  <2>1. SUFFICES ASSUME Bad # {} PROVE FALSE
    OBVIOUS
  <2>2. PICK k \in Bad : \A i \in Bad : k <= i
    <3>1. Bad \subseteq Nat
      BY <1>3
    <3> HIDE DEF Bad
    <3> QED
      BY <2>1, <3>1, LeastNumber
  <2>3. PICK s \in SUBSET S : ~Fits(s) /\ k = Cardinality(s)
    OBVIOUS
  <2>4. s # {}
    <3>1. sum[{}] = 0 /\ Cardinality({}) = 0
      BY <1>2, FS_EmptySet
    <3>2. Fits({})
      BY <3>1
    <3> QED
      BY <2>3, <3>2
  <2> DEFINE x == Chosen(s)
             t == s \ {x}
  <2>5. x \in s /\ x \in S
    BY <2>4 DEF Chosen
  <2>6. t \in SUBSET S /\ Cardinality(t) = Cardinality(s) - 1 /\ Cardinality(t) \in Nat
    BY <1>3, <2>5, FS_RemoveElement
  <2>7. sum[s] = f[x] + sum[t]
    BY <1>2, <2>4
  <2> HIDE DEF x, t
  <2>8. Fits(t)
    <3>1. SUFFICES ASSUME ~Fits(t) PROVE FALSE
      OBVIOUS
    <3>2. Cardinality(t) \in Bad
      BY <2>6, <3>1
    <3>3. k <= Cardinality(t)
      BY <2>2, <3>2
    <3> QED
      BY <1>3, <2>3, <2>6, <3>3
  <2>9. f[x] \in Int /\ low <= f[x] /\ f[x] <= high
    BY <2>5
  <2>10. /\ Cardinality(s) * low = Cardinality(t) * low + low
         /\ Cardinality(s) * high = Cardinality(t) * high + high
    <3>1. \A n \in Nat, v \in Int : (n + 1) * v = n * v + v
      OBVIOUS
    <3>2. Cardinality(s) = Cardinality(t) + 1
      BY <1>3, <2>6
    <3> QED
      BY <2>6, <3>1, <3>2
  <2>11. Cardinality(t) * low \in Int /\ Cardinality(t) * high \in Int
    BY <2>6
  <2>12. Fits(s)
    BY <2>7, <2>8, <2>9, <2>10, <2>11
  <2> QED
    BY <2>3, <2>12
<1>5. Fits(S)
  BY <1>4
<1> QED
  BY <1>1, <1>5

-----------------------------------------------------------------------------
(* The histogram.                                                           *)

AreHits(hits) ==
    /\ IsFiniteSet(hits)
    /\ \A h \in hits : h.hash \in Nat /\ h.song \in Nat /\ h.delta \in Int

\* A group has a hit at least, and finitely many.
LEMMA GroupsAreCounted ==
    ASSUME NEW hits, AreHits(hits)
    PROVE  /\ IsFiniteSet(Groups(hits))
           /\ \A g \in Groups(hits) : /\ g = [song |-> g.song, delta |-> g.delta]
                                      /\ g.song \in Nat /\ g.delta \in Int
                                      /\ Count(hits, g) \in Nat \ {0}
<1>1. IsFiniteSet(Groups(hits))
  <2> DEFINE groupOf == [h \in hits |-> [song |-> h.song, delta |-> h.delta]]
  <2>1. groupOf \in Surjection(hits, Groups(hits))
    BY Fun_IsSurj DEF Groups
  <2> QED
    BY <2>1, FS_Surjection DEF AreHits
<1>2. ASSUME NEW g \in Groups(hits) PROVE Count(hits, g) \in Nat \ {0}
  <2> DEFINE those == {h \in hits : h.song = g.song /\ h.delta = g.delta}
  <2>1. PICK h \in hits : g = [song |-> h.song, delta |-> h.delta]
    BY DEF Groups
  <2>2. h \in those
    BY <2>1
  <2>3. IsFiniteSet(those) /\ Cardinality(those) \in Nat
    BY FS_Subset, FS_CardinalityType DEF AreHits
  <2>4. Cardinality(those) # 0
    BY <2>2, <2>3, FS_EmptySet
  <2> QED
    BY <2>3, <2>4 DEF Count
<1> QED
  BY <1>1, <1>2 DEF Groups, AreHits

\* The order of the multimap puts the groups in a row.
InOrder(counts, groups) == {p \in groups \X groups : Before(counts, p[1], p[2])}

LEMMA GroupsAreOrdered ==
    ASSUME NEW hits, AreHits(hits)
    PROVE  IsRow(InOrder(groupDeltasByCount(hits), Groups(hits)), Groups(hits))
<1> DEFINE counts == groupDeltasByCount(hits)
<1>1. /\ DOMAIN counts = Groups(hits)
      /\ \A g \in Groups(hits) : /\ counts[g] \in Nat /\ g.song \in Nat /\ g.delta \in Int
                                 /\ g = [song |-> g.song, delta |-> g.delta]
  BY GroupsAreCounted DEF groupDeltasByCount
<1> HIDE DEF counts
<1>2. \A g1, g2 \in Groups(hits) :
        <<g1, g2>> \in InOrder(counts, Groups(hits)) <=> Before(counts, g1, g2)
  BY DEF InOrder
<1>3. \A g1, g2 \in Groups(hits) : g1 = g2 \/ Before(counts, g1, g2) \/ Before(counts, g2, g1)
  BY <1>1 DEF Before
<1>4. \A g \in Groups(hits) : ~Before(counts, g, g)
  BY <1>1 DEF Before
<1>5. \A g1, g2, g3 \in Groups(hits) :
        Before(counts, g1, g2) /\ Before(counts, g2, g3) => Before(counts, g1, g3)
  BY <1>1 DEF Before
<1>6. IsRow(InOrder(counts, Groups(hits)), Groups(hits))
  BY <1>2, <1>3, <1>4, <1>5 DEF IsRow
<1> QED
  BY <1>6 DEF counts

\* The peak is a group with the greatest count.
LEMMA PeakIsGreatest ==
    ASSUME NEW hits, AreHits(hits), hits # {}
    PROVE  LET counts == groupDeltasByCount(hits)
           IN  /\ Peak(counts) \in Groups(hits)
               /\ \A g \in Groups(hits) : counts[g] <= counts[Peak(counts)]
<1> DEFINE counts == groupDeltasByCount(hits)
<1>1. /\ DOMAIN counts = Groups(hits)
      /\ \A g \in Groups(hits) : counts[g] \in Nat
  BY GroupsAreCounted DEF groupDeltasByCount
<1>2. /\ Groups(hits) # {} /\ IsFiniteSet(Groups(hits))
      /\ IsRow(InOrder(counts, Groups(hits)), Groups(hits))
  BY GroupsAreCounted, GroupsAreOrdered DEF Groups
<1> HIDE DEF counts
<1>3. \E g \in Groups(hits) :
        \A other \in Groups(hits) \ {g} : <<g, other>> \in InOrder(counts, Groups(hits))
  BY <1>2, HasFirst
<1>4. \E g \in DOMAIN counts : \A other \in DOMAIN counts \ {g} : Before(counts, g, other)
  BY <1>1, <1>3 DEF InOrder
<1>5. /\ Peak(counts) \in DOMAIN counts
      /\ \A other \in DOMAIN counts \ {Peak(counts)} : Before(counts, Peak(counts), other)
  BY <1>4, Zenon DEF Peak
<1>6. \A g \in Groups(hits) : counts[g] <= counts[Peak(counts)]
  BY <1>1, <1>5 DEF Before
<1> QED
  BY <1>1, <1>5, <1>6 DEF counts

\* The noise is a finite set of groups of other songs.
LEMMA NoiseIsOfOthers ==
    ASSUME NEW hits, AreHits(hits)
    PROVE  LET counts == groupDeltasByCount(hits)
           IN  /\ IsFiniteSet(Noise(counts))
               /\ Noise(counts) \subseteq {g \in Groups(hits) : g.song # Peak(counts).song}
<1> DEFINE counts == groupDeltasByCount(hits)
           others == {g \in DOMAIN counts : g.song # Peak(counts).song}
           many == IF Cardinality(others) < MaxNoise THEN Cardinality(others) ELSE MaxNoise
<1>1. DOMAIN counts = Groups(hits)
  BY DEF groupDeltasByCount
<1>2. IsFiniteSet(others) /\ Cardinality(others) \in Nat
  BY <1>1, GroupsAreCounted, FS_Subset, FS_CardinalityType
<1>3. IsRow(InOrder(counts, Groups(hits)), others)
  BY <1>1, GroupsAreOrdered DEF IsRow
<1>4. many \in 0 .. Cardinality(others)
  BY <1>2, HistogramAssumption
<1> HIDE DEF counts, many
<1>5. \E noise \in SUBSET others :
        /\ Cardinality(noise) = many
        /\ \A g \in noise, other \in others \ noise : <<g, other>> \in InOrder(counts, Groups(hits))
  BY <1>2, <1>3, <1>4, HasFirstOnes
<1>6. \E noise \in SUBSET others :
        /\ Cardinality(noise) = many
        /\ \A g \in noise, other \in others \ noise : Before(counts, g, other)
  BY <1>5 DEF InOrder
<1>7. Noise(counts) = CHOOSE noise \in SUBSET others :
                          /\ Cardinality(noise) = many
                          /\ \A g \in noise, other \in others \ noise : Before(counts, g, other)
  BY DEF Noise, many
<1>8. Noise(counts) \in SUBSET others
  BY <1>6, <1>7, Zenon
<1> QED
  BY <1>1, <1>2, <1>8, FS_Subset DEF counts

\* What an answer says of the hits: a hit of the song and at the time that are
\* returned, with enough others at its delta.
LEMMA AnswerHasHits ==
    ASSUME NEW hits, AreHits(hits), findDominantPeak(hits) # Uncertain
    PROVE  LET found == findDominantPeak(hits)
           IN  \E h \in hits :
                   /\ found = [status |-> "OK", song |-> h.song, timestamp |-> h.hash + h.delta]
                   /\ Count(hits, h) > MinDistance + 1
<1> DEFINE counts == groupDeltasByCount(hits)
           peak == Peak(counts)
           noise == Noise(counts)
<1>1. /\ hits # {} /\ IsDistant(counts[peak], counts, noise)
      /\ findDominantPeak(hits) =
            [status |-> "OK", song |-> peak.song, timestamp |-> Timestamp(hits, peak)]
  BY DEF findDominantPeak
<1>2. /\ peak \in Groups(hits)
      /\ \A g \in Groups(hits) : counts[g] <= counts[peak]
  BY <1>1, PeakIsGreatest
<1>3. IsFiniteSet(noise) /\ noise \subseteq Groups(hits)
  BY NoiseIsOfOthers
<1>4. \A g \in Groups(hits) : counts[g] = Count(hits, g) /\ counts[g] \in Nat \ {0}
  BY GroupsAreCounted DEF groupDeltasByCount
<1>5. PICK h0 \in hits : peak = [song |-> h0.song, delta |-> h0.delta]
  BY <1>2 DEF Groups
<1>6. counts[peak] > MinDistance + 1
  <2> HIDE DEF counts, peak, noise
  <2>0. MinDistance \in Nat /\ counts[peak] \in Nat
    BY <1>2, <1>4, HistogramAssumption
  <2>1. CASE noise = {}
    BY <1>1, <2>0, <2>1 DEF IsDistant
  <2>2. CASE noise # {}
    <3>1. Cardinality(noise) \in Nat /\ Cardinality(noise) > 0
      BY <1>3, <2>2, FS_CardinalityType, FS_EmptySet
    <3>2. \A g \in noise : counts[g] \in 1 .. counts[peak]
      BY <1>2, <1>3, <1>4, <2>0
    <3>3. SumOf(counts, noise) \in Int /\ Cardinality(noise) * 1 <= SumOf(counts, noise)
      BY <1>3, <2>0, <3>2, SumBounds
    <3>4. MinDistance * Cardinality(noise)
             < counts[peak] * Cardinality(noise) - SumOf(counts, noise)
      BY <1>1, <2>2 DEF IsDistant, SumOf
    <3>5. \A n \in Nat, d \in Nat, v \in Nat, sum \in Int :
             n > 0 /\ n * 1 <= sum /\ d * n < v * n - sum => v > d + 1
      <4> SUFFICES ASSUME NEW n \in Nat, NEW d \in Nat, NEW v \in Nat, n > 0, v <= d + 1
                   PROVE  v * n <= d * n + n
        OBVIOUS
      <4>1. v * n <= (d + 1) * n
        BY NumbersTimes
      <4>2. (d + 1) * n = d * n + n
        OBVIOUS
      <4> QED
        BY <4>1, <4>2
    <3> QED
      BY <2>0, <3>1, <3>3, <3>4, <3>5
  <2> QED
    BY <2>1, <2>2
<1>7. \E h \in hits : /\ h.song = peak.song /\ h.delta = peak.delta
                      /\ Timestamp(hits, peak) = h.hash + peak.delta
  <2> DEFINE hashes == {h.hash : h \in {x \in hits : x.song = peak.song /\ x.delta = peak.delta}}
  <2> HIDE DEF peak
  <2>1. hashes \subseteq Nat /\ hashes # {}
    BY <1>5 DEF AreHits
  <2> HIDE DEF hashes
  <2>2. \E m \in hashes : \A n \in hashes : m <= n
    BY <2>1, LeastNumber
  <2>3. Min(hashes) \in hashes
    BY <2>2, Zenon DEF Min
  <2>4. Timestamp(hits, peak) = Min(hashes) + peak.delta
    BY DEF Timestamp, hashes
  <2> QED
    BY <2>3, <2>4 DEF hashes
<1>8. PICK h \in hits : /\ h.song = peak.song /\ h.delta = peak.delta
                       /\ Timestamp(hits, peak) = h.hash + peak.delta
  BY <1>7
<1>9. Count(hits, h) = counts[peak]
  BY <1>2, <1>4, <1>8 DEF Count
<1> HIDE DEF peak, counts, noise
<1> QED
  BY <1>1, <1>6, <1>8, <1>9

\* A group that stands out is the answer.
LEMMA DominantGroupIsFound ==
    ASSUME NEW hits, AreHits(hits), NEW h \in hits,
           Count(hits, h) > MinDistance + 1,
           \A x \in hits : x.song # h.song => Count(hits, h) - Count(hits, x) > MinDistance
    PROVE  findDominantPeak(hits).status = "OK" /\ findDominantPeak(hits).song = h.song
<1> DEFINE counts == groupDeltasByCount(hits)
           peak == Peak(counts)
           noise == Noise(counts)
           group == [song |-> h.song, delta |-> h.delta]
<1>1. /\ peak \in Groups(hits)
      /\ \A g \in Groups(hits) : counts[g] <= counts[peak]
  BY PeakIsGreatest
<1>2. IsFiniteSet(noise) /\ noise \subseteq {g \in Groups(hits) : g.song # peak.song}
  BY NoiseIsOfOthers
<1>3. \A g \in Groups(hits) : counts[g] = Count(hits, g) /\ counts[g] \in Nat \ {0}
  BY GroupsAreCounted DEF groupDeltasByCount
<1>4. group \in Groups(hits) /\ group.song = h.song /\ counts[group] = Count(hits, h)
  <2>1. group \in Groups(hits)
    BY DEF Groups
  <2>2. Count(hits, group) = Count(hits, h)
    BY DEF Count
  <2> QED
    BY <1>3, <2>1, <2>2
<1>5. \A g \in Groups(hits) : g.song # h.song => counts[group] - counts[g] > MinDistance
  <2> SUFFICES ASSUME NEW g \in Groups(hits), g.song # h.song
               PROVE  counts[group] - counts[g] > MinDistance
    OBVIOUS
  <2>1. PICK x \in hits : g = [song |-> x.song, delta |-> x.delta]
    BY DEF Groups
  <2>2. x.song # h.song /\ Count(hits, g) = Count(hits, x)
    BY <2>1 DEF Count
  <2> HIDE DEF counts, group
  <2> QED
    BY <1>3, <1>4, <2>2
<1> HIDE DEF counts, peak, noise, group
<1>6. MinDistance \in Nat /\ counts[peak] \in Nat /\ counts[group] \in Nat
  BY <1>1, <1>3, <1>4, HistogramAssumption
<1>7. peak.song = h.song
  BY <1>1, <1>3, <1>4, <1>5, <1>6
<1>8. counts[peak] > MinDistance + 1
  BY <1>1, <1>4, <1>6
<1>9. IsDistant(counts[peak], counts, noise)
  <2>1. CASE noise = {}
    BY <1>6, <1>8, <2>1 DEF IsDistant
  <2>2. CASE noise # {}
    <3> DEFINE most == counts[peak] - MinDistance - 1
    <3>1. Cardinality(noise) \in Nat /\ Cardinality(noise) > 0
      BY <1>2, <2>2, FS_CardinalityType, FS_EmptySet
    <3>2. \A g \in noise : counts[g] \in 0 .. most
      <4> SUFFICES ASSUME NEW g \in noise PROVE counts[g] \in 0 .. most
        OBVIOUS
      <4>1. g \in Groups(hits) /\ g.song # h.song
        BY <1>2, <1>7
      <4>2. /\ counts[group] - counts[g] > MinDistance
            /\ counts[g] \in Nat /\ counts[group] <= counts[peak]
        BY <1>1, <1>3, <1>4, <1>5, <4>1
      <4> QED
        BY <1>6, <4>2
    <3>3. SumOf(counts, noise) \in Int /\ SumOf(counts, noise) <= Cardinality(noise) * most
      <4>1. most \in Int /\ 0 \in Int
        BY <1>6
      <4> HIDE DEF most
      <4> QED
        BY <1>2, <3>2, <4>1, SumBounds
    <3>4. \A n \in Nat, d \in Nat, v \in Nat, sum \in Int :
             n > 0 /\ sum <= n * (v - d - 1) => d * n < v * n - sum
      <4> SUFFICES ASSUME NEW n \in Nat, NEW d \in Nat, NEW v \in Nat, NEW sum \in Int,
                          n > 0, sum <= n * (v - d - 1)
                   PROVE  d * n < v * n - sum
        OBVIOUS
      <4>1. n * (v - d - 1) = v * n - d * n - n
        OBVIOUS
      <4>2. d * n \in Int /\ v * n \in Int
        OBVIOUS
      <4> QED
        BY <4>1, <4>2
    <3>5. MinDistance * Cardinality(noise)
             < counts[peak] * Cardinality(noise) - SumOf(counts, noise)
      BY <1>6, <3>1, <3>3, <3>4
    <3> QED
      BY <2>2, <3>5 DEF IsDistant, SumOf
  <2> QED
    BY <2>1, <2>2
<1>10. findDominantPeak(hits) =
         [status |-> "OK", song |-> peak.song, timestamp |-> Timestamp(hits, peak)]
  BY <1>9 DEF findDominantPeak, counts, peak, noise
<1> QED
  BY <1>7, <1>10

-----------------------------------------------------------------------------
(* The collection of a command, and its requests.                          *)

Start == (count \div BatchSize) * BatchSize

\* A batch more is not less.
LEMMA TimesMonotone ==
    ASSUME NEW a \in Nat, NEW b \in Nat, a <= b
    PROVE  a * BatchSize <= b * BatchSize
BY NumbersTimes, CommandAssumption

\* Where the remainder starts: at the whole batches, less than one before the
\* end, and at the end if the batches come out even.
LEMMA StartBounds ==
    ASSUME count \in Nat
    PROVE  /\ count \div BatchSize \in Nat
           /\ Start \in Nat
           /\ Start <= count
           /\ count < Start + BatchSize
           /\ count % BatchSize = 0 => Start = count
<1> DEFINE q == count \div BatchSize
<1>1. q \in Nat /\ count % BatchSize \in 0 .. BatchSize - 1
  BY CommandAssumption
<1>2. count = BatchSize * q + (count % BatchSize)
  BY CommandAssumption
<1>3. q * BatchSize \in Nat /\ BatchSize * q = q * BatchSize
  <2> HIDE DEF q
  <2> QED
    BY <1>1, CommandAssumption
<1> QED
  BY <1>1, <1>2, <1>3, CommandAssumption DEF Start

\* A batch that fits into the collection fits before the remainder.
LEMMA BatchFits ==
    ASSUME count \in Nat, NEW k \in Nat, k * BatchSize <= count - BatchSize
    PROVE  (k + 1) * BatchSize <= Start
<1> DEFINE q == count \div BatchSize
<1>1. q \in Nat /\ count < q * BatchSize + BatchSize
  BY StartBounds DEF Start
<1>2. q * BatchSize \in Nat /\ k * BatchSize \in Nat
  BY <1>1, CommandAssumption
<1>3. k + 1 <= q
  <2>1. SUFFICES ASSUME q <= k PROVE FALSE
    BY <1>1
  <2>2. q * BatchSize <= k * BatchSize
    BY <1>1, <2>1, TimesMonotone
  <2> QED
    BY <1>1, <1>2, <2>2, CommandAssumption
<1>4. (k + 1) * BatchSize <= q * BatchSize
  BY <1>1, <1>3, TimesMonotone
<1> QED
  BY <1>4 DEF Start

-----------------------------------------------------------------------------
\* The loop variable.
Loop ==
    /\ \E k \in Nat : next = k * BatchSize
    /\ next <= Start

\* The requests made so far, and those under way.
Progress ==
    /\ pc = "call" => next = 0 /\ sent = {} /\ pending = {}
    /\ pc = "remainder" => next = 0 /\ sent = {} /\ pending = {}
    /\ pc = "batches" => UNION sent = Remainder \cup 0 .. next - 1
    /\ pc = "join" => UNION sent = Queries
    /\ pc = "true" => UNION sent = Queries
    /\ pc \in Results => pending = {}

Disjoint == \A r1, r2 \in sent : r1 = r2 \/ r1 \cap r2 = {}

Inv == CommandTypeOK /\ Loop /\ Progress /\ Disjoint

\* The invariant holds before the first request ...
LEMMA InitInv == CommandInit => Inv
<1> SUFFICES ASSUME CommandInit PROVE Inv
  OBVIOUS
<1> USE DEF CommandInit
<1>1. count \in Nat
  BY CommandAssumption
<1>2. CommandTypeOK
  BY DEF CommandTypeOK
<1>3. 0 = 0 * BatchSize
  BY CommandAssumption
<1>4. Loop
  BY <1>1, <1>3, StartBounds DEF Loop
<1>5. Progress /\ Disjoint
  BY DEF Progress, Disjoint, Results
<1> QED
  BY <1>2, <1>4, <1>5 DEF Inv

\* What a request adds to what has been sent.
LEMMA SentGrows ==
    ASSUME NEW r, sent' = sent \cup {r}
    PROVE  UNION sent' = (UNION sent) \cup r
OBVIOUS

\* A new request that shares no query with those before keeps them disjoint.
LEMMA StaysDisjoint ==
    ASSUME Disjoint, NEW r, sent' = sent \cup {r}, r \cap (UNION sent) = {}
    PROVE  Disjoint'
BY DEF Disjoint

\* A sequence over the requests stays one when there are more of them.
LEMMA BufferType ==
    ASSUME m_bufVec \in Seq(sent), NEW r \in sent', sent \subseteq sent'
    PROVE  m_bufVec \in Seq(sent') /\ Append(m_bufVec, r) \in Seq(sent')
<1>1. m_bufVec \in Seq(sent')
  OBVIOUS
<1> QED
  BY <1>1

\* The next batch starts where the last one has ended, stops before the
\* remainder, and has no query that has been sent.
LEMMA BatchIsNext ==
    ASSUME Inv, SubmitBatch
    PROVE  /\ \E k \in Nat : next' = k * BatchSize
           /\ next' \in Nat /\ next' = next + BatchSize /\ next' <= Start
           /\ Batch(next) = next .. next' - 1
           /\ Batch(next) \cap (UNION sent) = {}
           /\ Batch(next) \notin sent
<1> USE DEF Inv, SubmitBatch
<1>0. /\ count \in Nat /\ next \in Nat /\ Start \in Nat
      /\ BatchSize \in Nat /\ BatchSize > 0
  BY CommandAssumption, StartBounds DEF CommandTypeOK
<1>1. PICK k \in Nat : next = k * BatchSize
  BY DEF Loop
<1>2. (k + 1) * BatchSize <= Start /\ next' = (k + 1) * BatchSize /\ k + 1 \in Nat
  <2>1. (k + 1) * BatchSize <= Start
    BY <1>0, <1>1, BatchFits
  <2>2. (k + 1) * BatchSize = k * BatchSize + BatchSize
    BY <1>0
  <2> QED
    BY <1>1, <2>1, <2>2
<1>3. next' \in Nat /\ next' <= Start /\ next' = next + BatchSize
  BY <1>0, <1>2
<1>4. Batch(next) = next .. next' - 1
  BY <1>0, <1>3 DEF Batch
<1>5. UNION sent = Remainder \cup 0 .. next - 1
  BY DEF Progress
<1>6. Batch(next) \cap (UNION sent) = {}
  <2>1. \A i \in Remainder : i >= next'
    BY <1>0, <1>3 DEF Remainder, Start
  <2> QED
    BY <1>0, <1>3, <1>4, <1>5, <2>1
<1>7. next \in Batch(next)
  BY <1>0, <1>3, <1>4
<1> QED
  BY <1>2, <1>3, <1>4, <1>6, <1>7

\* ... and every step keeps it.
LEMMA StepInv == Inv /\ [CommandNext]_command => Inv'
<1> SUFFICES ASSUME Inv, [CommandNext]_command PROVE Inv'
  OBVIOUS
<1> USE DEF Inv
<1>0. /\ CommandTypeOK /\ count \in Nat /\ next \in Nat
      /\ Start \in Nat /\ Start <= count /\ count < Start + BatchSize
      /\ BatchSize \in Nat /\ BatchSize > 0
  BY CommandAssumption, StartBounds DEF CommandTypeOK
<1>1. ASSUME UNCHANGED count PROVE Start' = Start /\ Remainder' = Remainder /\ Queries' = Queries
  BY <1>1 DEF Start, Remainder, Queries
<1>2. Remainder \subseteq Queries
  BY <1>0 DEF Remainder, Queries, Start
<1>3. CASE CallEmpty
  <2> USE <1>3 DEF CallEmpty
  <2>1. CommandTypeOK'
    BY <1>0, <1>1 DEF CommandTypeOK, Results
  <2>2. Loop'
    BY <1>1 DEF Loop
  <2>3. Queries = {}
    BY DEF Queries
  <2>4. Progress' /\ Disjoint'
    BY <1>1, <2>3 DEF Progress, Disjoint, Results
  <2> QED
    BY <2>1, <2>2, <2>4
<1>4. CASE CallSingle
  <2> USE <1>4 DEF CallSingle
  <2>1. sent = {} /\ pending = {}
    BY DEF Progress
  <2>2. m_bufVec \in Seq(sent')
    BY <2>1, BufferType DEF CommandTypeOK
  <2>3. CommandTypeOK'
    BY <1>0, <1>1, <2>1, <2>2 DEF CommandTypeOK, Results
  <2>4. Loop'
    BY <1>1 DEF Loop
  <2>5. Progress' /\ Disjoint'
    BY <1>1, <2>1 DEF Progress, Disjoint, Results
  <2> QED
    BY <2>3, <2>4, <2>5
<1>5. CASE Call
  <2> USE <1>5 DEF Call
  <2>1. CommandTypeOK'
    BY <1>0, <1>1 DEF CommandTypeOK, Results
  <2>2. Loop'
    BY <1>1 DEF Loop
  <2>3. next = 0 /\ sent = {} /\ pending = {}
    BY DEF Progress
  <2>4. ASSUME ~HasRemainder PROVE Remainder = {}
    <3>1. Start = count
      BY <1>0, <2>4, StartBounds DEF HasRemainder
    <3> QED
      BY <1>0, <3>1 DEF Remainder, Start
  <2>5. Progress'
    BY <1>1, <2>3, <2>4 DEF Progress, Results
  <2> QED
    BY <2>1, <2>2, <2>3, <2>5 DEF Disjoint
<1>6. CASE RemainderSucceeds
  <2> USE <1>6 DEF RemainderSucceeds
  <2>1. next = 0 /\ sent = {} /\ pending = {}
    BY DEF Progress
  <2>2. Append(m_bufVec, Remainder) \in Seq(sent')
    BY BufferType DEF CommandTypeOK
  <2>3. CommandTypeOK'
    BY <1>0, <1>1, <1>2, <2>1, <2>2 DEF CommandTypeOK, Results
  <2>4. Loop'
    BY <1>1 DEF Loop
  <2>5. UNION sent' = Remainder
    BY <2>1
  <2>6. ASSUME count < BatchSize PROVE Remainder = Queries
    <3>1. count \div BatchSize = 0
      BY <1>0, <2>6, CommandAssumption
    <3> QED
      BY <1>0, <3>1 DEF Remainder, Queries
  <2>7. Progress'
    BY <1>1, <2>1, <2>5, <2>6 DEF Progress, Results
  <2> QED
    BY <2>1, <2>3, <2>4, <2>7 DEF Disjoint
<1>7. CASE RemainderFails
  <2> USE <1>7 DEF RemainderFails
  <2>1. sent = {} /\ pending = {}
    BY DEF Progress
  <2>2. m_bufVec \in Seq(sent')
    BY BufferType DEF CommandTypeOK
  <2>3. CommandTypeOK'
    BY <1>0, <1>1, <1>2, <2>1, <2>2 DEF CommandTypeOK, Results
  <2>4. Loop'
    BY <1>1 DEF Loop
  <2>5. Progress' /\ Disjoint'
    BY <1>1, <2>1 DEF Progress, Disjoint, Results
  <2> QED
    BY <2>3, <2>4, <2>5
<1>8. CASE SubmitBatch
  <2> USE <1>8 DEF SubmitBatch
  <2>1. /\ next' \in Nat /\ next' <= Start /\ next' = next + BatchSize
        /\ Batch(next) = next .. next' - 1 /\ Batch(next) \cap (UNION sent) = {}
    BY BatchIsNext
  <2>2. Loop'
    BY <1>1, <2>1, BatchIsNext DEF Loop
  <2>3. Batch(next) \subseteq Queries
    BY <1>0, <2>1 DEF Queries
  <2>4. UNION sent = Remainder \cup 0 .. next - 1
    BY DEF Progress
  <2>5. UNION sent' = Remainder \cup 0 .. next' - 1
    <3>1. 0 .. next' - 1 = (0 .. next - 1) \cup (next .. next' - 1)
      BY <1>0, <2>1
    <3> QED
      BY <2>1, <2>4, <3>1, SentGrows
  <2>6. m_bufVec \in Seq(sent')
    BY BufferType DEF CommandTypeOK
  <2>7. CommandTypeOK'
    BY <1>0, <1>1, <2>1, <2>3, <2>6 DEF CommandTypeOK
  <2>8. Progress'
    BY <1>1, <2>5 DEF Progress, Results
  <2>9. Disjoint'
    BY <2>1, StaysDisjoint
  <2> QED
    BY <2>2, <2>7, <2>8, <2>9
<1>9. CASE EndLoop
  <2> USE <1>9 DEF EndLoop
  <2>1. PICK k \in Nat : next = k * BatchSize
    BY DEF Loop
  <2>2. next = Start
    <3> DEFINE q == count \div BatchSize
    <3>1. q \in Nat /\ k * BatchSize <= q * BatchSize /\ count < q * BatchSize + BatchSize
      BY <2>1, <1>0, StartBounds DEF Loop, Start
    <3>2. q <= k
      <4>1. SUFFICES ASSUME k + 1 <= q PROVE FALSE
        BY <3>1
      <4>2. (k + 1) * BatchSize <= Start
        BY <3>1, <4>1, TimesMonotone DEF Start
      <4>3. (k + 1) * BatchSize = k * BatchSize + BatchSize
        BY <1>0
      <4> QED
        BY <1>0, <2>1, <4>2, <4>3
    <3>3. Start <= next
      BY <2>1, <3>1, <3>2, TimesMonotone DEF Start
    <3> QED
      BY <1>0, <3>3 DEF Loop
  <2>3. UNION sent = Queries
    <3>1. UNION sent = Start .. count - 1 \cup 0 .. Start - 1
      BY <2>2 DEF Progress, Remainder, Start
    <3> QED
      BY <1>0, <3>1 DEF Queries
  <2>4. CommandTypeOK'
    BY <1>0, <1>1 DEF CommandTypeOK
  <2>5. Loop'
    BY <1>1 DEF Loop
  <2>6. Progress' /\ Disjoint'
    BY <1>1, <2>3 DEF Progress, Disjoint, Results
  <2> QED
    BY <2>4, <2>5, <2>6
<1>10. CASE Return
  <2> USE <1>10 DEF Return
  <2>1. CommandTypeOK'
    BY <1>0, <1>1 DEF CommandTypeOK, Results
  <2>2. Loop'
    BY <1>1 DEF Loop
  <2>3. Progress' /\ Disjoint'
    BY <1>1 DEF Progress, Disjoint, Results
  <2> QED
    BY <2>1, <2>2, <2>3
<1>11. ASSUME NEW r \in pending, BatchSucceeds(r) \/ BatchFails(r) PROVE Inv'
  <2>1. /\ UNCHANGED <<count, pc, next, sent>>
        /\ pending' = pending \ {r}
        /\ m_bufVec' = m_bufVec \/ m_bufVec' = Append(m_bufVec, r)
    BY <1>11 DEF BatchSucceeds, BatchFails
  <2>2. m_bufVec' \in Seq(sent')
    BY <2>1, BufferType DEF CommandTypeOK
  <2>3. CommandTypeOK'
    BY <1>0, <1>1, <2>1, <2>2 DEF CommandTypeOK
  <2>4. Loop'
    BY <1>1, <2>1 DEF Loop
  <2>5. Progress' /\ Disjoint'
    BY <1>1, <2>1 DEF Progress, Disjoint, Results
  <2> QED
    BY <2>3, <2>4, <2>5
<1>12. CASE UNCHANGED command
  <2> USE <1>12 DEF command
  <2>1. CommandTypeOK' /\ Loop'
    BY <1>0, <1>1 DEF CommandTypeOK, Loop
  <2>2. Progress' /\ Disjoint'
    BY <1>1 DEF Progress, Disjoint, Results
  <2> QED
    BY <2>1, <2>2
<1> QED
  BY <1>3, <1>4, <1>5, <1>6, <1>7, <1>8, <1>9, <1>10, <1>11, <1>12
     DEF CommandNext, Execute, Task

LEMMA InvHolds == CommandSpec => []Inv
BY InitInv, StepInv, PTL DEF CommandSpec

\* The variables of a command keep their types: no request asks for a query
\* that the collection does not have.
THEOREM CommandTypeCorrect == CommandSpec => []CommandTypeOK
BY InvHolds, PTL DEF Inv

\* An executed collection has been sent whole, and no query of it twice.
THEOREM QueriesSentOnce == CommandSpec => []EachQueryOnce
<1>1. Inv => EachQueryOnce
  BY DEF Inv, Progress, Disjoint, EachQueryOnce
<1> QED
  BY <1>1, InvHolds, PTL

\* No task appends to a command whose execute() has returned.
THEOREM TasksEndFirst == CommandSpec => []NoTaskOutlives
<1>1. Inv => NoTaskOutlives
  BY DEF Inv, Progress, NoTaskOutlives
<1> QED
  BY <1>1, InvHolds, PTL

-----------------------------------------------------------------------------
(* The groups of hashes.                                                    *)

\* Groups overlap only with themselves.
LEMMA GroupsApart ==
    ASSUME NEW q1 \in Nat, NEW q2 \in Nat, Group(q1) \cap Group(q2) # {}
    PROVE  q1 = q2
<1>1. PICK i \in Hashes : i \in Group(q1) /\ i \in Group(q2)
  BY DEF Group
<1>2. GroupSize \in Nat /\ i \in Int
  BY SearchAssumption DEF Hashes
<1>3. \A p, q \in Nat : p < q /\ (q - 1) * GroupSize < i /\ i <= p * GroupSize => FALSE
  <2> SUFFICES ASSUME NEW p \in Nat, NEW q \in Nat, p < q,
                      (q - 1) * GroupSize < i, i <= p * GroupSize
               PROVE  FALSE
    OBVIOUS
  <2>1. q - 1 \in Nat /\ p <= q - 1
    OBVIOUS
  <2>2. p * GroupSize <= (q - 1) * GroupSize
    BY <1>2, <2>1, NumbersTimes
  <2>3. p * GroupSize \in Int /\ (q - 1) * GroupSize \in Int
    BY <1>2, <2>1
  <2> QED
    BY <1>2, <2>2, <2>3
<1>4. \A q \in {q1, q2} : (q - 1) * GroupSize < i /\ i <= q * GroupSize
  BY <1>1 DEF Group
<1>5. ~(q1 < q2) /\ ~(q2 < q1)
  BY <1>3, <1>4
<1> QED
  BY <1>5

\* The group of a number: the first whose end it does not pass.
LEMMA NumberHasGroup ==
    ASSUME NEW i \in Nat
    PROVE  \E q \in Nat : (q - 1) * GroupSize < i /\ i <= q * GroupSize
<1>1. GroupSize \in Nat /\ GroupSize > 0
  BY SearchAssumption
<1> DEFINE Ends == {q \in Nat : i <= q * GroupSize}
<1>2. i * GroupSize >= i
  <2>1. i * 1 <= i * GroupSize
    BY <1>1, NumbersTimes
  <2> QED
    BY <2>1
<1>3. PICK q \in Ends : \A p \in Ends : q <= p
  <2>1. Ends # {} /\ Ends \subseteq Nat
    BY <1>1, <1>2
  <2> HIDE DEF Ends
  <2> QED
    BY <2>1, LeastNumber
<1>4. q \in Nat /\ i <= q * GroupSize
  OBVIOUS
<1>5. (q - 1) * GroupSize < i
  <2>1. CASE q = 0
    BY <1>1, <1>4, <2>1
  <2>2. CASE q # 0
    <3>1. q - 1 \in Nat /\ q - 1 \notin Ends
      <4> HIDE DEF Ends
      <4> QED
        BY <1>3, <1>4, <2>2
    <3>2. ~(i <= (q - 1) * GroupSize) /\ (q - 1) * GroupSize \in Int
      BY <1>1, <3>1
    <3> QED
      BY <3>2
  <2> QED
    BY <2>1, <2>2
<1> QED
  BY <1>4, <1>5

\* The multiples of the group size.
LEMMA Multiples ==
    ASSUME NEW i \in Nat
    PROVE  i % GroupSize = 0 <=> \E k \in Nat : i = k * GroupSize
<1> DEFINE d == i \div GroupSize
           m == i % GroupSize
<1>0. GroupSize \in Nat /\ GroupSize > 0
  BY SearchAssumption
<1>1. d \in Nat /\ m \in 0 .. GroupSize - 1 /\ i = GroupSize * d + m
  BY <1>0
<1> HIDE DEF d, m
<1>2. GroupSize * d = d * GroupSize /\ d * GroupSize \in Nat
  BY <1>0, <1>1
<1>3. ASSUME m = 0 PROVE \E k \in Nat : i = k * GroupSize
  BY <1>1, <1>2, <1>3
<1>4. ASSUME NEW k \in Nat, i = k * GroupSize PROVE m = 0
  <2>1. d * GroupSize <= k * GroupSize /\ k * GroupSize < d * GroupSize + GroupSize
    BY <1>0, <1>1, <1>2, <1>4
  <2>2. (d + 1) * GroupSize = d * GroupSize + GroupSize
    BY <1>0, <1>1
  <2>3. ~(d + 1 <= k)
    BY <1>0, <1>1, <2>1, <2>2, NumbersTimes
  <2>4. k <= d
    BY <1>1, <2>3
  <2>5. k * GroupSize <= d * GroupSize
    BY <1>0, <1>1, <2>4, NumbersTimes
  <2> QED
    BY <1>1, <1>2, <1>4, <2>1, <2>5
<1> QED
  BY <1>3, <1>4 DEF m

\* The queries are as many as the groups: the last one ends with the last hash.
LEMMA QueriesAreGroups ==
    ASSUME NEW last \in Nat, size \in Nat, size > 0,
           (last - 1) * GroupSize < size - 1, size - 1 <= last * GroupSize
    PROVE  NumberOfQueries = last + 1
<1> DEFINE ends == {i \in Hashes : i % GroupSize = 0 \/ i = size - 1}
           f == [q \in 0 .. last |-> IF q < last THEN q * GroupSize ELSE size - 1]
<1>1. GroupSize \in Nat /\ GroupSize > 0
  BY SearchAssumption
<1>2. \A q \in Nat : q < last => q * GroupSize \in Nat /\ q * GroupSize < size - 1
  <2> SUFFICES ASSUME NEW q \in Nat, q < last
               PROVE  q * GroupSize \in Nat /\ q * GroupSize < size - 1
    OBVIOUS
  <2>1. last - 1 \in Nat /\ q <= last - 1
    OBVIOUS
  <2>2. q * GroupSize <= (last - 1) * GroupSize
    BY <1>1, <2>1, NumbersTimes
  <2>3. q * GroupSize \in Nat /\ (last - 1) * GroupSize \in Nat
    BY <1>1, <2>1
  <2> QED
    BY <2>2, <2>3
<1>3. \A p, q \in Nat : p < q => p * GroupSize < q * GroupSize
  <2> SUFFICES ASSUME NEW p \in Nat, NEW q \in Nat, p < q PROVE p * GroupSize < q * GroupSize
    OBVIOUS
  <2>1. (p + 1) * GroupSize <= q * GroupSize
    BY <1>1, NumbersTimes
  <2>2. (p + 1) * GroupSize = p * GroupSize + GroupSize
    BY <1>1
  <2>3. p * GroupSize \in Nat /\ q * GroupSize \in Nat
    BY <1>1
  <2> QED
    BY <1>1, <2>1, <2>2, <2>3
<1>4. f \in [0 .. last -> ends]
  <2> SUFFICES ASSUME NEW q \in 0 .. last PROVE f[q] \in ends
    OBVIOUS
  <2>1. CASE q < last
    <3>1. q * GroupSize \in Nat /\ q * GroupSize < size - 1 /\ q \in Nat
      BY <1>2, <2>1
    <3>2. (q * GroupSize) % GroupSize = 0
      BY <3>1, Multiples
    <3>3. q * GroupSize \in Hashes
      BY <3>1 DEF Hashes
    <3> QED
      BY <2>1, <3>2, <3>3
  <2>2. CASE ~(q < last)
    BY <2>2 DEF Hashes
  <2> QED
    BY <2>1, <2>2
<1>5. f \in Injection(0 .. last, ends)
  <2>1. \A p, q \in 0 .. last : p < q => f[p] # f[q]
    BY <1>2, <1>3
  <2>2. \A p, q \in 0 .. last : f[p] = f[q] => p = q
    BY <2>1
  <2> HIDE DEF f, ends
  <2> QED
    BY <1>4, <2>2, Fun_IsInj
<1>6. f \in Surjection(0 .. last, ends)
  <2> SUFFICES ASSUME NEW i \in ends PROVE \E q \in 0 .. last : f[q] = i
    <3> HIDE DEF f, ends
    <3> QED
      BY <1>4, Fun_IsSurj
  <2>1. i \in Nat /\ i <= size - 1
    BY DEF Hashes
  <2>2. CASE i = size - 1
    BY <2>2
  <2>3. CASE i # size - 1
    <3>1. PICK k \in Nat : i = k * GroupSize
      BY <2>1, <2>3, Multiples
    <3>2. ~(last <= k)
      <4>1. SUFFICES ASSUME last <= k PROVE FALSE
        OBVIOUS
      <4>2. last * GroupSize <= k * GroupSize /\ last * GroupSize \in Nat
        BY <1>1, <4>1, NumbersTimes
      <4> QED
        BY <2>1, <2>3, <3>1, <4>2
    <3> QED
      BY <3>1, <3>2
  <2> QED
    BY <2>2, <2>3
<1>7. ExistsBijection(0 .. last, ends)
  <2> HIDE DEF f, ends
  <2>1. f \in Bijection(0 .. last, ends)
    BY <1>5, <1>6 DEF Bijection
  <2> QED
    BY <2>1, Fun_ExistsBij
<1>8. IsFiniteSet(0 .. last) /\ Cardinality(0 .. last) = last + 1
  BY FS_Interval
<1>9. Cardinality(ends) = last + 1
  BY <1>7, <1>8, FS_Bijection
<1> QED
  BY <1>9 DEF NumberOfQueries

\* The queries of a snippet have each of its hashes.
LEMMA GroupsCover ==
    ASSUME size \in Nat, count = NumberOfQueries
    PROVE  UNION {Group(q) : q \in Queries} = Hashes
<1>1. \A q \in Queries : Group(q) \subseteq Hashes
  BY DEF Group
<1>2. ASSUME NEW i \in Hashes PROVE \E q \in Queries : i \in Group(q)
  <2>0. GroupSize \in Nat /\ i \in Nat /\ size - 1 \in Nat /\ i <= size - 1 /\ size > 0
    BY SearchAssumption DEF Hashes
  <2>1. PICK last \in Nat : (last - 1) * GroupSize < size - 1 /\ size - 1 <= last * GroupSize
    BY <2>0, NumberHasGroup
  <2>2. count = last + 1
    BY <2>0, <2>1, QueriesAreGroups
  <2>3. PICK q \in Nat : (q - 1) * GroupSize < i /\ i <= q * GroupSize
    BY <2>0, NumberHasGroup
  <2>4. q <= last
    <3>1. SUFFICES ASSUME last <= q - 1 PROVE FALSE
      BY <2>3
    <3>2. q - 1 \in Nat
      BY <3>1
    <3>3. /\ last * GroupSize <= (q - 1) * GroupSize
          /\ last * GroupSize \in Nat /\ (q - 1) * GroupSize \in Nat
      BY <2>0, <3>1, <3>2, NumbersTimes
    <3> QED
      BY <2>0, <2>1, <2>3, <3>3
  <2> QED
    BY <2>2, <2>3, <2>4 DEF Queries, Group
<1> QED
  BY <1>1, <1>2

-----------------------------------------------------------------------------
(* The hits of a search, and the rows they are of.                          *)

RowOf(h) == [hash |-> h.hash, song |-> h.song, delta |-> h.delta]

\* Hits of rows of the primary storage, one at most of each.
AreOfRows(hits) ==
    /\ \A h \in hits : RowOf(h) \in primary
    /\ \A h1, h2 \in hits : RowOf(h1) = RowOf(h2) => h1 = h2

\* There is a hit of each row of these songs.
AreAllOf(hits, songs) ==
    \A r \in primary : r.song \in songs => \E h \in hits : RowOf(h) = r

Answers ==
    {Searching, Failed, Uncertain} \cup [status : {"OK"}, song : Songs, timestamp : Int]

SearchTypes ==
    /\ size \in 0 .. MaxHashes
    /\ IsFiniteSet(primary) /\ primary \subseteq [hash : Hashes, song : Songs, delta : Int]
    /\ cached \subseteq Songs
    /\ stage \in {"cache", "primary", "done"}
    /\ answer \in Answers

\* Hashes are numbers.
LEMMA HashesAreNumbers == SearchTypes => size \in Nat /\ Hashes \subseteq Nat
<1>1. SearchTypes => size \in 0 .. MaxHashes
  BY DEF SearchTypes
<1> QED
  BY <1>1, SearchAssumption DEF Hashes

\* As many hits of a group as rows at most, and as many if there are all.
LEMMA CountsAreRows ==
    ASSUME SearchTypes, NEW hits, AreOfRows(hits), NEW g
    PROVE  /\ Rows(g) \in Nat
           /\ Count(hits, g) \in Nat
           /\ Count(hits, g) <= Rows(g)
           /\ AreAllOf(hits, {g.song}) => Count(hits, g) = Rows(g)
<1> DEFINE some == {h \in hits : h.song = g.song /\ h.delta = g.delta}
           rows == {r \in primary : r.song = g.song /\ r.delta = g.delta}
           f == [h \in some |-> RowOf(h)]
<1>1. f \in [some -> rows]
  BY DEF AreOfRows, RowOf
<1>2. f \in Injection(some, rows)
  <2>1. \A h1, h2 \in some : f[h1] = f[h2] => h1 = h2
    BY DEF AreOfRows
  <2> HIDE DEF f, some, rows
  <2> QED
    BY <1>1, <2>1, Fun_IsInj
<1>3. IsFiniteSet(rows)
  BY FS_Subset DEF SearchTypes
<1>4. /\ IsFiniteSet(some)
      /\ Cardinality(some) <= Cardinality(rows)
      /\ Cardinality(some) = Cardinality(rows) <=> f \in Surjection(some, rows)
  <2> HIDE DEF f, some, rows
  <2> QED
    BY <1>2, <1>3, FS_Injection
<1>5. Cardinality(some) \in Nat /\ Cardinality(rows) \in Nat
  BY <1>3, <1>4, FS_CardinalityType
<1>6. ASSUME AreAllOf(hits, {g.song}) PROVE f \in Surjection(some, rows)
  <2>1. ASSUME NEW r \in rows PROVE \E h \in some : f[h] = r
    <3>1. PICK h \in hits : RowOf(h) = r
      BY <1>6 DEF AreAllOf
    <3>2. h.song = r.song /\ h.delta = r.delta
      BY <3>1 DEF RowOf
    <3>3. h \in some
      BY <3>2
    <3> QED
      BY <3>1, <3>3
  <2> HIDE DEF f, some, rows
  <2> QED
    BY <1>1, <2>1, Fun_IsSurj
<1> QED
  BY <1>4, <1>5, <1>6 DEF Count, Rows

\* Hits of rows are hits of which a histogram can be made.
LEMMA HitsOfRows ==
    ASSUME SearchTypes, NEW hits, AreOfRows(hits)
    PROVE  AreHits(hits)
<1>1. IsFiniteSet(hits)
  <2> DEFINE f == [h \in hits |-> RowOf(h)]
  <2>1. f \in [hits -> primary] /\ \A h1, h2 \in hits : f[h1] = f[h2] => h1 = h2
    BY DEF AreOfRows
  <2>2. f \in Injection(hits, primary)
    <3> HIDE DEF f
    <3> QED
      BY <2>1, Fun_IsInj
  <2> QED
    BY <2>2, FS_Injection DEF SearchTypes
<1>2. ASSUME NEW h \in hits PROVE h.hash \in Nat /\ h.song \in Nat /\ h.delta \in Int
  <2>1. RowOf(h) \in [hash : Hashes, song : Songs, delta : Int]
    BY DEF AreOfRows, SearchTypes
  <2>2. h.hash \in Hashes /\ h.song \in Songs /\ h.delta \in Int
    BY <2>1 DEF RowOf
  <2> QED
    BY <2>2, HashesAreNumbers, SearchAssumption
<1> QED
  BY <1>1, <1>2 DEF AreHits

\* A song that is named for such hits has the rows.
LEMMA NamedIsAligned ==
    ASSUME SearchTypes, NEW hits, AreOfRows(hits), findDominantPeak(hits) # Uncertain
    PROVE  LET found == findDominantPeak(hits)
           IN  /\ found \in [status : {"OK"}, song : Songs, timestamp : Int]
               /\ \E h \in hits : RowOf(h).song = found.song
                               /\ RowOf(h).hash + RowOf(h).delta = found.timestamp
                               /\ Rows(RowOf(h)) > MinDistance + 1
<1>1. PICK h \in hits :
         /\ findDominantPeak(hits) =
               [status |-> "OK", song |-> h.song, timestamp |-> h.hash + h.delta]
         /\ Count(hits, h) > MinDistance + 1
  BY HitsOfRows, AnswerHasHits
<1>2. RowOf(h) \in [hash : Hashes, song : Songs, delta : Int]
  BY DEF AreOfRows, SearchTypes
<1>3. h.hash \in Hashes /\ h.song \in Songs /\ h.delta \in Int
  BY <1>2 DEF RowOf
<1>4. Rows(RowOf(h)) = Rows(h)
  BY DEF Rows, RowOf
<1>5. Rows(h) > MinDistance + 1
  <2>1. Count(hits, h) <= Rows(h) /\ Count(hits, h) \in Nat /\ Rows(h) \in Nat
    BY CountsAreRows
  <2> QED
    BY <1>1, <2>1, HistogramAssumption
<1>6. h.hash \in Int
  BY <1>3, HashesAreNumbers
<1>7. /\ RowOf(h).song = h.song
      /\ RowOf(h).hash + RowOf(h).delta = h.hash + h.delta
  BY DEF RowOf
<1> QED
  <2> DEFINE r == RowOf(h)
             found == findDominantPeak(hits)
  <2>1. found \in [status : {"OK"}, song : Songs, timestamp : Int]
    BY <1>1, <1>3, <1>6
  <2>2. r.song = found.song /\ r.hash + r.delta = found.timestamp
    BY <1>1, <1>7
  <2>3. Rows(r) > MinDistance + 1
    BY <1>4, <1>5
  <2> QED
    BY <2>1, <2>2, <2>3

\* A song that stands out among the rows is named, if the hits have its rows and
\* those of other songs whole.
LEMMA DominantIsNamed ==
    ASSUME SearchTypes, NEW hits, AreOfRows(hits), NEW r \in primary, IsDominant(r),
           AreAllOf(hits, {r.song})
    PROVE  findDominantPeak(hits).status = "OK" /\ findDominantPeak(hits).song = r.song
<1>1. PICK h \in hits : RowOf(h) = r
  BY DEF AreAllOf
<1>2. h.song = r.song /\ h.delta = r.delta
  BY <1>1 DEF RowOf
<1>3. Count(hits, h) = Rows(h) /\ Rows(h) = Rows(r) /\ Rows(h) \in Nat
  BY <1>2, CountsAreRows DEF Rows
<1>4. ASSUME NEW x \in hits, x.song # h.song PROVE Count(hits, h) - Count(hits, x) > MinDistance
  <2>1. RowOf(x) \in primary /\ RowOf(x).song # r.song
    BY <1>2, <1>4 DEF AreOfRows, RowOf
  <2>2. Rows(r) - Rows(RowOf(x)) > MinDistance
    BY <2>1 DEF IsDominant
  <2>3. Rows(RowOf(x)) = Rows(x)
    BY DEF Rows, RowOf
  <2>4. Count(hits, x) <= Rows(x) /\ Count(hits, x) \in Nat /\ Rows(x) \in Nat
    BY CountsAreRows
  <2> QED
    BY <1>3, <2>2, <2>3, <2>4, HistogramAssumption
<1>5. Count(hits, h) > MinDistance + 1
  BY <1>3 DEF IsDominant
<1> QED
  BY <1>2, <1>4, <1>5, HitsOfRows, DominantGroupIsFound

-----------------------------------------------------------------------------
(* A search.                                                                *)

\* The hits of a request are appended once, when its task is done.
Appended ==
    \A j, k \in DOMAIN m_bufVec : /\ m_bufVec[k] \notin pending
                                  /\ m_bufVec[j] = m_bufVec[k] => j = k

\* The cache is asked for its hits when the command has returned, and only then.
Stages ==
    /\ stage # "cache" => pc \in Results
    /\ stage # "done" => answer = Searching

SearchInv ==
    /\ Inv /\ Appended
    /\ SearchTypes /\ count = NumberOfQueries
    /\ Stages
    /\ AnswerIsAligned /\ DominantSongIsFound

LEMMA QueriesAreNumbers == count \in Nat => Queries \subseteq Nat
  BY DEF Queries

\* A hash is asked for in one request.
LEMMA HitsOfCache ==
    ASSUME Inv, Appended, SearchTypes
    PROVE  AreOfRows(CacheHits) /\ \A h \in CacheHits : h.song \in cached
<1>0. Queries \subseteq Nat
  BY QueriesAreNumbers, CommandAssumption DEF Inv, CommandTypeOK
<1>1. ASSUME NEW h \in CacheHits
      PROVE  /\ RowOf(h) \in primary /\ h.song \in cached
             /\ h.copy \in DOMAIN m_bufVec /\ h = Hit(RowOf(h), h.copy)
             /\ \E q \in m_bufVec[h.copy] : h.hash \in Group(q)
  <2>1. PICK k \in DOMAIN m_bufVec : h \in HitsOf(k)
    BY DEF CacheHits
  <2>2. PICK r \in Matches(cached, UNION {Group(q) : q \in m_bufVec[k]}) : h = Hit(r, k)
    BY <2>1 DEF HitsOf
  <2>3. r \in primary /\ r.song \in cached /\ \E q \in m_bufVec[k] : r.hash \in Group(q)
    BY DEF Matches
  <2>4. r = [hash |-> r.hash, song |-> r.song, delta |-> r.delta]
    BY <2>3 DEF SearchTypes
  <2>5. RowOf(h) = r /\ h.copy = k /\ h.song = r.song /\ h.hash = r.hash
    BY <2>2, <2>4 DEF Hit, RowOf
  <2> QED
    BY <2>1, <2>2, <2>3, <2>5
<1>2. ASSUME NEW h1 \in CacheHits, NEW h2 \in CacheHits, RowOf(h1) = RowOf(h2)
      PROVE  h1 = h2
  <2> DEFINE k1 == h1.copy
             k2 == h2.copy
  <2>1. h1.hash = h2.hash
    BY <1>2 DEF RowOf
  <2>2. PICK q1 \in m_bufVec[k1] : h1.hash \in Group(q1)
    BY <1>1
  <2>3. PICK q2 \in m_bufVec[k2] : h1.hash \in Group(q2)
    BY <1>1, <2>1
  <2>4. k1 \in DOMAIN m_bufVec /\ k2 \in DOMAIN m_bufVec
    BY <1>1
  <2>5. m_bufVec[k1] \in sent /\ m_bufVec[k2] \in sent
    BY <2>4 DEF Inv, CommandTypeOK
  <2>6. q1 \in Nat /\ q2 \in Nat
    BY <1>0, <2>5 DEF Inv, CommandTypeOK
  <2>7. q1 = q2
    BY <2>2, <2>3, <2>6, GroupsApart
  <2>8. m_bufVec[k1] = m_bufVec[k2]
    BY <2>5, <2>7 DEF Inv, Disjoint
  <2>9. k1 = k2
    BY <2>4, <2>8 DEF Appended
  <2> QED
    BY <1>1, <1>2, <2>9
<1> QED
  BY <1>1, <1>2 DEF AreOfRows

\* The hits are those of all rows of cached songs, if no batch has failed.
LEMMA CacheIsComplete ==
    ASSUME SearchTypes, count = NumberOfQueries,
           UNION {m_bufVec[k] : k \in DOMAIN m_bufVec} = Queries
    PROVE  AreAllOf(CacheHits, cached)
<1> SUFFICES ASSUME NEW r \in primary, r.song \in cached PROVE \E h \in CacheHits : RowOf(h) = r
  BY DEF AreAllOf
<1>0. size \in Nat
  BY HashesAreNumbers
<1>1. r.hash \in Hashes /\ r = [hash |-> r.hash, song |-> r.song, delta |-> r.delta]
  BY DEF SearchTypes
<1>2. PICK q \in Queries : r.hash \in Group(q)
  BY <1>0, <1>1, GroupsCover
<1>3. PICK k \in DOMAIN m_bufVec : q \in m_bufVec[k]
  OBVIOUS
<1>4. r \in Matches(cached, UNION {Group(p) : p \in m_bufVec[k]})
  BY <1>2, <1>3 DEF Matches
<1>5. Hit(r, k) \in CacheHits
  <2>1. Hit(r, k) \in HitsOf(k)
    BY <1>4 DEF HitsOf
  <2> QED
    BY <2>1 DEF CacheHits
<1>6. RowOf(Hit(r, k)) = r
  BY <1>1 DEF RowOf, Hit
<1> QED
  BY <1>5, <1>6

\* The primary storage has a hit for each of its rows.
LEMMA HitsOfPrimary ==
    ASSUME SearchTypes
    PROVE  AreOfRows(PrimaryHits) /\ AreAllOf(PrimaryHits, Songs)
<1>1. \A r \in primary : r = [hash |-> r.hash, song |-> r.song, delta |-> r.delta]
  BY DEF SearchTypes
<1>2. Matches(Songs, Hashes) = primary
  BY DEF Matches, SearchTypes
<1>3. \A r \in primary : RowOf(Hit(r, 0)) = r
  BY <1>1 DEF RowOf, Hit
<1>4. PrimaryHits = {Hit(r, 0) : r \in primary}
  BY <1>2 DEF PrimaryHits
<1>5. ASSUME NEW h \in PrimaryHits PROVE \E r \in primary : h = Hit(r, 0) /\ RowOf(h) = r
  BY <1>3, <1>4
<1>6. ASSUME NEW r \in primary PROVE \E h \in PrimaryHits : RowOf(h) = r
  BY <1>3, <1>4
<1>7. AreOfRows(PrimaryHits)
  BY <1>5 DEF AreOfRows
<1>8. AreAllOf(PrimaryHits, Songs)
  BY <1>6 DEF AreAllOf
<1> QED
  BY <1>7, <1>8

\* No request is appended twice, nor before its task has ended.
LEMMA AppendedStep ==
    ASSUME Inv, Appended, [CommandNext]_command
    PROVE  Appended'
<1>0. m_bufVec \in Seq(sent)
  BY DEF Inv, CommandTypeOK
<1>1. CASE \/ CallEmpty \/ CallSingle \/ Call \/ RemainderFails
           \/ EndLoop \/ Return \/ UNCHANGED command
  BY <1>1 DEF Appended, CallEmpty, CallSingle, Call, RemainderFails, EndLoop, Return, command
<1>2. CASE RemainderSucceeds
  <2>1. sent = {} /\ pending = {}
    BY <1>2 DEF RemainderSucceeds, Inv, Progress
  <2>2. m_bufVec = <<>>
    BY <1>0, <2>1
  <2>3. m_bufVec' = <<Remainder>> /\ pending' = {}
    BY <1>2, <2>1, <2>2 DEF RemainderSucceeds
  <2> QED
    BY <2>3 DEF Appended
<1>3. CASE SubmitBatch
  <2>1. \A k \in DOMAIN m_bufVec : m_bufVec[k] \in sent
    BY <1>0
  <2>2. Batch(next) \notin sent
    BY <1>3, BatchIsNext
  <2>3. \A k \in DOMAIN m_bufVec : m_bufVec[k] # Batch(next)
    BY <2>1, <2>2
  <2> QED
    BY <1>3, <2>3 DEF Appended, SubmitBatch
<1>4. ASSUME NEW r \in pending, BatchSucceeds(r) PROVE Appended'
  <2>1. m_bufVec' = Append(m_bufVec, r) /\ pending' = pending \ {r}
    BY <1>4 DEF BatchSucceeds
  <2>2. /\ DOMAIN m_bufVec = 1 .. Len(m_bufVec) /\ Len(m_bufVec) \in Nat
        /\ DOMAIN m_bufVec' = 1 .. Len(m_bufVec) + 1
        /\ \A k \in DOMAIN m_bufVec' :
              m_bufVec'[k] = IF k = Len(m_bufVec) + 1 THEN r ELSE m_bufVec[k]
    BY <1>0, <1>4, <2>1 DEF Inv, CommandTypeOK
  <2>3. \A k \in DOMAIN m_bufVec : m_bufVec[k] # r
    BY DEF Appended
  <2>4. ASSUME NEW j \in DOMAIN m_bufVec', NEW k \in DOMAIN m_bufVec'
        PROVE  m_bufVec'[k] \notin pending' /\ (m_bufVec'[j] = m_bufVec'[k] => j = k)
    <3>1. j \in DOMAIN m_bufVec \/ j = Len(m_bufVec) + 1
      BY <2>2
    <3>2. k \in DOMAIN m_bufVec \/ k = Len(m_bufVec) + 1
      BY <2>2
    <3>3. \A i \in DOMAIN m_bufVec : m_bufVec'[i] = m_bufVec[i]
      BY <2>2
    <3> QED
      BY <2>1, <2>2, <2>3, <3>1, <3>2, <3>3 DEF Appended
  <2> QED
    BY <2>4 DEF Appended
<1>5. ASSUME NEW r \in pending, BatchFails(r) PROVE Appended'
  BY <1>5 DEF Appended, BatchFails
<1> QED
  BY <1>1, <1>2, <1>3, <1>4, <1>5 DEF CommandNext, Execute, Task

\* The invariant of a search holds when it begins ...
LEMMA InitSearch == Init => SearchInv
<1> SUFFICES ASSUME Init PROVE SearchInv
  OBVIOUS
<1>1. Inv
  BY InitInv DEF Init
<1>2. Appended
  BY DEF Init, CommandInit, Appended
<1>3. SearchTypes
  <2>1. size \in Nat
    BY SearchAssumption DEF Init
  <2>2. PICK rows \in Catalogs : primary = {r \in rows : r.hash < size}
    BY DEF Init
  <2>3. IsFiniteSet(primary)
    BY <2>2, FS_Subset, SearchAssumption
  <2>4. ASSUME NEW r \in primary PROVE r \in [hash : Hashes, song : Songs, delta : Int]
    <3>1. r \in [hash : Nat, song : Songs, delta : Int] /\ r.hash < size
      BY <2>2, SearchAssumption
    <3>2. r.hash \in Hashes
      BY <2>1, <3>1 DEF Hashes
    <3> QED
      BY <3>1, <3>2
  <2> QED
    BY <2>3, <2>4 DEF Init, SearchTypes, Answers
<1>4. count = NumberOfQueries /\ Stages
  BY DEF Init, Stages
<1>5. AnswerIsAligned /\ DominantSongIsFound
  BY DEF Init, AnswerIsAligned, DominantSongIsFound, Searching
<1> QED
  BY <1>1, <1>2, <1>3, <1>4, <1>5 DEF SearchInv

\* Once the command has returned nothing of it changes.
LEMMA ReturnedIsStill == Inv /\ CommandNext => pc \notin Results
  BY DEF Inv, Progress, Results, CommandNext, Execute, Task, CallEmpty, CallSingle, Call,
     RemainderSucceeds, RemainderFails, SubmitBatch, EndLoop, Return

\* It is enough to look at the answer when it is given.
LEMMA AnswerFinds ==
    ASSUME UNCHANGED <<primary, cached, count, m_bufVec>>,
           ASSUME NEW r \in primary, IsDominant(r),
                  UNION {m_bufVec[k] : k \in DOMAIN m_bufVec} = Queries
           PROVE  \/ answer'.status = "OK" /\ answer'.song = r.song
                  \/ /\ r.song \notin cached
                     /\ \E x \in primary : x.song \in cached /\ Rows(x) > MinDistance + 1
    PROVE  DominantSongIsFound'
<1>1. \A r : Rows(r)' = Rows(r)
  BY DEF Rows
<1>2. \A r : IsDominant(r)' = IsDominant(r)
  BY <1>1 DEF IsDominant
<1>3. Queries' = Queries
  BY DEF Queries
<1> QED
  BY <1>1, <1>2, <1>3 DEF DominantSongIsFound

\* ... and is kept by the command and by the answers of both stores.
LEMMA StepSearch == SearchInv /\ [Next]_vars => SearchInv'
<1> SUFFICES ASSUME SearchInv, [Next]_vars PROVE SearchInv'
  OBVIOUS
<1>0. Inv /\ Appended /\ SearchTypes /\ Stages
  BY DEF SearchInv
<1>1. [CommandNext]_command
  BY DEF Next, CommandStep, SearchStep, CacheFails, CacheAnswers, PrimaryFails, PrimaryAnswers, vars
<1>2. Inv' /\ Appended'
  BY <1>0, <1>1, StepInv, AppendedStep
<1>3. UNCHANGED <<size, primary, cached, count>>
  BY DEF Next, CommandStep, CommandNext, Execute, Task, CallEmpty, CallSingle, Call,
     RemainderSucceeds, RemainderFails, SubmitBatch, EndLoop, Return, BatchSucceeds, BatchFails,
     SearchStep, CacheFails, CacheAnswers, PrimaryFails, PrimaryAnswers, command, search, vars
<1>4. (count = NumberOfQueries)'
  BY <1>3 DEF SearchInv, NumberOfQueries, Hashes
<1>5. ASSUME SearchTypes', Stages', AnswerIsAligned', DominantSongIsFound' PROVE SearchInv'
  BY <1>2, <1>4, <1>5 DEF SearchInv
<1>6. ASSUME stage' \in {"cache", "primary", "done"},
             answer' \in Answers
      PROVE  SearchTypes'
  BY <1>0, <1>3, <1>6 DEF SearchTypes, Hashes, Answers
<1>7. ASSUME answer' \in {Searching, Failed, Uncertain} PROVE AnswerIsAligned'
  BY <1>7 DEF AnswerIsAligned, Searching, Failed, Uncertain
<1>8. ASSUME CommandStep PROVE SearchInv'
  <2>1. pc \notin Results /\ UNCHANGED search
    BY <1>0, <1>8, ReturnedIsStill DEF CommandStep
  <2>2. stage = "cache" /\ stage' = "cache" /\ answer = Searching /\ answer' = Searching
    BY <1>0, <2>1 DEF Stages, search
  <2>3. Stages' /\ DominantSongIsFound'
    BY <2>2 DEF Stages, DominantSongIsFound
  <2> QED
    BY <1>5, <1>6, <1>7, <2>2, <2>3 DEF Answers
<1>9. ASSUME CacheFails \/ PrimaryFails PROVE SearchInv'
  <2>1. stage' = "done" /\ answer' = Failed /\ pc' \in Results
    BY <1>0, <1>9 DEF CacheFails, PrimaryFails, command, Stages, Results
  <2>2. Stages' /\ DominantSongIsFound'
    BY <2>1 DEF Stages, DominantSongIsFound
  <2> QED
    BY <1>5, <1>6, <1>7, <2>1, <2>2 DEF Answers
<1>10. ASSUME CacheAnswers PROVE SearchInv'
  <2> DEFINE found == findDominantPeak(CacheHits)
  <2>1. /\ UNCHANGED <<command, primary, cached>> /\ pc = "true"
        /\ stage' = IF found = Uncertain THEN "primary" ELSE "done"
        /\ answer' = IF found = Uncertain THEN Searching ELSE found
    BY <1>10 DEF CacheAnswers
  <2>2. AreOfRows(CacheHits) /\ \A h \in CacheHits : h.song \in cached
    BY <1>0, HitsOfCache
  <2>3. CASE found = Uncertain
    <3>1. stage' = "primary" /\ answer' = Searching /\ pc' \in Results
      BY <2>1, <2>3 DEF command, Results
    <3>2. Stages' /\ DominantSongIsFound'
      BY <3>1 DEF Stages, DominantSongIsFound
    <3> QED
      BY <1>5, <1>6, <1>7, <3>1, <3>2 DEF Answers
  <2>4. CASE found # Uncertain
    <3>1. stage' = "done" /\ answer' = found /\ pc' \in Results
      BY <2>1, <2>4 DEF command, Results
    <3>2. PICK h \in CacheHits :
             /\ RowOf(h).song = found.song
             /\ RowOf(h).hash + RowOf(h).delta = found.timestamp
             /\ Rows(RowOf(h)) > MinDistance + 1
      BY <1>0, <2>2, <2>4, NamedIsAligned
    <3>3. found \in [status : {"OK"}, song : Songs, timestamp : Int]
      BY <1>0, <2>2, <2>4, NamedIsAligned
    <3>4. RowOf(h) \in primary /\ RowOf(h).song \in cached
      BY <2>2 DEF AreOfRows, RowOf
    <3>5. AnswerIsAligned'
      <4>1. Rows(RowOf(h))' = Rows(RowOf(h))
        BY <1>3 DEF Rows
      <4> QED
        BY <1>3, <3>1, <3>2, <3>4, <4>1 DEF AnswerIsAligned
    <3>6. DominantSongIsFound'
      <4>1. ASSUME NEW r \in primary, IsDominant(r),
                   UNION {m_bufVec[k] : k \in DOMAIN m_bufVec} = Queries
            PROVE  \/ answer'.status = "OK" /\ answer'.song = r.song
                   \/ /\ r.song \notin cached
                      /\ \E x \in primary : x.song \in cached /\ Rows(x) > MinDistance + 1
        <5>1. CASE r.song \in cached
          <6>1. AreAllOf(CacheHits, {r.song})
            BY <1>0, <4>1, <5>1, CacheIsComplete DEF SearchInv, AreAllOf
          <6> QED
            BY <1>0, <2>2, <3>1, <4>1, <6>1, DominantIsNamed
        <5>2. CASE r.song \notin cached
          BY <3>2, <3>4, <5>2
        <5> QED
          BY <5>1, <5>2
      <4> QED
        BY <1>3, <2>1, <4>1, AnswerFinds DEF command
    <3>7. Stages'
      BY <3>1 DEF Stages
    <3> QED
      BY <1>5, <1>6, <3>1, <3>3, <3>5, <3>6, <3>7 DEF Answers
  <2> QED
    BY <2>3, <2>4
<1>11. ASSUME PrimaryAnswers PROVE SearchInv'
  <2> DEFINE found == findDominantPeak(PrimaryHits)
  <2>1. UNCHANGED command /\ stage = "primary" /\ stage' = "done" /\ answer' = found
    BY <1>11 DEF PrimaryAnswers
  <2>2. AreOfRows(PrimaryHits) /\ AreAllOf(PrimaryHits, Songs)
    BY <1>0, HitsOfPrimary
  <2>3. Stages'
    BY <1>0, <2>1 DEF Stages, command, Results
  <2>4. AnswerIsAligned' /\ found \in Answers
    <3>1. CASE found = Uncertain
      BY <1>7, <2>1, <3>1 DEF Answers
    <3>2. CASE found # Uncertain
      <4>1. found \in [status : {"OK"}, song : Songs, timestamp : Int]
        BY <1>0, <2>2, <3>2, NamedIsAligned
      <4>2. PICK h \in PrimaryHits :
               /\ RowOf(h).song = found.song
               /\ RowOf(h).hash + RowOf(h).delta = found.timestamp
               /\ Rows(RowOf(h)) > MinDistance + 1
        BY <1>0, <2>2, <3>2, NamedIsAligned
      <4>3. RowOf(h) \in primary
        BY <2>2 DEF AreOfRows
      <4>4. Rows(RowOf(h))' = Rows(RowOf(h))
        BY <1>3 DEF Rows
      <4> QED
        BY <1>3, <2>1, <4>1, <4>2, <4>3, <4>4 DEF AnswerIsAligned, Answers
    <3> QED
      BY <3>1, <3>2
  <2>5. DominantSongIsFound'
    <3>1. ASSUME NEW r \in primary, IsDominant(r)
          PROVE  answer'.status = "OK" /\ answer'.song = r.song
      <4>1. AreAllOf(PrimaryHits, {r.song})
        BY <1>0, <2>2 DEF AreAllOf, SearchTypes
      <4> QED
        BY <1>0, <2>1, <2>2, <3>1, <4>1, DominantIsNamed
    <3> QED
      BY <1>3, <2>1, <3>1, AnswerFinds DEF command
  <2> QED
    BY <1>5, <1>6, <2>1, <2>3, <2>4, <2>5
<1>12. ASSUME UNCHANGED vars PROVE SearchInv'
  <2>1. /\ UNCHANGED <<pc, m_bufVec, size, primary, cached, count, stage, answer>>
    BY <1>12 DEF vars, command, search
  <2>2. Stages'
    BY <1>0, <2>1 DEF Stages
  <2>3. \A r : Rows(r)' = Rows(r)
    BY <2>1 DEF Rows
  <2>4. AnswerIsAligned'
    BY <2>1, <2>3 DEF SearchInv, AnswerIsAligned
  <2>5. DominantSongIsFound'
    <3>1. CASE stage = "done" /\ answer # Failed
      <4>1. ASSUME NEW r \in primary, IsDominant(r),
                   UNION {m_bufVec[k] : k \in DOMAIN m_bufVec} = Queries
            PROVE  \/ answer'.status = "OK" /\ answer'.song = r.song
                   \/ /\ r.song \notin cached
                      /\ \E x \in primary : x.song \in cached /\ Rows(x) > MinDistance + 1
        BY <2>1, <3>1, <4>1 DEF SearchInv, DominantSongIsFound
      <4> QED
        BY <2>1, <4>1, AnswerFinds
    <3>2. CASE ~(stage = "done" /\ answer # Failed)
      BY <2>1, <3>2 DEF DominantSongIsFound
    <3> QED
      BY <3>1, <3>2
  <2> QED
    BY <1>0, <1>5, <1>6, <2>1, <2>2, <2>4, <2>5 DEF SearchTypes
<1> QED
  BY <1>8, <1>9, <1>10, <1>11, <1>12 DEF Next, SearchStep

LEMMA SearchHolds == Spec => []SearchInv
BY InitSearch, StepSearch, PTL DEF Spec

\* For a snippet of any number of hashes, and groups and batches of any size: a
\* search that went through has asked the cache for each hash exactly once
\* (engine.cpp:205-237, elastic_command.cpp:133-208).
THEOREM HashesAskedOnce == Spec => []EachHashOnce
<1>1. SearchInv => EachHashOnce
  <2> SUFFICES ASSUME SearchInv, pc = "true" PROVE EachHashOnce
    BY DEF EachHashOnce
  <2> USE DEF SearchInv
  <2>1. /\ UNION sent = Queries /\ Disjoint
        /\ \A r \in sent : r \subseteq Queries
        /\ Queries \subseteq Nat
    BY QueriesAreNumbers, CommandAssumption DEF Inv, Progress, CommandTypeOK
  <2>2. UNION {Group(q) : q \in Queries} = Hashes
    BY HashesAreNumbers, GroupsCover
  <2>3. UNION {UNION {Group(q) : q \in r} : r \in sent} = Hashes
    <3>1. ASSUME NEW h \in Hashes PROVE \E r \in sent : \E q \in r : h \in Group(q)
      <4>1. PICK q \in Queries : h \in Group(q)
        BY <2>2
      <4>2. PICK r \in sent : q \in r
        BY <2>1
      <4> QED
        BY <4>1, <4>2
    <3>2. \A q : Group(q) \subseteq Hashes
      BY DEF Group
    <3>3. \A r \in sent : UNION {Group(q) : q \in r} \subseteq Hashes
      BY <3>2
    <3>4. ASSUME NEW h \in Hashes
          PROVE  h \in UNION {UNION {Group(q) : q \in r} : r \in sent}
      <4>1. PICK r \in sent : \E q \in r : h \in Group(q)
        BY <3>1, <3>4
      <4>2. h \in UNION {Group(q) : q \in r}
        BY <4>1
      <4> QED
        BY <4>2
    <3> QED
      BY <3>3, <3>4
  <2>4. ASSUME NEW r1 \in sent, NEW r2 \in sent, NEW q1 \in r1, NEW q2 \in r2,
               Group(q1) \cap Group(q2) # {}
        PROVE  r1 = r2 /\ q1 = q2
    <3>1. q1 = q2
      BY <2>1, <2>4, GroupsApart
    <3> QED
      BY <2>1, <3>1 DEF Disjoint
  <2> QED
    BY <2>3, <2>4 DEF EachHashOnce
<1> QED
  BY <1>1, SearchHolds, PTL

\* A song that is named has enough rows at one delta, whatever of the answers is
\* lost and in whatever order they come (engine.cpp:253-301, histogram.cpp).
THEOREM NamedHasRows == Spec => []AnswerIsAligned
BY SearchHolds, PTL DEF SearchInv

\* The song that stands out is the answer if nothing has failed, unless the cache
\* lacks it and has another that is good enough (engine.cpp:284-301).
THEOREM DominantIsFound == Spec => []DominantSongIsFound
BY SearchHolds, PTL DEF SearchInv

\* Inside a search, too, an executed collection has been sent whole and no query
\* of it twice (elastic_command.cpp:133-188).
THEOREM SearchSendsOnce == Spec => []EachQueryOnce
<1>1. SearchInv => EachQueryOnce
  BY DEF SearchInv, Inv, Progress, Disjoint, EachQueryOnce
<1> QED
  BY <1>1, SearchHolds, PTL

\* The buffer that a search reads has no task left that appends to it
\* (elastic_command.cpp:127-188, engine.cpp:226-239).
THEOREM SearchTasksEndFirst == Spec => []NoTaskOutlives
<1>1. SearchInv => NoTaskOutlives
  BY DEF SearchInv, Inv, Progress, NoTaskOutlives
<1> QED
  BY <1>1, SearchHolds, PTL

\* The variables of a search keep their types.
THEOREM SearchTypeCorrect == Spec => []TypeOK
<1>1. SearchInv => TypeOK
  BY DEF SearchInv, SearchTypes, Answers, Inv, TypeOK
<1> QED
  BY <1>1, SearchHolds, PTL
=============================================================================
