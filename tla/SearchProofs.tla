---------------------------- MODULE SearchProofs ----------------------------
(***************************************************************************)
(* Proofs about Search, for every index, every query and every way the     *)
(* index may change during a call.  First the order of hits (each rank is  *)
(* taken once), windows of it and the pages made of them; then the types;  *)
(* then confinement; then that pages are exact, a page of one branch and a *)
(* page merged from two.                                                   *)
(***************************************************************************)
EXTENDS Search, FiniteSetTheorems, SequenceTheorems, TLAPS

-----------------------------------------------------------------------------
(* Ranking.  Every set of hits here has its paths apart, so that each of   *)
(* the orders is total on it.                                              *)

\* Names that can be compared however they are folded.
KnownNames == {n \in Nat : NoCase[n] \in Nat /\ Lower[n] \in Nat}

\* What the orders compare of a hit.
Sortable(x, b) ==
    /\ x.path \in Nat /\ x.score \in Nat /\ x.size \in Nat
    /\ x.name \in KnownNames
    /\ b = "merge" => x.kind \in {"name", "content"}

Distinct(S) == \A x, y \in S : x.path = y.path => x = y

Rankable(S, b) ==
    /\ IsFiniteSet(S) /\ Distinct(S)
    /\ \A x \in S : Sortable(x, b)

Before(S, b, x) == {y \in S : Precedes(b, y, x)}
Rank(S, b, x)   == Cardinality(Before(S, b, x))

LEMMA PrecedesIsIrreflexive ==
    ASSUME NEW b, NEW x, Sortable(x, b)
    PROVE  ~Precedes(b, x, x)
BY DEF Sortable, KnownNames, Precedes, InMerge, InBranch, ByKey

LEMMA PrecedesIsTransitive ==
    ASSUME NEW b, NEW x, NEW y, NEW z,
           Sortable(x, b), Sortable(y, b), Sortable(z, b),
           Precedes(b, x, y), Precedes(b, y, z)
    PROVE  Precedes(b, x, z)
<1>1. CASE b = "merge"
  BY <1>1 DEF Sortable, KnownNames, Precedes, InMerge, ByKey
<1>2. CASE b # "merge"
  BY <1>2 DEF Sortable, KnownNames, Precedes, InBranch, ByKey
<1> QED BY <1>1, <1>2

LEMMA PrecedesIsTotal ==
    ASSUME NEW b, NEW x, NEW y, Sortable(x, b), Sortable(y, b),
           x.path # y.path
    PROVE  Precedes(b, x, y) \/ Precedes(b, y, x)
<1>1. CASE b = "merge"
  BY <1>1 DEF Sortable, KnownNames, Precedes, InMerge, ByKey
<1>2. CASE b # "merge"
  BY <1>2 DEF Sortable, KnownNames, Precedes, InBranch, ByKey
<1> QED BY <1>1, <1>2

\* Who comes before has fewer before itself.
LEMMA RankGrows ==
    ASSUME NEW b, NEW S, Rankable(S, b), NEW x \in S, NEW y \in S,
           Precedes(b, x, y)
    PROVE  Rank(S, b, x) < Rank(S, b, y)
<1>1. \A z \in S : Sortable(z, b)
  BY DEF Rankable
<1>2. /\ Before(S, b, x) \subseteq Before(S, b, y)
      /\ x \in Before(S, b, y) /\ x \notin Before(S, b, x)
  BY <1>1, PrecedesIsTransitive, PrecedesIsIrreflexive DEF Before
<1>3. IsFiniteSet(Before(S, b, y)) /\ IsFiniteSet(Before(S, b, x))
  BY FS_Subset DEF Before, Rankable
<1>4. /\ Cardinality(Before(S, b, x)) <= Cardinality(Before(S, b, y))
      /\ Cardinality(Before(S, b, x)) # Cardinality(Before(S, b, y))
  BY <1>2, <1>3, FS_Subset
<1>5. Cardinality(Before(S, b, x)) \in Nat /\ Cardinality(Before(S, b, y)) \in Nat
  BY <1>3, FS_CardinalityType
<1> QED BY <1>4, <1>5 DEF Rank

\* Ranks are taken once each: there are as many of them as members.
LEMMA RanksAreTaken ==
    ASSUME NEW b, NEW S, Rankable(S, b)
    PROVE  /\ Cardinality(S) \in Nat
           /\ \A x \in S : Rank(S, b, x) \in 0..(Cardinality(S) - 1)
           /\ \A x, y \in S : Rank(S, b, x) = Rank(S, b, y) => x = y
           /\ \A k \in 0..(Cardinality(S) - 1) : \E x \in S : Rank(S, b, x) = k
<1> DEFINE n == Cardinality(S)
           f == [x \in S |-> Rank(S, b, x)]
<1>1. IsFiniteSet(S) /\ n \in Nat /\ \A x \in S : Sortable(x, b)
  BY FS_CardinalityType DEF Rankable
<1>2. ASSUME NEW x \in S PROVE Rank(S, b, x) \in 0..(n - 1)
  <2>1. Before(S, b, x) \subseteq S /\ x \notin Before(S, b, x)
    BY <1>1, PrecedesIsIrreflexive DEF Before
  <2>2. IsFiniteSet(Before(S, b, x)) /\ Cardinality(Before(S, b, x)) <= n
        /\ Cardinality(Before(S, b, x)) # n
    BY <2>1, <1>1, FS_Subset
  <2>3. Cardinality(Before(S, b, x)) \in Nat
    BY <2>2, FS_CardinalityType
  <2> QED BY <2>2, <2>3, <1>1 DEF Rank
<1>3. ASSUME NEW x \in S, NEW y \in S, Rank(S, b, x) = Rank(S, b, y), x # y
      PROVE  FALSE
  <2>1. x.path # y.path
    BY <1>3 DEF Rankable, Distinct
  <2>2. Precedes(b, x, y) \/ Precedes(b, y, x)
    BY <2>1, <1>1, PrecedesIsTotal
  <2>3. Rank(S, b, x) \in Nat /\ Rank(S, b, y) \in Nat
    BY <1>2
  <2> QED BY <2>2, <2>3, <1>3, RankGrows
<1>4. f \in Injection(S, 0..(n - 1))
  <2>1. f \in [S -> 0..(n - 1)]
    BY <1>2
  <2>2. \A x, y \in S : f[x] = f[y] => x = y
    BY <1>3
  <2> HIDE DEF f, n
  <2> QED BY <2>1, <2>2 DEF Injection, IsInjective
<1>5. IsFiniteSet(0..(n - 1)) /\ Cardinality(0..(n - 1)) = n
  BY <1>1, FS_Interval
<1>6. f \in Surjection(S, 0..(n - 1))
  BY <1>4, <1>5, FS_Injection
<1>7. ASSUME NEW k \in 0..(n - 1) PROVE \E x \in S : Rank(S, b, x) = k
  BY <1>6 DEF Surjection
<1> QED BY <1>1, <1>2, <1>3, <1>7

\* A page is cut from all the hits in their order.
LEMMA RankedSorts ==
    ASSUME NEW b, NEW S, Rankable(S, b)
    PROVE  /\ Cardinality(S) \in Nat
           /\ Ranked(S, b) \in [1..Cardinality(S) -> S]
           /\ Ranked(S, b) \in Seq(S) /\ Len(Ranked(S, b)) = Cardinality(S)
           /\ \A i \in 1..Cardinality(S) : Rank(S, b, Ranked(S, b)[i]) = i - 1
           /\ \A x \in S : /\ Rank(S, b, x) + 1 \in 1..Cardinality(S)
                           /\ Ranked(S, b)[Rank(S, b, x) + 1] = x
<1> DEFINE n == Cardinality(S)
           r == Ranked(S, b)
<1>0. n \in Nat
  BY RanksAreTaken
<1>1. ASSUME NEW i \in 1..n PROVE r[i] \in S /\ Rank(S, b, r[i]) = i - 1
  <2>1. i - 1 \in 0..(n - 1)
    BY <1>0
  <2>2. \E x \in S : Rank(S, b, x) = i - 1
    BY <2>1, RanksAreTaken
  <2>3. \E x \in S : Cardinality({y \in S : Precedes(b, y, x)}) = i - 1
    BY <2>2 DEF Rank, Before
  <2>4. r[i] = CHOOSE x \in S : Cardinality({y \in S : Precedes(b, y, x)}) = i - 1
    BY DEF Ranked
  <2> QED BY <2>3, <2>4 DEF Rank, Before
<1>2. r = [i \in 1..n |-> r[i]]
  BY DEF Ranked
<1>3. r \in [1..n -> S]
  BY <1>1, <1>2
<1>4. r \in Seq(S) /\ Len(r) = n
  BY <1>3, <1>0, SeqDef, LenProperties
<1>5. ASSUME NEW x \in S PROVE Rank(S, b, x) + 1 \in 1..n /\ r[Rank(S, b, x) + 1] = x
  <2>1. Rank(S, b, x) \in 0..(n - 1)
    BY RanksAreTaken
  <2>2. Rank(S, b, x) + 1 \in 1..n /\ (Rank(S, b, x) + 1) - 1 = Rank(S, b, x)
    BY <2>1, <1>0
  <2>3. Rank(S, b, r[Rank(S, b, x) + 1]) = Rank(S, b, x) /\ r[Rank(S, b, x) + 1] \in S
    BY <2>2, <1>1
  <2> QED BY <2>2, <2>3, RanksAreTaken
<1> QED BY <1>0, <1>1, <1>3, <1>4, <1>5


-----------------------------------------------------------------------------
(* Pages.                                                                  *)

HitSet == [path : Paths, score : Nat, name : KnownNames, size : Nat,
           kind : {"name", "content"}]

\* A list of hits of files, no file twice.
IsPage(s) ==
    /\ s \in Seq(HitSet)
    /\ \A i, j \in 1..Len(s) : s[i].path = s[j].path => i = j

HitsFor(b) == {Hit(b, p) : p \in Body(b)}

Branches == {"filter", "fts", "like", "content"}

IndexOK == index \in [Paths -> Shapes \union {NoRow}]

LEMMA LimitIsPositive ==
    ASSUME query.limit \in Int
    PROVE  limit \in Nat \ {0}
BY SearchAssumption DEF limit

\* What is cut from a list, and how long it is.
CutLen(s, from, n) ==
    IF from >= Len(s) THEN 0
    ELSE IF from + n <= Len(s) THEN n ELSE Len(s) - from

LEMMA WindowCuts ==
    ASSUME NEW S, NEW s \in Seq(S), NEW from \in Nat, NEW n \in Nat
    PROVE  /\ Window(s, from, n) \in Seq(S)
           /\ Len(Window(s, from, n)) = CutLen(s, from, n)
           /\ CutLen(s, from, n) \in Nat
           /\ CutLen(s, from, n) <= n /\ CutLen(s, from, n) <= Len(s)
           /\ \A i \in 1..CutLen(s, from, n) :
                from + i \in 1..Len(s) /\ Window(s, from, n)[i] = s[from + i]
<1> DEFINE to == IF from + n < Len(s) THEN from + n ELSE Len(s)
<1>1. Len(s) \in Nat /\ DOMAIN s = 1..Len(s) /\ \A i \in 1..Len(s) : s[i] \in S
  BY ElementOfSeq, LenProperties
<1>2. to \in Nat /\ from + 1 \in Nat
  BY <1>1
<1>3. \A i \in (from + 1)..to : s[i] \in S
  BY <1>1
<1>4. /\ SubSeq(s, from + 1, to) \in Seq(S)
      /\ Len(SubSeq(s, from + 1, to)) = IF from + 1 <= to THEN to - (from + 1) + 1 ELSE 0
      /\ \A i \in 1..(to - (from + 1) + 1) : SubSeq(s, from + 1, to)[i] = s[from + 1 + i - 1]
  <2> HIDE DEF to
  <2> QED BY <1>2, <1>3, SubSeqProperties
<1>5. Window(s, from, n) = SubSeq(s, from + 1, to)
  BY DEF Window
<1> QED BY <1>1, <1>2, <1>4, <1>5 DEF CutLen

LEMMA WindowOfPage ==
    ASSUME NEW s, IsPage(s), NEW from \in Nat, NEW n \in Nat
    PROVE  /\ IsPage(Window(s, from, n)) /\ Len(Window(s, from, n)) <= n
           /\ Len(Window(s, from, n)) <= Len(s)
           /\ HitsOf(Window(s, from, n)) \subseteq HitsOf(s)
<1> DEFINE w == Window(s, from, n)
           len == CutLen(s, from, n)
<1>1. s \in Seq(HitSet) /\ Len(s) \in Nat /\ DOMAIN s = 1..Len(s)
  BY LenProperties DEF IsPage
<1>2. /\ w \in Seq(HitSet) /\ Len(w) = len /\ len \in Nat /\ len <= n /\ len <= Len(s)
      /\ \A i \in 1..len : from + i \in 1..Len(s) /\ w[i] = s[from + i]
  BY <1>1, WindowCuts
<1>3. DOMAIN w = 1..len
  BY <1>2, LenProperties
<1> HIDE DEF w, len
<1>4. \A i, j \in 1..Len(s) : s[i].path = s[j].path => i = j
  BY DEF IsPage
<1>5. ASSUME NEW i \in 1..len, NEW j \in 1..len, w[i].path = w[j].path
      PROVE  i = j
  <2>1. from + i \in 1..Len(s) /\ from + j \in 1..Len(s)
        /\ s[from + i].path = s[from + j].path
    BY <1>2, <1>5
  <2>2. from + i = from + j
    BY <2>1, <1>4
  <2> QED BY <2>2
<1>6. HitsOf(w) \subseteq HitsOf(s)
  BY <1>1, <1>2, <1>3 DEF HitsOf
<1> QED BY <1>2, <1>5, <1>6 DEF IsPage, w

LEMMA RankedIsPage ==
    ASSUME NEW b, NEW S, S \subseteq HitSet, IsFiniteSet(S), Distinct(S)
    PROVE  /\ Rankable(S, b) /\ IsPage(Ranked(S, b))
           /\ HitsOf(Ranked(S, b)) = S /\ Len(Ranked(S, b)) = Cardinality(S)
<1>1. \A x \in HitSet : Sortable(x, b)
  BY SearchAssumption DEF HitSet, Sortable
<1>2. Rankable(S, b)
  BY <1>1 DEF Rankable
<1> DEFINE r == Ranked(S, b)
           n == Cardinality(S)
<1>3. /\ n \in Nat /\ r \in [1..n -> S] /\ r \in Seq(S) /\ Len(r) = n
      /\ \A i \in 1..n : Rank(S, b, r[i]) = i - 1
      /\ \A x \in S : Rank(S, b, x) + 1 \in 1..n /\ r[Rank(S, b, x) + 1] = x
  BY <1>2, RankedSorts
<1> HIDE DEF r, n
<1>4. r \in Seq(HitSet)
  BY <1>3, SeqMonotonic
<1>5. \A i \in 1..n : r[i] \in S
  BY <1>3
<1>6. ASSUME NEW i \in 1..n, NEW j \in 1..n, r[i].path = r[j].path PROVE i = j
  <2>1. r[i] = r[j]
    BY <1>5, <1>6 DEF Distinct
  <2>2. i - 1 = j - 1
    BY <2>1, <1>3
  <2> QED BY <2>2, <1>3
<1>7. HitsOf(r) = S
  BY <1>3, <1>5 DEF HitsOf
<1> QED BY <1>2, <1>3, <1>4, <1>6, <1>7 DEF IsPage, r, n

\* As many paths as hits.
LEMMA PathsOfPage ==
    ASSUME NEW s, IsPage(s)
    PROVE  /\ PathsOf(s) \subseteq Paths
           /\ Cardinality(PathsOf(s)) = Len(s)
           /\ Len(s) \in Nat /\ Len(s) <= Cardinality(Paths)
<1>1. s \in Seq(HitSet) /\ Len(s) \in Nat /\ DOMAIN s = 1..Len(s)
      /\ \A i \in 1..Len(s) : s[i] \in HitSet
  BY LenProperties, ElementOfSeq DEF IsPage
<1>2. PathsOf(s) = {s[i].path : i \in 1..Len(s)}
  BY <1>1 DEF PathsOf, HitsOf
<1> DEFINE f == [i \in 1..Len(s) |-> s[i].path]
<1>3. f \in [1..Len(s) -> PathsOf(s)]
  BY <1>2
<1>4. \A i, j \in 1..Len(s) : f[i] = f[j] => i = j
  BY DEF IsPage
<1>5. \A p \in PathsOf(s) : \E i \in 1..Len(s) : f[i] = p
  BY <1>2
<1> HIDE DEF f
<1>6. f \in Bijection(1..Len(s), PathsOf(s))
  BY <1>3, <1>4, <1>5 DEF Bijection, Injection, IsInjective, Surjection
<1>7. Cardinality(PathsOf(s)) = Len(s)
  BY <1>6, <1>1, FS_CountingElements DEF ExistsBijection
<1>8. PathsOf(s) \subseteq Paths
  BY <1>1, <1>2 DEF HitSet
<1>9. Cardinality(PathsOf(s)) <= Cardinality(Paths)
  BY <1>8, SearchAssumption, FS_Subset
<1> QED BY <1>1, <1>7, <1>8, <1>9

\* The hits of a branch.
LEMMA BranchHits ==
    ASSUME IndexOK, NEW b \in Branches
    PROVE  /\ HitsFor(b) \subseteq HitSet /\ IsFiniteSet(HitsFor(b))
           /\ Distinct(HitsFor(b))
           /\ Body(b) \subseteq Paths /\ IsFiniteSet(Body(b))
           /\ Cardinality(HitsFor(b)) = Cardinality(Body(b))
           /\ Cardinality(Body(b)) \in 0..Cardinality(Paths)
<1>1. \A p \in Body(b) : p \in Paths /\ index[p] \in Shapes
  BY DEF Body, Filtered, IndexOK
<1>2. \A p \in Body(b) : /\ {index[p].size, index[p].fts, index[p].body} \subseteq Nat
                         /\ index[p].name \in KnownNames
  BY <1>1, SearchAssumption DEF KnownNames
<1>3. \A p \in Body(b) : Score(b, p) \in Nat
  BY <1>2, SearchAssumption DEF Score, Branches
<1>4. \A p \in Body(b) : Hit(b, p) \in HitSet /\ Hit(b, p).path = p
  BY <1>1, <1>2, <1>3 DEF Hit, HitSet
<1>5. Distinct(HitsFor(b)) /\ HitsFor(b) \subseteq HitSet
  BY <1>4 DEF Distinct, HitsFor
<1>6. Body(b) \subseteq Paths
  BY <1>1
<1>7. IsFiniteSet(Body(b)) /\ Cardinality(Body(b)) <= Cardinality(Paths)
  BY <1>6, SearchAssumption, FS_Subset
<1> DEFINE f == [p \in Body(b) |-> Hit(b, p)]
<1>8. f \in [Body(b) -> HitsFor(b)] /\ \A p, q \in Body(b) : f[p] = f[q] => p = q
  BY <1>4 DEF HitsFor
<1>9. \A h \in HitsFor(b) : \E p \in Body(b) : f[p] = h
  BY DEF HitsFor
<1> HIDE DEF f
<1>10. f \in Bijection(Body(b), HitsFor(b))
  BY <1>8, <1>9 DEF Bijection, Injection, IsInjective, Surjection
<1>11. IsFiniteSet(HitsFor(b)) /\ Cardinality(HitsFor(b)) = Cardinality(Body(b))
  BY <1>7, <1>10, FS_Bijection DEF ExistsBijection
<1>12. Cardinality(Body(b)) \in Nat /\ Cardinality(Paths) \in Nat
  BY <1>7, SearchAssumption, FS_CardinalityType
<1> QED BY <1>5, <1>6, <1>7, <1>11, <1>12


-----------------------------------------------------------------------------
(* What the steps of a call answer with.                                   *)

LEMMA BranchPage ==
    ASSUME IndexOK, NEW b \in Branches, NEW n \in Nat, NEW from \in Nat
    PROVE  /\ IsPage(queryBranch(b, n, from))
           /\ Len(queryBranch(b, n, from)) <= n
           /\ PathsOf(queryBranch(b, n, from)) \subseteq Body(b)
<1> DEFINE r == Ranked(HitsFor(b), b)
<1>1. IsPage(r) /\ HitsOf(r) = HitsFor(b)
  BY BranchHits, RankedIsPage
<1>2. queryBranch(b, n, from) = Window(r, from, n)
  BY DEF queryBranch, HitsFor
<1> HIDE DEF r
<1>3. /\ IsPage(Window(r, from, n)) /\ Len(Window(r, from, n)) <= n
      /\ HitsOf(Window(r, from, n)) \subseteq HitsFor(b)
  BY <1>1, WindowOfPage
<1>4. \A h \in HitsFor(b) : h.path \in Body(b)
  BY DEF HitsFor, Hit
<1> QED BY <1>2, <1>3, <1>4 DEF PathsOf

MergedSet(a, b) ==
    {Boosted(h, HitsOf(b)) : h \in HitsOf(a)}
        \union {h \in HitsOf(b) : h.path \notin PathsOf(a)}

LEMMA HitsOfPage ==
    ASSUME NEW s, IsPage(s)
    PROVE  /\ HitsOf(s) \subseteq HitSet /\ IsFiniteSet(HitsOf(s))
           /\ Distinct(HitsOf(s))
<1>1. s \in Seq(HitSet) /\ Len(s) \in Nat /\ DOMAIN s = 1..Len(s)
      /\ \A i \in 1..Len(s) : s[i] \in HitSet
  BY LenProperties, ElementOfSeq DEF IsPage
<1>2. HitsOf(s) \subseteq HitSet /\ Distinct(HitsOf(s))
  BY <1>1 DEF HitsOf, Distinct, IsPage
<1> DEFINE f == [i \in 1..Len(s) |-> s[i]]
<1>3. f \in Surjection(1..Len(s), HitsOf(s))
  BY <1>1 DEF HitsOf, Surjection
<1>4. IsFiniteSet(HitsOf(s))
  BY <1>3, <1>1, FS_Interval, FS_Surjection
<1> QED BY <1>2, <1>4

\* A boosted hit keeps its file, and takes a better score of the same file.
LEMMA BoostedHit ==
    ASSUME NEW h \in HitSet, NEW O, O \subseteq HitSet
    PROVE  /\ Boosted(h, O) \in HitSet
           /\ Boosted(h, O).path = h.path /\ Boosted(h, O).name = h.name
           /\ Boosted(h, O).size = h.size /\ Boosted(h, O).kind = h.kind
           /\ \/ /\ Boosted(h, O).score = h.score
                 /\ \A o \in O : o.path = h.path => o.score <= h.score
              \/ \E o \in O : /\ o.path = h.path /\ o.score > h.score
                              /\ Boosted(h, O).score = o.score
<1> DEFINE twin == {o \in O : o.path = h.path /\ o.score > h.score}
<1>1. CASE twin = {}
  <2>1. Boosted(h, O) = h
    BY <1>1 DEF Boosted
  <2>2. \A o \in O : o.path = h.path => o.score <= h.score
    BY <1>1 DEF HitSet
  <2> QED BY <2>1, <2>2 DEF HitSet
<1>2. CASE twin # {}
  <2> DEFINE o == CHOOSE x \in twin : TRUE
  <2>1. o \in twin
    BY <1>2
  <2>2. Boosted(h, O) = [h EXCEPT !.score = o.score]
    BY <1>2 DEF Boosted
  <2> HIDE DEF o
  <2>3. o \in O /\ o.path = h.path /\ o.score > h.score /\ o \in HitSet
    BY <2>1
  <2> QED BY <2>2, <2>3 DEF HitSet
<1> QED BY <1>1, <1>2

LEMMA MergedHits ==
    ASSUME NEW a, NEW b, IsPage(a), IsPage(b)
    PROVE  /\ MergedSet(a, b) \subseteq HitSet
           /\ IsFiniteSet(MergedSet(a, b)) /\ Distinct(MergedSet(a, b))
           /\ {h.path : h \in MergedSet(a, b)} = PathsOf(a) \union PathsOf(b)
<1> DEFINE A == HitsOf(a)
           B == HitsOf(b)
           up == [h \in A |-> Boosted(h, B)]
           boosted == {Boosted(h, B) : h \in A}
           rest == {h \in B : h.path \notin PathsOf(a)}
<1>1. /\ A \subseteq HitSet /\ IsFiniteSet(A) /\ Distinct(A)
      /\ B \subseteq HitSet /\ IsFiniteSet(B) /\ Distinct(B)
  BY HitsOfPage
<1>2. PathsOf(a) = {h.path : h \in A} /\ PathsOf(b) = {h.path : h \in B}
  BY DEF PathsOf
<1>3. MergedSet(a, b) = boosted \union rest
  BY DEF MergedSet
<1>4. up \in Surjection(A, boosted)
  BY DEF Surjection
<1>5. IsFiniteSet(boosted)
  BY <1>4, <1>1, FS_Surjection
<1> HIDE DEF A, B
<1>6. IsFiniteSet(rest)
  BY <1>1, FS_Subset
<1>7. \A h \in A : Boosted(h, B) \in HitSet /\ Boosted(h, B).path = h.path
  BY <1>1, BoostedHit
<1>8. boosted \union rest \subseteq HitSet /\ Distinct(boosted \union rest)
  BY <1>1, <1>2, <1>7 DEF Distinct
<1>9. {h.path : h \in boosted \union rest} = PathsOf(a) \union PathsOf(b)
  BY <1>1, <1>2, <1>7
<1>10. IsFiniteSet(boosted \union rest)
  BY <1>5, <1>6, FS_Union
<1> QED BY <1>3, <1>8, <1>9, <1>10

LEMMA MergedPage ==
    ASSUME NEW a, NEW b, IsPage(a), IsPage(b)
    PROVE  /\ IsPage(mergeHitsBy(a, b))
           /\ PathsOf(mergeHitsBy(a, b)) = PathsOf(a) \union PathsOf(b)
           /\ mergeHitsBy(a, b) = Ranked(MergedSet(a, b), "merge")
           /\ Rankable(MergedSet(a, b), "merge")
<1>1. mergeHitsBy(a, b) = Ranked(MergedSet(a, b), "merge")
  BY DEF mergeHitsBy, MergedSet
<1>2. /\ IsPage(Ranked(MergedSet(a, b), "merge"))
      /\ HitsOf(Ranked(MergedSet(a, b), "merge")) = MergedSet(a, b)
      /\ Rankable(MergedSet(a, b), "merge")
  BY MergedHits, RankedIsPage
<1> QED BY <1>1, <1>2, MergedHits DEF PathsOf

LEMMA NoHits ==
    IsPage(<<>>) /\ PathsOf(<<>>) = {} /\ Len(<<>>) = 0
BY EmptySeq DEF IsPage, PathsOf, HitsOf


-----------------------------------------------------------------------------
(* Types and confinement.                                                  *)

InCall == step \notin {"ask", "replied", "over"}

\* Of the branches, where the steps rely on what was counted.
BranchesChosen ==
    /\ step \in {"union", "names", "contents", "merge"} =>
         nameBr \in {"fts", "like"} /\ contentBr = "content"
    /\ step = "page" => nameBr # "none" \/ contentBr # "none"

PagesOK == IsPage(nameHits) /\ IsPage(contentHits) /\ IsPage(hits)

\* No page goes past the window of a search.
WithinWindow == InCall \/ reply = "ok" => offset + limit <= MaxWindow

StatesOK ==
    /\ IndexOK /\ roots \subseteq {s.root : s \in Shapes} /\ writes \in Nat
    /\ step \in {"ask", "count_filter", "page_filter", "count_name",
                 "count_like", "count_content", "choose", "page", "union",
                 "names", "contents", "merge", "replied", "over"}
    /\ offset \in 0..MaxWindow /\ query.limit \in Int
    /\ nameBr \in {"none", "fts", "like"} /\ contentBr \in {"none", "content"}
    /\ total \in 0..Cardinality(Paths)
    /\ reply \in {"none", "ok", "bad_request", "indexing"}

CallInv == StatesOK /\ PagesOK /\ WithinWindow /\ BranchesChosen

LEMMA TypesOfPages ==
    ASSUME StatesOK, PagesOK
    PROVE  SearchTypeOK
BY PathsOfPage DEF StatesOK, PagesOK, IndexOK, SearchTypeOK

LEMMA CountsAreTyped ==
    /\ Cardinality(Paths) \in Nat /\ 0 \in 0..Cardinality(Paths)
    /\ \A b : Cardinality(Body(b)) \in 0..Cardinality(Paths)
    /\ \A b, c : Cardinality(Body(b) \union Body(c)) \in 0..Cardinality(Paths)
<1>1. Cardinality(Paths) \in Nat
  BY SearchAssumption, FS_CardinalityType
<1>2. ASSUME NEW P, P \subseteq Paths
      PROVE  Cardinality(P) \in 0..Cardinality(Paths)
  <2>1. IsFiniteSet(P) /\ Cardinality(P) <= Cardinality(Paths)
    BY <1>2, SearchAssumption, FS_Subset
  <2>2. Cardinality(P) \in Nat
    BY <2>1, FS_CardinalityType
  <2> QED BY <2>1, <2>2, <1>1
<1>3. \A b : Body(b) \subseteq Paths
  BY DEF Body, Filtered
<1>4. \A b, c : Body(b) \union Body(c) \subseteq Paths
  BY <1>3
<1> QED BY <1>1, <1>2, <1>3, <1>4

LEMMA CallInvInit ==
    ASSUME SearchInit
    PROVE  CallInv
<1>1. PICK c \in Cases : index = c.index /\ query = c.query
                         /\ writes = c.writes /\ roots = c.roots
  BY DEF SearchInit
<1>2. StatesOK
  BY <1>1, SearchAssumption, CountsAreTyped DEF SearchInit, StatesOK, IndexOK
<1>3. PagesOK
  BY NoHits DEF SearchInit, PagesOK
<1> QED BY <1>2, <1>3 DEF CallInv, SearchInit, WithinWindow, BranchesChosen, InCall

\* Every way to answer.
LEMMA Answers ==
    ASSUME CallInv, NEW r, NEW page, NEW n, Replies(r, page, n),
           r \in {"ok", "bad_request", "indexing"},
           r = "ok" => offset + limit <= MaxWindow,
           IsPage(page), n \in 0..Cardinality(Paths)
    PROVE  CallInv'
<1>1. StatesOK'
  BY DEF CallInv, StatesOK, IndexOK, Replies, world, asked, branches
<1>2. PagesOK'
  BY DEF CallInv, PagesOK, IsPage, Replies, fetched
<1>3. WithinWindow' /\ BranchesChosen'
  BY DEF WithinWindow, BranchesChosen, InCall, limit, Replies, asked, branches
<1> QED BY <1>1, <1>2, <1>3 DEF CallInv

LEMMA CallInvAsk ==
    ASSUME CallInv, Ask
    PROVE  CallInv'
<1>1. CASE BadRequest
  BY <1>1, NoHits, CountsAreTyped, Answers DEF Ask
<1>2. CASE ~BadRequest
  <2>1. StatesOK'
    BY <1>2, CountsAreTyped DEF Ask, CallInv, StatesOK, IndexOK, asked
  <2>2. PagesOK'
    BY <1>2, NoHits DEF Ask, CallInv, PagesOK, IsPage
  <2>3. limit' = limit /\ offset' = offset /\ limit \in Nat /\ offset \in Nat
    BY <1>2, LimitIsPositive DEF Ask, asked, limit, CallInv, StatesOK
  <2>4. WithinWindow'
    BY <1>2, <2>3, SearchAssumption DEF WithinWindow, BadRequest
  <2>5. BranchesChosen'
    BY <1>2 DEF Ask, BranchesChosen
  <2> QED BY <2>1, <2>2, <2>4, <2>5 DEF CallInv
<1> QED BY <1>1, <1>2

\* The steps that go on within a call.
LEMMA GoesOn ==
    ASSUME CallInv, InCall, NEW to, Goes(to),
           to \in {"page_filter", "count_like", "count_content", "choose",
                   "page", "union", "names", "contents", "merge"},
           nameBr' \in {"none", "fts", "like"},
           contentBr' \in {"none", "content"},
           total' \in 0..Cardinality(Paths),
           IsPage(nameHits)', IsPage(contentHits)', BranchesChosen'
    PROVE  CallInv'
<1>1. StatesOK'
  BY DEF CallInv, StatesOK, IndexOK, Goes, world, asked
<1>2. PagesOK'
  BY DEF CallInv, PagesOK, Goes, IsPage
<1>3. WithinWindow'
  BY DEF CallInv, WithinWindow, InCall, Goes, asked, limit
<1> QED BY <1>1, <1>2, <1>3 DEF CallInv

LEMMA CallInvCounts ==
    ASSUME CallInv, CountFilter \/ CountName \/ CountLike \/ CountContent \/ Choose
    PROVE  CallInv'
<1> USE DEF InCall
<1>0. IndexOK /\ offset + limit <= MaxWindow
  BY DEF CallInv, StatesOK, WithinWindow, CountFilter, CountName, CountLike,
         CountContent, Choose
<1>a. ASSUME UNCHANGED fetched PROVE IsPage(nameHits)' /\ IsPage(contentHits)'
  BY <1>a DEF CallInv, PagesOK, fetched, IsPage
<1>b. nameBr \in {"none", "fts", "like"} /\ contentBr \in {"none", "content"}
      /\ total \in 0..Cardinality(Paths)
  BY DEF CallInv, StatesOK
<1>1. CASE CountFilter
  <2> DEFINE n == Cardinality(Body("filter"))
  <2>0. n \in 0..Cardinality(Paths)
    BY <1>0, CountsAreTyped
  <2>1. CASE offset >= n
    BY <1>0, <1>1, <2>0, <2>1, NoHits, Answers DEF CountFilter
  <2>2. CASE ~(offset >= n)
    <3>1. total' = n /\ Goes("page_filter") /\ UNCHANGED <<branches, fetched>>
      BY <1>1, <2>2 DEF CountFilter
    <3>2. BranchesChosen'
      BY <3>1 DEF Goes, BranchesChosen
    <3> QED BY <1>1, <1>a, <1>b, <2>0, <3>1, <3>2, GoesOn DEF CountFilter, branches
  <2> QED BY <2>1, <2>2
<1>2. ASSUME NEW b \in {"fts", "like"}, NameCounted(b), InCall
      PROVE  CallInv'
  <2>1. Cardinality(Body(b)) \in 0..Cardinality(Paths)
    BY <1>0, CountsAreTyped
  <2>2. BranchesChosen'
    BY <1>2 DEF NameCounted, Goes, BranchesChosen
  <2>3. nameBr' \in {"none", "fts", "like"} /\ contentBr' \in {"none", "content"}
        /\ total' \in 0..Cardinality(Paths) /\ UNCHANGED fetched
    BY <1>2, <1>b, <2>1 DEF NameCounted
  <2>4. CASE query.mode = "name"
    BY <1>2, <1>a, <2>2, <2>3, <2>4, GoesOn DEF NameCounted
  <2>5. CASE query.mode # "name"
    BY <1>2, <1>a, <2>2, <2>3, <2>5, GoesOn DEF NameCounted
  <2> QED BY <2>4, <2>5
<1>3. CASE CountName
  <2>1. CASE Body("fts") = {} /\ query.long
    <3>1. Goes("count_like") /\ UNCHANGED <<branches, total, fetched>>
      BY <1>3, <2>1 DEF CountName
    <3>2. BranchesChosen'
      BY <3>1 DEF Goes, BranchesChosen
    <3> QED BY <1>3, <1>a, <1>b, <3>1, <3>2, GoesOn DEF CountName, branches
  <2>2. CASE ~(Body("fts") = {} /\ query.long)
    BY <1>2, <1>3, <2>2 DEF CountName
  <2> QED BY <2>1, <2>2
<1>4. CASE CountLike
  BY <1>2, <1>4 DEF CountLike
<1>5. CASE CountContent
  <2>1. Cardinality(Body("content")) \in 0..Cardinality(Paths)
    BY <1>0, CountsAreTyped
  <2>2. BranchesChosen'
    BY <1>5 DEF CountContent, Goes, BranchesChosen
  <2> QED BY <1>5, <1>a, <1>b, <2>1, <2>2, GoesOn DEF CountContent
<1>6. CASE Choose
  <2>1. CASE nameBr = "none" /\ contentBr = "none"
    BY <1>0, <1>6, <2>1, NoHits, CountsAreTyped, Answers DEF Choose
  <2>2. CASE ~(nameBr = "none" /\ contentBr = "none")
    <3>1. /\ Goes(IF contentBr = "none" \/ nameBr = "none" THEN "page" ELSE "union")
          /\ UNCHANGED <<branches, total, fetched>>
      BY <1>6, <2>2 DEF Choose
    <3>2. BranchesChosen'
      BY <3>1, <1>b, <2>2 DEF Goes, BranchesChosen, branches
    <3> QED BY <1>6, <1>a, <1>b, <3>1, <3>2, GoesOn DEF Choose, branches
  <2> QED BY <2>1, <2>2
<1> QED BY <1>1, <1>3, <1>4, <1>5, <1>6

LEMMA CallInvPages ==
    ASSUME CallInv, PageFilter \/ Page \/ QueryFails \/ Merge
    PROVE  CallInv'
<1>0. IndexOK /\ offset + limit <= MaxWindow
      /\ limit \in Nat /\ offset \in Nat /\ total \in 0..Cardinality(Paths)
  BY LimitIsPositive DEF CallInv, StatesOK, WithinWindow, InCall, PageFilter, Page, Merge,
     QueryFails
<1>1. CASE PageFilter
  <2>1. IsPage(queryBranch("filter", limit, offset))
    BY <1>0, BranchPage DEF Branches
  <2> QED BY <1>0, <1>1, <2>1, Answers DEF PageFilter
<1>2. CASE Page
  <2>1. (IF contentBr = "none" THEN nameBr ELSE contentBr) \in Branches
    BY <1>2 DEF Page, CallInv, StatesOK, BranchesChosen, Branches
  <2>2. IsPage(queryBranch(IF contentBr = "none" THEN nameBr ELSE contentBr,
                           limit, offset))
    BY <1>0, <2>1, BranchPage
  <2> QED BY <1>0, <1>2, <2>2, Answers DEF Page
<1>3. CASE QueryFails
  BY <1>0, <1>3, NoHits, CountsAreTyped, Answers DEF QueryFails
<1>4. CASE Merge
  <2> DEFINE merged == mergeHitsBy(nameHits, contentHits)
  <2>1. IsPage(merged)
    BY MergedPage DEF CallInv, PagesOK
  <2>2. IsPage(IF offset >= Len(merged) THEN <<>> ELSE Window(merged, offset, limit))
    BY <1>0, <2>1, NoHits, WindowOfPage
  <2>3. Replies("ok", IF offset >= Len(merged) THEN <<>>
                      ELSE Window(merged, offset, limit), total)
    BY <1>4 DEF Merge
  <2> HIDE DEF merged
  <2> QED BY <1>0, <2>2, <2>3, Answers
<1> QED BY <1>1, <1>2, <1>3, <1>4

LEMMA CallInvFetches ==
    ASSUME CallInv, countUnion \/ FetchNames \/ FetchContents
    PROVE  CallInv'
<1> USE DEF InCall
<1>0. IndexOK /\ offset + limit <= MaxWindow
      /\ nameBr \in {"fts", "like"} /\ contentBr = "content"
      /\ IsPage(nameHits) /\ IsPage(contentHits)
      /\ total \in 0..Cardinality(Paths) /\ Depth \in Nat
  BY LimitIsPositive DEF CallInv, StatesOK, WithinWindow, BranchesChosen, PagesOK,
     countUnion, FetchNames, FetchContents, Depth
<1>1. CASE countUnion
  <2> DEFINE n == Cardinality(Body(nameBr) \union Body(contentBr))
  <2>0. n \in 0..Cardinality(Paths)
    BY <1>0, CountsAreTyped
  <2>1. CASE offset >= n
    BY <1>0, <1>1, <2>0, <2>1, NoHits, Answers DEF countUnion
  <2>2. CASE ~(offset >= n)
    <3>1. total' = n /\ Goes("names") /\ UNCHANGED <<branches, fetched>>
      BY <1>1, <2>2 DEF countUnion
    <3>2. BranchesChosen'
      BY <3>1, <1>0 DEF Goes, BranchesChosen, branches
    <3>3. IsPage(nameHits)' /\ IsPage(contentHits)'
      BY <3>1, <1>0 DEF fetched, IsPage
    <3> QED BY <1>0, <1>1, <2>0, <3>1, <3>2, <3>3, GoesOn DEF countUnion, branches
  <2> QED BY <2>1, <2>2
<1>2. CASE FetchNames
  <2>1. IsPage(queryBranch(nameBr, Depth, 0))
    BY <1>0, BranchPage DEF Branches
  <2>2. IsPage(nameHits)' /\ IsPage(contentHits)'
    BY <2>1, <1>0, <1>2 DEF FetchNames, IsPage
  <2>3. BranchesChosen'
    BY <1>0, <1>2 DEF FetchNames, Goes, BranchesChosen, branches
  <2> QED BY <1>0, <1>2, <2>2, <2>3, GoesOn DEF FetchNames, branches
<1>3. CASE FetchContents
  <2>1. IsPage(queryBranch(contentBr, Depth, 0))
    BY <1>0, BranchPage DEF Branches
  <2>2. IsPage(nameHits)' /\ IsPage(contentHits)'
    BY <2>1, <1>0, <1>3 DEF FetchContents, IsPage
  <2>3. BranchesChosen'
    BY <1>0, <1>3 DEF FetchContents, Goes, BranchesChosen, branches
  <2> QED BY <1>0, <1>3, <2>2, <2>3, GoesOn DEF FetchContents, branches
<1> QED BY <1>1, <1>2, <1>3

LEMMA CallInvOthers ==
    ASSUME CallInv, TurnPage \/ LastPage \/ Others
    PROVE  CallInv'
<1>1. StatesOK'
  <2>1. CASE TurnPage
    <3>1. offset + limit <= MaxWindow /\ limit \in Nat
      BY <2>1, LimitIsPositive DEF TurnPage, CallInv, WithinWindow, StatesOK
    <3>2. offset + limit \in 0..MaxWindow
      BY <3>1, SearchAssumption DEF CallInv, StatesOK
    <3> QED BY <2>1, <3>2 DEF TurnPage, CallInv, StatesOK, IndexOK, world, branches
  <2>2. CASE LastPage
    BY <2>2 DEF LastPage, CallInv, StatesOK, IndexOK, world, branches, asked
  <2>3. CASE Others
    BY <2>3 DEF Others, CallInv, StatesOK, IndexOK, branches, asked
  <2> QED BY <2>1, <2>2, <2>3
<1>2. PagesOK'
  <2>1. UNCHANGED <<nameHits, contentHits>> /\ (UNCHANGED hits \/ hits' = <<>>)
    BY DEF TurnPage, LastPage, Others, fetched
  <2>2. IsPage(hits')
    BY <2>1, NoHits DEF CallInv, PagesOK
  <2>3. IsPage(nameHits') /\ IsPage(contentHits')
    BY <2>1 DEF CallInv, PagesOK
  <2> QED BY <2>2, <2>3 DEF PagesOK, IsPage
<1>3. WithinWindow' /\ BranchesChosen'
  BY DEF TurnPage, LastPage, Others, CallInv, WithinWindow, BranchesChosen, InCall,
     limit, asked, branches
<1> QED BY <1>1, <1>2, <1>3 DEF CallInv

LEMMA CallInvStep ==
    ASSUME CallInv, [SearchNext]_searchVars
    PROVE  CallInv'
<1>1. CASE UNCHANGED searchVars
  <2>1. StatesOK' /\ PagesOK'
    BY <1>1 DEF CallInv, StatesOK, PagesOK, IndexOK, IsPage, searchVars, world, asked,
       branches, fetched
  <2>2. WithinWindow' /\ BranchesChosen'
    BY <1>1 DEF CallInv, WithinWindow, BranchesChosen, InCall, limit, searchVars, world,
       asked, branches, fetched
  <2> QED BY <2>1, <2>2 DEF CallInv
<1> QED BY <1>1, CallInvAsk, CallInvCounts, CallInvPages, CallInvFetches,
           CallInvOthers DEF SearchNext, SearchStep

\* Every state of a search is well typed: in particular the offset never goes
\* past the window of 10,000 hits, and no list is longer than the files there
\* are.
THEOREM TypeCorrect == SearchSpec => []SearchTypeOK
<1>1. SearchInit => CallInv
  BY CallInvInit
<1>2. CallInv /\ [SearchNext]_searchVars => CallInv'
  BY CallInvStep
<1>3. CallInv => SearchTypeOK
  BY TypesOfPages DEF CallInv
<1> QED BY <1>1, <1>2, <1>3, PTL DEF SearchSpec


\* A row that was there during the call, beneath a root of its scope and an
\* allowed one, was at this path.
Seen(p) ==
    \E w \in were : /\ w[1] = p
                    /\ \A rs \in {scope, AllowedRoots} :
                         \E r \in rs : Folded[r] = Folded[w[2].root]

\* All that a call has in hand was seen, not only what it answers with.
Confined ==
    /\ InCall => Present(index) \subseteq were
    /\ \A p \in PathsOf(nameHits) \union PathsOf(contentHits) \union PathsOf(hits) :
         Seen(p)
    /\ Len(hits) <= limit
    /\ step \notin {"replied", "over"} => hits = <<>>

LEMMA SeenStays ==
    ASSUME were \subseteq were', UNCHANGED scope, NEW p, Seen(p)
    PROVE  Seen(p)'
BY DEF Seen

\* What a branch selects is there at the moment, and in scope.
LEMMA BodyIsSeen ==
    ASSUME Present(index) \subseteq were, NEW b, NEW p \in Body(b)
    PROVE  Seen(p)
<1>1. p \in Paths /\ index[p] # NoRow /\ scopeFilter(index[p], scope)
  BY DEF Body, Filtered
<1>2. <<p, index[p]>> \in were
  BY <1>1 DEF Present
<1>3. \A rs \in {scope, AllowedRoots} : \E r \in rs : Folded[r] = Folded[index[p].root]
  BY <1>1 DEF scopeFilter
<1> QED BY <1>2, <1>3 DEF Seen

LEMMA ConfinedInit ==
    ASSUME SearchInit
    PROVE  Confined
<1>1. CallInv
  BY CallInvInit
<1>2. limit \in Nat
  BY <1>1, LimitIsPositive DEF CallInv, StatesOK
<1> QED BY <1>2, NoHits DEF SearchInit, Confined, InCall

\* An answer of files that were seen keeps all confined.
LEMMA AnswersAreSeen ==
    ASSUME Confined, NEW r, NEW page, NEW n, Replies(r, page, n),
           \A p \in PathsOf(page) : Seen(p), Len(page) <= limit
    PROVE  Confined'
<1>1. were \subseteq were' /\ UNCHANGED scope
  BY DEF Replies, world
<1>2. /\ PathsOf(nameHits)' = PathsOf(nameHits)
      /\ PathsOf(contentHits)' = PathsOf(contentHits)
      /\ PathsOf(hits)' = PathsOf(page)
  BY DEF Replies, fetched, PathsOf, HitsOf
<1>3. \A p \in PathsOf(nameHits)' \union PathsOf(contentHits)' \union PathsOf(hits)' :
        Seen(p)'
  BY <1>1, <1>2, SeenStays DEF Confined
<1>4. Len(hits)' <= limit' /\ step' = "replied"
  BY DEF Replies, asked, limit
<1> QED BY <1>3, <1>4 DEF Confined, InCall

LEMMA EmptyIsSeen ==
    ASSUME CallInv, Confined, NEW r, NEW n, Replies(r, <<>>, n)
    PROVE  Confined'
BY NoHits, AnswersAreSeen, LimitIsPositive DEF CallInv, StatesOK

\* Steps that go on, with what they fetched.
LEMMA GoesOnSeen ==
    ASSUME Confined, InCall, NEW to, Goes(to), to \notin {"replied", "over"},
           \A p \in PathsOf(nameHits)' \union PathsOf(contentHits)' : Seen(p)
    PROVE  Confined'
<1>1. were \subseteq were' /\ UNCHANGED <<scope, index, hits, were>>
  BY DEF Goes, world
<1>2. PathsOf(hits)' = PathsOf(hits)
  BY <1>1 DEF PathsOf, HitsOf
<1>3. \A p \in PathsOf(nameHits)' \union PathsOf(contentHits)' \union PathsOf(hits)' :
        Seen(p)'
  BY <1>1, <1>2, SeenStays DEF Confined
<1>4. Len(hits)' <= limit' /\ hits' = <<>>
  BY <1>1 DEF Goes, Confined, asked, limit, InCall
<1>5. Present(index)' \subseteq were'
  BY <1>1 DEF Confined, Present
<1> QED BY <1>3, <1>4, <1>5 DEF Confined

LEMMA ConfinedCounts ==
    ASSUME CallInv, Confined,
           \/ CountFilter \/ CountName \/ CountLike \/ CountContent \/ Choose
           \/ countUnion \/ QueryFails
    PROVE  Confined'
<1>1. CASE \E r, n : Replies(r, <<>>, n)
  BY <1>1, EmptyIsSeen
<1>2. ASSUME NEW to \in {"page_filter", "count_like", "count_content", "choose",
                         "page", "union", "names"},
             Goes(to), UNCHANGED fetched, InCall
      PROVE  Confined'
  <2>1. PathsOf(nameHits)' = PathsOf(nameHits) /\ PathsOf(contentHits)' = PathsOf(contentHits)
    BY <1>2 DEF fetched, PathsOf, HitsOf
  <2> QED BY <1>2, <2>1, GoesOnSeen DEF Confined
<1>3. CASE CountFilter \/ countUnion
  BY <1>1, <1>2, <1>3 DEF CountFilter, countUnion, InCall
<1>4. CASE CountName \/ CountLike \/ CountContent
  BY <1>2, <1>4 DEF CountName, CountLike, CountContent, NameCounted, InCall
<1>5. CASE Choose
  BY <1>1, <1>2, <1>5 DEF Choose, InCall
<1>6. CASE QueryFails
  BY <1>1, <1>6 DEF QueryFails
<1> QED BY <1>3, <1>4, <1>5, <1>6

LEMMA ConfinedPages ==
    ASSUME CallInv, Confined,
           PageFilter \/ Page \/ Merge \/ FetchNames \/ FetchContents
    PROVE  Confined'
<1>0. /\ IndexOK /\ limit \in Nat /\ offset \in Nat /\ Depth \in Nat
      /\ IsPage(nameHits) /\ IsPage(contentHits)
  BY LimitIsPositive DEF CallInv, StatesOK, PagesOK, Depth
<1>1. Present(index) \subseteq were /\ InCall
  BY DEF Confined, InCall, PageFilter, Page, Merge, FetchNames, FetchContents
<1>2. ASSUME NEW b \in Branches, NEW n \in Nat, NEW from \in Nat
      PROVE  /\ \A p \in PathsOf(queryBranch(b, n, from)) : Seen(p)
             /\ Len(queryBranch(b, n, from)) <= n
  <2>1. /\ Len(queryBranch(b, n, from)) <= n
        /\ PathsOf(queryBranch(b, n, from)) \subseteq Body(b)
    BY <1>0, BranchPage
  <2> QED BY <1>1, <2>1, BodyIsSeen
<1>3. CASE PageFilter
  BY <1>0, <1>2, <1>3, AnswersAreSeen DEF PageFilter, Branches
<1>4. CASE Page
  <2>1. (IF contentBr = "none" THEN nameBr ELSE contentBr) \in Branches
    BY <1>4 DEF Page, CallInv, StatesOK, BranchesChosen, Branches
  <2> QED BY <1>0, <1>2, <1>4, <2>1, AnswersAreSeen DEF Page
<1>5. CASE Merge
  <2> DEFINE merged == mergeHitsBy(nameHits, contentHits)
             page == IF offset >= Len(merged) THEN <<>>
                     ELSE Window(merged, offset, limit)
  <2>1. IsPage(merged) /\ PathsOf(merged) = PathsOf(nameHits) \union PathsOf(contentHits)
    BY <1>0, MergedPage
  <2>2. Replies("ok", page, total)
    BY <1>5 DEF Merge
  <2> HIDE DEF merged
  <2>3. PathsOf(page) \subseteq PathsOf(merged) /\ Len(page) <= limit
    <3>1. CASE offset >= Len(merged)
      BY <3>1, <1>0, NoHits
    <3>2. CASE ~(offset >= Len(merged))
      <4>1. HitsOf(page) \subseteq HitsOf(merged) /\ Len(page) <= limit
        BY <1>0, <2>1, <3>2, WindowOfPage
      <4> QED BY <4>1 DEF PathsOf
    <3> QED BY <3>1, <3>2
  <2>4. \A p \in PathsOf(page) : Seen(p)
    BY <2>1, <2>3 DEF Confined
  <2> HIDE DEF page
  <2> QED BY <2>2, <2>3, <2>4, AnswersAreSeen
<1>6. CASE FetchNames \/ FetchContents
  <2>1. \A p \in PathsOf(nameHits)' \union PathsOf(contentHits)' : Seen(p)
    <3>1. CASE FetchNames
      <4>1. \A p \in PathsOf(queryBranch(nameBr, Depth, 0)) : Seen(p)
        BY <1>0, <1>2, <3>1 DEF FetchNames, CallInv, BranchesChosen, Branches
      <4>2. PathsOf(nameHits)' = PathsOf(queryBranch(nameBr, Depth, 0))
            /\ PathsOf(contentHits)' = PathsOf(contentHits)
        BY <3>1 DEF FetchNames, PathsOf, HitsOf
      <4> QED BY <4>1, <4>2 DEF Confined
    <3>2. CASE FetchContents
      <4>1. \A p \in PathsOf(queryBranch(contentBr, Depth, 0)) : Seen(p)
        BY <1>0, <1>2, <3>2 DEF FetchContents, CallInv, BranchesChosen, Branches
      <4>2. PathsOf(contentHits)' = PathsOf(queryBranch(contentBr, Depth, 0))
            /\ PathsOf(nameHits)' = PathsOf(nameHits)
        BY <3>2 DEF FetchContents, PathsOf, HitsOf
      <4> QED BY <4>1, <4>2 DEF Confined
    <3> QED BY <1>6, <3>1, <3>2
  <2> QED BY <1>1, <1>6, <2>1, GoesOnSeen DEF FetchNames, FetchContents
<1> QED BY <1>3, <1>4, <1>5, <1>6

LEMMA ConfinedOthers ==
    ASSUME CallInv, Confined, Ask \/ TurnPage \/ LastPage \/ Others
    PROVE  Confined'
<1>0. limit \in Nat
  BY LimitIsPositive DEF CallInv, StatesOK
<1>1. CASE Ask
  <2>1. CASE BadRequest
    BY <1>1, <2>1, EmptyIsSeen DEF Ask
  <2>2. CASE ~BadRequest
    <3>1. /\ were' = Present(index) /\ UNCHANGED <<index, hits, query>> /\ step = "ask"
          /\ nameHits' = <<>> /\ contentHits' = <<>>
          /\ step' \notin {"replied", "over"}
      BY <1>1, <2>2 DEF Ask, asked
    <3>2. hits' = <<>> /\ limit' = limit
      BY <3>1 DEF Confined, limit
    <3>3. PathsOf(hits)' = {} /\ PathsOf(nameHits)' = {} /\ PathsOf(contentHits)' = {}
          /\ Len(hits)' = 0
      BY <3>1, <3>2, NoHits DEF PathsOf, HitsOf
    <3>4. Present(index)' \subseteq were'
      BY <3>1 DEF Present
    <3> QED BY <1>0, <3>1, <3>2, <3>3, <3>4 DEF Confined
  <2> QED BY <2>1, <2>2
<1>2. ASSUME were \subseteq were', UNCHANGED <<scope, query, nameHits, contentHits>>,
             UNCHANGED hits \/ hits' = <<>>
      PROVE  /\ \A p \in PathsOf(nameHits)' \union PathsOf(contentHits)' \union PathsOf(hits)' :
                  Seen(p)'
             /\ Len(hits)' <= limit'
  <2>1. PathsOf(nameHits)' = PathsOf(nameHits) /\ PathsOf(contentHits)' = PathsOf(contentHits)
        /\ limit' = limit
    BY <1>2 DEF PathsOf, HitsOf, limit
  <2>2. (PathsOf(hits)' = PathsOf(hits) /\ Len(hits)' = Len(hits))
        \/ (PathsOf(hits)' = {} /\ Len(hits)' = 0)
    BY <1>2, NoHits DEF PathsOf, HitsOf
  <2> QED BY <1>0, <1>2, <2>1, <2>2, SeenStays DEF Confined
<1>3. CASE TurnPage
  BY <1>2, <1>3 DEF TurnPage, Confined, InCall, world, fetched
<1>4. CASE LastPage
  BY <1>2, <1>4 DEF LastPage, Confined, InCall, world, fetched, asked
<1>5. CASE Others
  <2>1. were' = were \union Present(index') /\ UNCHANGED <<step, hits>>
    BY <1>5 DEF Others
  <2>2. Present(index)' \subseteq were'
    BY <2>1 DEF Present
  <2> QED BY <1>2, <1>5, <2>1, <2>2 DEF Others, Confined, InCall, asked, fetched
<1> QED BY <1>1, <1>3, <1>4, <1>5

LEMMA ConfinedStep ==
    ASSUME CallInv, Confined, [SearchNext]_searchVars
    PROVE  Confined'
<1>1. CASE UNCHANGED searchVars
  BY <1>1 DEF Confined, InCall, Seen, Present, PathsOf, HitsOf, limit, searchVars,
     world, asked, fetched
<1> QED BY <1>1, ConfinedCounts, ConfinedPages, ConfinedOthers DEF SearchNext, SearchStep

\* Whatever is written to the index or configured while a call runs its
\* queries, which are not one transaction: every hit was, at some moment of the
\* call, a row beneath a root of the configuration the call began with and of
\* the allowed ones; a page has no more hits than asked for, and no file twice.
THEOREM HitsConfined == SearchSpec => []HitsAreConfined
<1>1. SearchInit => CallInv /\ Confined
  BY CallInvInit, ConfinedInit
<1>2. CallInv /\ Confined /\ [SearchNext]_searchVars => (CallInv /\ Confined)'
  BY CallInvStep, ConfinedStep
<1>3. CallInv /\ Confined => HitsAreConfined
  BY PathsOfPage DEF CallInv, PagesOK, Confined, Seen, HitsAreConfined
<1> QED BY <1>1, <1>2, <1>3, PTL DEF SearchSpec


-----------------------------------------------------------------------------
(* Two rankings that agree on their first places.                          *)

\* Files rather than hits, to compare hits of different kinds.
Ahead(S, b, x) == {y.path : y \in Before(S, b, x)}

LEMMA AheadCounts ==
    ASSUME NEW b, NEW S, Rankable(S, b), NEW x \in S
    PROVE  Cardinality(Ahead(S, b, x)) = Rank(S, b, x)
<1> DEFINE B == Before(S, b, x)
           f == [y \in B |-> y.path]
<1>1. IsFiniteSet(B) /\ B \subseteq S
  BY FS_Subset DEF Rankable, Before
<1>2. f \in [B -> Ahead(S, b, x)]
  BY DEF Ahead
<1>3. \A y, z \in B : f[y] = f[z] => y = z
  BY <1>1 DEF Rankable, Distinct
<1>4. \A p \in Ahead(S, b, x) : \E y \in B : f[y] = p
  BY DEF Ahead
<1> HIDE DEF f
<1>5. f \in Bijection(B, Ahead(S, b, x))
  BY <1>2, <1>3, <1>4 DEF Bijection, Injection, IsInjective, Surjection
<1> QED BY <1>1, <1>5, FS_Bijection DEF ExistsBijection, Rank

\* If whatever is among the first K of T has a counterpart in S with the same
\* files ahead, the first K places are the same.
LEMMA PrefixAgrees ==
    ASSUME NEW b, NEW S, Rankable(S, b), NEW c, NEW T, Rankable(T, c),
           NEW K \in Nat,
           \A y \in T : Rank(T, c, y) < K =>
             \E x \in S : x.path = y.path /\ Ahead(S, b, x) = Ahead(T, c, y)
    PROVE  \A i \in 1..Cardinality(T) : i <= K =>
             /\ i <= Cardinality(S)
             /\ Ranked(S, b)[i].path = Ranked(T, c)[i].path
<1> SUFFICES ASSUME NEW i \in 1..Cardinality(T), i <= K
             PROVE  /\ i <= Cardinality(S)
                    /\ Ranked(S, b)[i].path = Ranked(T, c)[i].path
  OBVIOUS
<1> DEFINE y == Ranked(T, c)[i]
<1>1. y \in T /\ Rank(T, c, y) = i - 1 /\ Cardinality(T) \in Nat
  BY RankedSorts
<1>2. PICK x \in S : x.path = y.path /\ Ahead(S, b, x) = Ahead(T, c, y)
  BY <1>1
<1>3. Rank(S, b, x) = i - 1
  BY <1>1, <1>2, AheadCounts
<1>4. Rank(S, b, x) + 1 \in 1..Cardinality(S) /\ Ranked(S, b)[Rank(S, b, x) + 1] = x
  BY RankedSorts
<1>5. Rank(S, b, x) + 1 = i
  BY <1>1, <1>3
<1> QED BY <1>2, <1>4, <1>5

\* Then so are the pages within them.
LEMMA PageAgrees ==
    ASSUME NEW r \in Seq(HitSet), NEW A \in Seq(Nat),
           NEW from \in Nat, NEW n \in Nat,
           Len(r) <= Len(A),
           \A i \in 1..Len(A) : i <= from + n =>
             i <= Len(r) /\ r[i].path = A[i]
    PROVE  /\ Len(Window(r, from, n)) = CutLen(A, from, n)
           /\ [i \in DOMAIN Window(r, from, n) |-> Window(r, from, n)[i].path]
                = Window(A, from, n)
<1> DEFINE w == Window(r, from, n)
           v == Window(A, from, n)
<1>1. Len(r) \in Nat /\ Len(A) \in Nat
  BY LenProperties
<1>2. /\ w \in Seq(HitSet) /\ Len(w) = CutLen(r, from, n)
      /\ CutLen(r, from, n) \in Nat
      /\ \A i \in 1..CutLen(r, from, n) : w[i] = r[from + i]
  <2>1. w \in Seq(HitSet) /\ Len(w) = CutLen(r, from, n) /\ CutLen(r, from, n) \in Nat
    BY WindowCuts
  <2>2. ASSUME NEW i \in 1..CutLen(r, from, n) PROVE w[i] = r[from + i]
    BY WindowCuts
  <2> QED BY <2>1, <2>2
<1>3. /\ v \in Seq(Nat) /\ Len(v) = CutLen(A, from, n)
      /\ CutLen(A, from, n) \in Nat /\ CutLen(A, from, n) <= n
      /\ \A i \in 1..CutLen(A, from, n) : from + i \in 1..Len(A) /\ v[i] = A[from + i]
  BY WindowCuts
<1> HIDE DEF w, v
<1>4. CutLen(r, from, n) = CutLen(A, from, n)
  <2>1. CASE from + n <= Len(A)
    <3>1. from + n = 0 \/ from + n <= Len(r)
      BY <2>1, <1>1
    <3> QED BY <2>1, <3>1, <1>1 DEF CutLen
  <2>2. CASE ~(from + n <= Len(A))
    <3>1. Len(A) = 0 \/ Len(A) <= Len(r)
      BY <2>2, <1>1
    <3>2. Len(A) = Len(r)
      BY <3>1, <1>1
    <3> QED BY <3>2, <1>1 DEF CutLen
  <2> QED BY <2>1, <2>2
<1>5. DOMAIN w = 1..CutLen(A, from, n) /\ DOMAIN v = 1..CutLen(A, from, n)
  BY <1>2, <1>3, <1>4, LenProperties
<1>6. ASSUME NEW i \in 1..CutLen(A, from, n) PROVE w[i].path = v[i]
  <2>1. from + i \in 1..Len(A)
    BY <1>3
  <2>2. from + i <= from + n
    BY <1>3
  <2>3. r[from + i].path = A[from + i]
    BY <2>1, <2>2
  <2> QED BY <2>3, <1>2, <1>3, <1>4
<1>7. v = [i \in 1..CutLen(A, from, n) |-> v[i]]
  BY <1>3, <1>5
<1>8. [i \in DOMAIN w |-> w[i].path] = v
  BY <1>5, <1>6, <1>7
<1> QED BY <1>2, <1>4, <1>8 DEF w, v

\* Pages laid end to end.
LEMMA PagesJoin ==
    ASSUME NEW A \in Seq(Nat), NEW o \in Nat, NEW n \in Nat
    PROVE  /\ Window(A, 0, o) \o Window(A, o, n) = Window(A, 0, o + n)
           /\ o + CutLen(A, o, n) >= Len(A) => Window(A, 0, o + n) = A
           /\ o >= Len(A) => /\ CutLen(A, o, n) = 0
                             /\ Window(A, 0, o + n) = A /\ Window(A, 0, o) = A
<1>0. Len(A) \in Nat /\ SubSeq(A, 1, Len(A)) = A
  BY LenProperties, SubSeqFull
<1>1. ASSUME NEW k \in Nat
      PROVE  /\ k < Len(A) => Window(A, 0, k) = SubSeq(A, 1, k)
             /\ k >= Len(A) => Window(A, 0, k) = A
  <2>1. 0 + 1 = 1 /\ 0 + k = k
    OBVIOUS
  <2>2. CASE k < Len(A)
    BY <2>1, <2>2 DEF Window
  <2>3. CASE k >= Len(A)
    <3>1. ~(k < Len(A))
      BY <2>3, <1>0
    <3> QED BY <1>0, <2>1, <2>3, <3>1 DEF Window
  <2> QED BY <2>2, <2>3
<1>2. o + CutLen(A, o, n) >= Len(A) => Window(A, 0, o + n) = A
  <2>1. o + CutLen(A, o, n) >= Len(A) => o + n >= Len(A)
    BY <1>0 DEF CutLen
  <2> QED BY <2>1, <1>1
<1>3. CASE o >= Len(A)
  <2>1. Window(A, o, n) = <<>>
    <3>1. Window(A, o, n) = SubSeq(A, o + 1, Len(A))
      BY <1>0, <1>3 DEF Window
    <3> QED BY <3>1, <1>0, <1>3, SubSeqEmpty
  <2>2. Window(A, 0, o) = A /\ Window(A, 0, o + n) = A
    <3>1. o + n >= Len(A) /\ o + n \in Nat
      BY <1>0, <1>3
    <3> QED BY <3>1, <1>1, <1>3
  <2>3. A \o <<>> = A
    BY ConcatEmptySeq
  <2> QED BY <2>1, <2>2, <2>3, <1>2, <1>3 DEF CutLen
<1>4. CASE o < Len(A)
  <2> DEFINE to == IF o + n < Len(A) THEN o + n ELSE Len(A)
  <2>1. Window(A, 0, o) = SubSeq(A, 1, o) /\ Window(A, 0, o + n) = SubSeq(A, 1, to)
        /\ Window(A, o, n) = SubSeq(A, o + 1, to)
    <3>1. Window(A, o, n) = SubSeq(A, o + 1, to)
      BY DEF Window
    <3>2. CASE o + n < Len(A)
      BY <3>1, <3>2, <1>1, <1>4
    <3>3. CASE ~(o + n < Len(A))
      <4>1. o + n >= Len(A) /\ o + n \in Nat
        BY <3>3, <1>0
      <4> QED BY <3>1, <3>3, <4>1, <1>0, <1>1, <1>4
    <3> QED BY <3>2, <3>3
  <2>2. 1 \in 1..(Len(A) + 1) /\ o \in (1 - 1)..Len(A) /\ to \in o..Len(A)
    BY <1>0, <1>4
  <2> HIDE DEF to
  <2>3. SubSeq(A, 1, o) \o SubSeq(A, o + 1, to) = SubSeq(A, 1, to)
    BY <2>2, ConcatAdjacentSubSeq
  <2>4. ~(o >= Len(A))
    BY <1>0, <1>4
  <2>5. Window(A, 0, o) \o Window(A, o, n) = Window(A, 0, o + n)
    BY <2>1, <2>3
  <2> QED BY <2>4, <2>5, <1>2
<1> QED BY <1>0, <1>3, <1>4


-----------------------------------------------------------------------------
(* The answer a search stands for.                                         *)

Bests == {Best(p) : p \in Found}

LEMMA KindsAre ==
    ASSUME ~Amiss
    PROVE  /\ NameKind \in {"fts", "like"} /\ Kinds \subseteq Branches
           /\ \E c, d \in Branches : Kinds \subseteq {c, d}
           /\ ~query.text => Kinds = {"filter"}
           /\ query.text => Kinds \subseteq {NameKind, "content"}
           /\ \A b \in Kinds : query.text => TextHits(b) # {}
           /\ query.text => (NameKind \in Kinds
                <=> query.mode # "content" /\ TextHits(NameKind) # {})
           /\ query.text => ("content" \in Kinds
                <=> query.mode # "name" /\ TextHits("content") # {})
<1>1. NameKind \in {"fts", "like"} /\ NameKind # "content"
  BY DEF NameKind
<1>2. CASE ~query.text
  BY <1>1, <1>2 DEF Kinds, Branches
<1>3. CASE query.text
  <2>1. query.mode \in {"name", "content", "both"}
    BY DEF Amiss, Modes
  <2> QED BY <1>1, <1>3, <2>1 DEF Kinds, Branches
<1> QED BY <1>2, <1>3

LEMMA ScoresAreNat ==
    ASSUME IndexOK, NEW b \in Branches, NEW p \in Paths, index[p] # NoRow
    PROVE  /\ Score(b, p) \in Nat /\ index[p].name \in KnownNames
           /\ index[p].size \in Nat
<1>1. index[p] \in Shapes
  BY DEF IndexOK
<1>2. {index[p].size, index[p].fts, index[p].body} \subseteq Nat
  BY <1>1, SearchAssumption
<1>3. index[p].name \in KnownNames
  BY <1>1, SearchAssumption DEF KnownNames
<1> QED BY <1>2, <1>3, SearchAssumption DEF Score, Branches

LEMMA FoundAre ==
    ASSUME ~Amiss
    PROVE  /\ Found \subseteq Paths /\ IsFiniteSet(Found)
           /\ \A p \in Found : /\ index[p] # NoRow
                               /\ \E b \in Kinds : p \in TextHits(b)
<1>1. Found \subseteq Paths /\ \A p \in Found : index[p] # NoRow
  BY DEF Found, TextHits, Filtered
<1>2. IsFiniteSet(Found)
  BY <1>1, SearchAssumption, FS_Subset
<1> QED BY <1>1, <1>2 DEF Found

\* A file has one or two scores, and its best is the greater.
LEMMA BestScore ==
    ASSUME IndexOK, ~Amiss, NEW p \in Found
    PROVE  /\ Scores(p) \subseteq Nat
           /\ Best(p).score \in Scores(p)
           /\ \A s \in Scores(p) : s <= Best(p).score
           /\ \A b \in Kinds : p \in TextHits(b) => Score(b, p) \in Scores(p)
           /\ \E b \in Kinds : p \in TextHits(b) /\ Best(p).score = Score(b, p)
<1>1. p \in Paths /\ index[p] # NoRow /\ \E b \in Kinds : p \in TextHits(b)
  BY FoundAre
<1>2. PICK c \in Branches, d \in Branches : Kinds \subseteq {c, d}
  BY KindsAre
<1>3. p \in Filtered(roots)
  BY <1>1 DEF TextHits
<1>4. \A b : p \in TextHits(b) <=> Selects(b, p)
  BY <1>3 DEF TextHits
<1>5. Scores(p) = {Score(b, p) : b \in {k \in Kinds : Selects(k, p)}}
  BY DEF Scores
<1>6. Scores(p) \subseteq {Score(c, p), Score(d, p)}
  BY <1>2, <1>5
<1>7. Score(c, p) \in Nat /\ Score(d, p) \in Nat
  BY <1>1, ScoresAreNat
<1>8. PICK b \in Kinds : Score(b, p) \in Scores(p)
  BY <1>1, <1>4, <1>5
<1>9. \E s \in Scores(p) : \A t \in Scores(p) : t <= s
  <2> DEFINE x == Score(c, p)
             y == Score(d, p)
             T == Scores(p)
  <2>1. T \subseteq {x, y} /\ x \in Nat /\ y \in Nat /\ T # {}
    BY <1>6, <1>7, <1>8
  <2> HIDE DEF x, y, T
  <2>2. \E s \in T : \A t \in T : t <= s
    <3>1. CASE x \in T /\ y \in T
      <4>1. CASE x <= y
        BY <2>1, <3>1, <4>1
      <4>2. CASE y <= x
        BY <2>1, <3>1, <4>2
      <4> QED BY <2>1, <4>1, <4>2
    <3>2. CASE y \notin T
      <4>1. T = {x}
        BY <2>1, <3>2
      <4> QED BY <2>1, <4>1
    <3>3. CASE x \notin T
      <4>1. T = {y}
        BY <2>1, <3>3
      <4> QED BY <2>1, <4>1
    <3> QED BY <3>1, <3>2, <3>3
  <2> QED BY <2>2 DEF T
<1>10. Best(p).score = CHOOSE s \in Scores(p) : \A t \in Scores(p) : t <= s
  BY DEF Best
<1>11. Best(p).score \in Scores(p) /\ \A s \in Scores(p) : s <= Best(p).score
  BY <1>9, <1>10
<1>12. \E k \in Kinds : p \in TextHits(k) /\ Best(p).score = Score(k, p)
  BY <1>4, <1>5, <1>11
<1> QED BY <1>4, <1>5, <1>6, <1>7, <1>11, <1>12

LEMMA BestsAreRankable ==
    ASSUME IndexOK, ~Amiss
    PROVE  /\ Rankable(Bests, AnswerOrder)
           /\ Cardinality(Bests) = Cardinality(Found)
           /\ \A p \in Found : /\ Best(p).path = p /\ Best(p).score \in Nat
                               /\ Best(p).name = index[p].name
                               /\ Best(p).size = index[p].size
<1>1. ASSUME NEW p \in Found
      PROVE  /\ p \in Nat /\ Best(p).path = p /\ Best(p).score \in Nat
             /\ Best(p).name = index[p].name /\ Best(p).size = index[p].size
             /\ Best(p).name \in KnownNames /\ Best(p).size \in Nat
             /\ Best(p).kind \in {"name", "content"}
  <2>1. Best(p).score \in Nat
    BY BestScore
  <2>2. p \in Paths /\ index[p] # NoRow
    BY FoundAre
  <2>3. index[p].name \in KnownNames /\ index[p].size \in Nat
    BY <2>2, ScoresAreNat DEF Branches
  <2>4. /\ Best(p).path = p /\ Best(p).name = index[p].name
        /\ Best(p).size = index[p].size /\ Best(p).kind \in {"name", "content"}
    BY DEF Best
  <2> QED BY <2>1, <2>2, <2>3, <2>4, SearchAssumption
<1> DEFINE f == [p \in Found |-> Best(p)]
<1>2. f \in [Found -> Bests] /\ \A b \in Bests : \E p \in Found : f[p] = b
  BY DEF Bests
<1>3. \A p, q \in Found : f[p] = f[q] => p = q
  <2>1. \A p \in Found : f[p].path = p
    BY <1>1
  <2> QED BY <2>1
<1> HIDE DEF f
<1>4. f \in Bijection(Found, Bests)
  BY <1>2, <1>3 DEF Bijection, Injection, IsInjective, Surjection
<1>5. IsFiniteSet(Bests) /\ Cardinality(Bests) = Cardinality(Found)
  BY <1>4, FoundAre, FS_Bijection DEF ExistsBijection
<1>6. Distinct(Bests)
  BY <1>1 DEF Distinct, Bests
<1>7. \A x \in Bests : Sortable(x, AnswerOrder)
  BY <1>1 DEF Sortable, Bests
<1> QED BY <1>1, <1>5, <1>6, <1>7 DEF Rankable

LEMMA AnswerIs ==
    ASSUME IndexOK, ~Amiss
    PROVE  /\ Answer \in Seq(Nat) /\ Len(Answer) = Cardinality(Found)
           /\ Len(Answer) \in Nat
           /\ \A i \in 1..Len(Answer) : Answer[i] = Ranked(Bests, AnswerOrder)[i].path
<1> DEFINE s == Ranked(Bests, AnswerOrder)
           n == Cardinality(Found)
<1>1. /\ s \in [1..n -> Bests] /\ Len(s) = n /\ n \in Nat
  BY BestsAreRankable, RankedSorts
<1>2. Answer = [i \in DOMAIN s |-> s[i].path]
  BY DEF Answer, Bests
<1> HIDE DEF s, n
<1>3. Answer = [i \in 1..n |-> s[i].path]
  BY <1>1, <1>2
<1>4. \A x \in Bests : x.path \in Nat
  <2>1. \A p \in Found : Best(p).path = p /\ p \in Nat
    BY BestsAreRankable, FoundAre, SearchAssumption
  <2> QED BY <2>1 DEF Bests
<1>5. \A i \in 1..n : s[i].path \in Nat
  BY <1>1, <1>4
<1>6. Answer \in [1..n -> Nat]
  BY <1>3, <1>5
<1>7. Answer \in Seq(Nat) /\ Len(Answer) = n
  BY <1>1, <1>6, SeqDef, LenProperties
<1> QED BY <1>1, <1>3, <1>7 DEF s, n


-----------------------------------------------------------------------------
(* Pages are cut from the answer.                                          *)

LEMMA BodyIsTextHits ==
    ASSUME scope = roots
    PROVE  \A b : Body(b) = TextHits(b)
BY DEF Body, TextHits

LEMMA HitIs ==
    ASSUME NEW b, NEW p
    PROVE  /\ Hit(b, p).path = p /\ Hit(b, p).score = Score(b, p)
           /\ Hit(b, p).name = index[p].name /\ Hit(b, p).size = index[p].size
BY DEF Hit

\* One branch: its order is that of the answer.
LEMMA OneBranchOrder ==
    ASSUME IndexOK, ~Amiss, NEW b \in Branches, Kinds = {b},
           NEW p \in Found, NEW q \in Found
    PROVE  Precedes(b, Hit(b, q), Hit(b, p))
             <=> Precedes(AnswerOrder, Best(q), Best(p))
<1>1. ASSUME NEW r \in Found
      PROVE  /\ Best(r).path = Hit(b, r).path /\ Best(r).name = Hit(b, r).name
             /\ Best(r).size = Hit(b, r).size /\ Best(r).score = Hit(b, r).score
  <2>1. Best(r).score = Score(b, r)
    BY BestScore
  <2> QED BY <2>1, HitIs, BestsAreRankable
<1>2. b # "merge" /\ AnswerOrder # "merge" /\ (b = "like" <=> AnswerOrder = "like")
  <2>1. Cardinality(Kinds) = 1
    BY FS_Singleton
  <2> QED BY <2>1 DEF AnswerOrder, Branches
<1>3. ByKey(NoCase, Hit(b, q), Hit(b, p)) <=> ByKey(NoCase, Best(q), Best(p))
  BY <1>1 DEF ByKey
<1> QED BY <1>1, <1>2, <1>3 DEF Precedes, InBranch

LEMMA OneBranchIsExact ==
    ASSUME IndexOK, ~Amiss, scope = roots, NEW b \in Branches, Kinds = {b},
           NEW from \in Nat, NEW n \in Nat
    PROVE  /\ Len(queryBranch(b, n, from)) = CutLen(Answer, from, n)
           /\ [i \in DOMAIN queryBranch(b, n, from) |->
                 queryBranch(b, n, from)[i].path] = Window(Answer, from, n)
<1> DEFINE S == HitsFor(b)
           r == Ranked(S, b)
<1>1. Body(b) = Found
  BY BodyIsTextHits DEF Found
<1>2. S = {Hit(b, p) : p \in Found}
  BY <1>1 DEF HitsFor
<1>3. /\ Rankable(S, b) /\ IsPage(r) /\ Len(r) = Cardinality(S)
      /\ Cardinality(S) = Cardinality(Found)
  BY <1>1, BranchHits, RankedIsPage
<1>4. /\ Rankable(Bests, AnswerOrder) /\ Cardinality(Bests) = Cardinality(Found)
      /\ Answer \in Seq(Nat) /\ Len(Answer) = Cardinality(Found)
      /\ \A i \in 1..Len(Answer) : Answer[i] = Ranked(Bests, AnswerOrder)[i].path
      /\ Cardinality(Found) \in Nat
  BY BestsAreRankable, AnswerIs
<1> HIDE DEF S
<1>5. ASSUME NEW y \in Bests
      PROVE  \E x \in S : x.path = y.path /\ Ahead(S, b, x) = Ahead(Bests, AnswerOrder, y)
  <2>1. PICK p \in Found : y = Best(p)
    BY DEF Bests
  <2>2. \A q \in Found : Hit(b, q).path = q /\ Best(q).path = q
    BY HitIs, BestsAreRankable
  <2>3. \A q \in Found : Precedes(b, Hit(b, q), Hit(b, p))
                           <=> Precedes(AnswerOrder, Best(q), Best(p))
    BY OneBranchOrder
  <2>4. Ahead(S, b, Hit(b, p)) = {q \in Found : Precedes(b, Hit(b, q), Hit(b, p))}
    BY <1>2, <2>2 DEF Ahead, Before
  <2>5. Ahead(Bests, AnswerOrder, y)
          = {q \in Found : Precedes(AnswerOrder, Best(q), Best(p))}
    BY <2>1, <2>2 DEF Ahead, Before, Bests
  <2> QED BY <1>2, <2>1, <2>2, <2>3, <2>4, <2>5
<1>6. \A i \in 1..Cardinality(Bests) : i <= from + n =>
        i <= Cardinality(S) /\ Ranked(S, b)[i].path = Ranked(Bests, AnswerOrder)[i].path
  BY <1>3, <1>4, <1>5, PrefixAgrees
<1> HIDE DEF r
<1>7. Len(r) <= Len(Answer) /\ r \in Seq(HitSet)
  BY <1>3, <1>4 DEF IsPage
<1>8. \A i \in 1..Len(Answer) : i <= from + n => i <= Len(r) /\ r[i].path = Answer[i]
  BY <1>3, <1>4, <1>6 DEF r
<1>9. queryBranch(b, n, from) = Window(r, from, n)
  BY DEF queryBranch, HitsFor, r, S
<1> QED BY <1>4, <1>7, <1>8, <1>9, PageAgrees

\* Two branches: what the merge finds of a file is never better than its best.
LEMMA MergedScores ==
    ASSUME IndexOK, ~Amiss, scope = roots,
           NEW nb \in {"fts", "like"}, Kinds = {nb, "content"},
           NEW a, NEW c, IsPage(a), IsPage(c),
           HitsOf(a) \subseteq HitsFor(nb), HitsOf(c) \subseteq HitsFor("content"),
           NEW m \in MergedSet(a, c)
    PROVE  /\ m.path \in Found /\ m.score \in Scores(m.path)
           /\ m.name = index[m.path].name /\ m.size = index[m.path].size
           /\ m \in HitSet /\ m.kind \in {"name", "content"}
           /\ m.kind = "name" => m.path \in TextHits(nb)
<1>0. m \in HitSet /\ m.kind \in {"name", "content"}
  <2>1. m \in HitSet
    BY MergedHits
  <2> QED BY <2>1 DEF HitSet
<1>1. ASSUME NEW b \in Kinds, NEW h \in HitsFor(b)
      PROVE  /\ h.path \in Found /\ h.score \in Scores(h.path)
             /\ h.name = index[h.path].name /\ h.size = index[h.path].size
             /\ h.path \in TextHits(b) /\ (h.kind = "content" <=> b = "content")
  <2>1. PICK p \in Body(b) : h = Hit(b, p)
    BY DEF HitsFor
  <2>2. p \in TextHits(b) /\ p \in Found
    BY <2>1, BodyIsTextHits DEF Found
  <2>3. Score(b, p) \in Scores(p)
    BY <2>2, BestScore
  <2>4. h.kind = "content" <=> b = "content"
    BY <2>1 DEF Hit
  <2> QED BY <2>1, <2>2, <2>3, <2>4, HitIs
<1>2. CASE m \in HitsOf(c)
  <2>1. m \in HitsFor("content") /\ "content" \in Kinds
    BY <1>2
  <2> QED BY <1>0, <1>1, <2>1
<1>3. CASE m \notin HitsOf(c)
  <2>1. PICK h \in HitsOf(a) : m = Boosted(h, HitsOf(c))
    BY <1>3 DEF MergedSet
  <2>2. h \in HitSet /\ HitsOf(c) \subseteq HitSet
    BY HitsOfPage
  <2>3. /\ m.path = h.path /\ m.name = h.name /\ m.size = h.size /\ m.kind = h.kind
        /\ \/ m.score = h.score
           \/ \E o \in HitsOf(c) : o.path = h.path /\ m.score = o.score
    BY <2>1, <2>2, BoostedHit
  <2>4. /\ h.path \in Found /\ h.score \in Scores(h.path)
        /\ h.name = index[h.path].name /\ h.size = index[h.path].size
        /\ h.path \in TextHits(nb)
    BY <1>1
  <2>5. \A o \in HitsOf(c) : o.score \in Scores(o.path)
    BY <1>1
  <2> QED BY <1>0, <2>3, <2>4, <2>5
<1> QED BY <1>0, <1>2, <1>3


\* Two branches are put together in the order of the merge.
LEMMA TwoKinds ==
    ASSUME ~Amiss, NEW nb \in {"fts", "like"}, Kinds = {nb, "content"}
    PROVE  /\ Cardinality(Kinds) = 2 /\ AnswerOrder = "merge" /\ nb = NameKind
           /\ \A p : /\ p \in TextHits(nb) => Best(p).kind = "name"
                     /\ p \in Found /\ p \notin TextHits(nb) => Best(p).kind = "content"
<1>1. Cardinality(Kinds) = 2
  <2>1. IsFiniteSet({nb}) /\ Cardinality({nb}) = 1
    BY FS_Singleton
  <2>2. Kinds = {nb} \union {"content"} /\ "content" \notin {nb}
    OBVIOUS
  <2> QED BY <2>1, <2>2, FS_AddElement
<1>2. nb = NameKind
  <2>1. query.text
    BY KindsAre
  <2> QED BY <2>1, KindsAre
<1>3. Kinds \ {"content"} = {nb}
  OBVIOUS
<1>4. \A p : Best(p).kind = IF Selects(nb, p) THEN "name" ELSE "content"
  BY <1>3 DEF Best
<1>5. \A p \in TextHits(nb) : Selects(nb, p)
  BY DEF TextHits
<1>6. \A p \in Found : p \in TextHits(nb) <=> Selects(nb, p)
  BY DEF Found, TextHits
<1> QED BY <1>1, <1>2, <1>4, <1>5, <1>6 DEF AnswerOrder

\* Two files with the same best score are ranked by their names, if they are
\* found by them.
LEMMA TiesAreNotLifted ==
    ASSUME ~Amiss, OneOrder, sortKey = "relevance",
           NEW nb \in {"fts", "like"}, Kinds = {nb, "content"},
           NEW p \in Found, NEW q \in Found, p # q,
           Best(p).score = Best(q).score
    PROVE  ~Lifted(p) /\ ~Lifted(q)
BY TwoKinds DEF OneOrder

\* Who precedes in the merge precedes in the answer, and the other way round
\* if its score is its best.
LEMMA MergeOrder ==
    ASSUME IndexOK, ~Amiss, OneOrder,
           NEW nb \in {"fts", "like"}, Kinds = {nb, "content"},
           NEW p \in Found, NEW q \in Found, p # q,
           NEW x, x.path = q, x.score \in Scores(q),
           x.name = index[q].name, x.size = index[q].size,
           x.kind \in {"name", "content"}, x.kind = "name" => q \in TextHits(nb),
           NEW y, y.path = p, y.score = Best(p).score,
           y.name = index[p].name, y.size = index[p].size,
           y.kind = Best(p).kind \/ Lifted(p)
    PROVE  /\ InMerge(x, y) => InMerge(Best(q), Best(p))
           /\ x.score = Best(q).score /\ (x.kind = Best(q).kind \/ Lifted(q))
                /\ InMerge(Best(q), Best(p)) => InMerge(x, y)
<1>1. /\ Best(p).path = p /\ Best(p).name = index[p].name /\ Best(p).size = index[p].size
      /\ Best(q).path = q /\ Best(q).name = index[q].name /\ Best(q).size = index[q].size
      /\ Best(p).score \in Nat /\ Best(q).score \in Nat
      /\ x.score <= Best(q).score /\ x.score \in Nat
  BY BestScore, BestsAreRankable
<1>2. x.kind = "name" => Best(q).kind = "name"
  BY TwoKinds
<1>3. Best(p).kind \in {"name", "content"} /\ Best(q).kind \in {"name", "content"}
  BY DEF Best
<1>4. CASE sortKey = "relevance"
  <2>1. Best(q).score = Best(p).score => ~Lifted(p) /\ ~Lifted(q)
    BY <1>4, TiesAreNotLifted
  <2>2. CASE Best(q).score > Best(p).score
    BY <1>1, <1>4, <2>2 DEF InMerge
  <2>3. CASE Best(q).score < Best(p).score
    BY <1>1, <1>4, <2>3 DEF InMerge
  <2>4. CASE Best(q).score = Best(p).score
    <3>1. y.kind = Best(p).kind /\ (x.kind = Best(q).kind \/ Lifted(q)
                                      <=> x.kind = Best(q).kind)
      BY <2>1, <2>4
    <3>2. InMerge(x, y) => x.score = Best(q).score
      BY <1>1, <1>4, <2>4 DEF InMerge
    <3> QED BY <1>1, <1>2, <1>3, <1>4, <2>4, <3>1, <3>2 DEF InMerge
  <2> QED BY <1>1, <2>2, <2>3, <2>4
<1>5. CASE sortKey # "relevance"
  <2>1. ByKey(Lower, x, y) <=> ByKey(Lower, Best(q), Best(p))
    BY <1>1 DEF ByKey
  <2> QED BY <1>5, <2>1 DEF InMerge
<1> QED BY <1>4, <1>5

\* The branch that a file owes its best score to: its name, unless the text is
\* better.
LEMMA BestKind ==
    ASSUME IndexOK, ~Amiss,
           NEW nb \in {"fts", "like"}, Kinds = {nb, "content"}, NEW p \in Found
    PROVE  \E b \in Kinds : /\ p \in TextHits(b) /\ Best(p).score = Score(b, p)
                            /\ b = "content" => p \notin TextHits(nb) \/ Lifted(p)
<1>1. PICK b \in Kinds : p \in TextHits(b) /\ Best(p).score = Score(b, p)
  BY BestScore
<1>2. CASE p \in TextHits(nb) /\ Best(p).score = Score(nb, p)
  BY <1>2
<1>3. CASE p \in TextHits(nb) /\ Best(p).score # Score(nb, p)
  <2>1. b = "content" /\ p \in TextHits("content")
    BY <1>1, <1>3
  <2>2. Score(nb, p) \in Scores(p) /\ Score(nb, p) <= Best(p).score
        /\ Scores(p) \subseteq Nat /\ Best(p).score \in Scores(p)
    BY <1>3, BestScore
  <2>3. Score("content", p) > Score(nb, p)
    BY <1>1, <1>3, <2>1, <2>2
  <2>4. Lifted(p)
    BY <1>3, <2>1, <2>3, TwoKinds DEF Lifted
  <2> QED BY <1>1, <2>1, <2>4
<1>4. CASE p \notin TextHits(nb)
  BY <1>1, <1>4
<1> QED BY <1>2, <1>3, <1>4

\* In the branch that gives a file its best score, no more files are ahead of
\* it than in the answer.
LEMMA BranchOrder ==
    ASSUME IndexOK, ~Amiss, OneOrder, scope = roots,
           NEW nb \in {"fts", "like"}, Kinds = {nb, "content"},
           NEW b \in Kinds, NEW p \in Body(b), NEW q \in Body(b), p # q,
           Best(p).score = Score(b, p), Precedes(b, Hit(b, q), Hit(b, p)),
           b = "content" => p \notin TextHits(nb) \/ Lifted(p)
    PROVE  InMerge(Best(q), Best(p))
<1>1. b # "merge" /\ nb = NameKind /\ Cardinality(Kinds) = 2
  BY TwoKinds
<1>2. p \in TextHits(b) /\ q \in TextHits(b) /\ p \in Found /\ q \in Found
  BY BodyIsTextHits DEF Found
<1>3. /\ Best(p).path = p /\ Best(p).name = index[p].name /\ Best(p).size = index[p].size
      /\ Best(q).path = q /\ Best(q).name = index[q].name /\ Best(q).size = index[q].size
      /\ Score(b, q) <= Best(q).score /\ Best(q).score \in Nat
      /\ Score(b, p) \in Nat /\ Score(b, q) \in Nat
      /\ index[p].name \in KnownNames /\ index[q].name \in KnownNames
      /\ p \in Nat /\ q \in Nat
  <2>1. p \in Paths /\ index[p] # NoRow /\ q \in Paths /\ index[q] # NoRow
    BY <1>2, FoundAre
  <2>2. index[p].name \in KnownNames /\ index[q].name \in KnownNames /\ p \in Nat /\ q \in Nat
    BY <2>1, ScoresAreNat, SearchAssumption DEF Branches
  <2>3. Score(b, p) \in Scores(p) /\ Scores(p) \subseteq Nat
        /\ Score(b, q) \in Scores(q) /\ Scores(q) \subseteq Nat
    BY <1>2, BestScore
  <2> QED BY <1>2, <2>2, <2>3, BestScore, BestsAreRankable
<1>4. InBranch(b, Hit(b, q), Hit(b, p))
  BY <1>1 DEF Precedes
<1>5. CASE sortKey = "relevance"
  <2>1. CASE Best(q).score > Best(p).score
    BY <1>5, <2>1 DEF InMerge
  <2>2. CASE ~(Best(q).score > Best(p).score)
    <3>1. Score(b, q) <= Score(b, p)
      BY <1>3, <2>2
    <3>2. CASE b = "like"
      <4>1. \/ index[q].name < index[p].name
            \/ index[q].name = index[p].name /\ q < p
        BY <1>4, <1>5, <3>2, HitIs DEF InBranch
      <4>2. q < p
        BY <1>1, <1>2, <1>5, <3>2, <4>1 DEF OneOrder
      <4>3. Best(p).score = Best(q).score
        BY <1>3, <2>2, <3>2 DEF Score
      <4>4. Best(p).kind = "name" /\ Best(q).kind = "name"
        BY <1>2, <3>2, TwoKinds
      <4> QED BY <1>3, <1>5, <4>2, <4>3, <4>4 DEF InMerge
    <3>3. CASE b # "like"
      <4>1. Score(b, q) = Score(b, p) /\ q < p
        BY <1>3, <1>4, <1>5, <3>1, <3>3, HitIs DEF InBranch
      <4>2. Best(p).score = Best(q).score
        BY <1>3, <2>2, <4>1
      <4>3. ~Lifted(p)
        BY <1>2, <1>5, <4>2, TiesAreNotLifted
      <4>4. CASE b = "content"
        <5>1. Best(p).kind = "content" /\ Best(q).kind \in {"name", "content"}
          <6>1. Best(p).kind = "content"
            BY <1>2, <4>3, <4>4, TwoKinds
          <6> QED BY <6>1 DEF Best
        <5> QED BY <1>3, <1>5, <4>1, <4>2, <5>1 DEF InMerge
      <4>5. CASE b # "content"
        <5>1. Best(p).kind = "name" /\ Best(q).kind = "name"
          BY <1>2, <4>5, TwoKinds
        <5> QED BY <1>3, <1>5, <4>1, <4>2, <5>1 DEF InMerge
      <4> QED BY <4>4, <4>5
    <3> QED BY <3>2, <3>3
  <2> QED BY <2>1, <2>2
<1>6. CASE sortKey # "relevance"
  <2>1. sortKey \in {"name", "size"}
    BY <1>6 DEF Amiss, SortKeys, sortKey
  <2>2. ByKey(NoCase, Hit(b, q), Hit(b, p))
    BY <1>4, <1>6 DEF InBranch
  <2>3. ByKey(Lower, Best(q), Best(p))
    <3>1. CASE sortKey = "size"
      BY <1>3, <2>2, <3>1, HitIs DEF ByKey
    <3>2. CASE sortKey = "name"
      <4>1. /\ NoCase[index[q].name] < NoCase[index[p].name]
                 <=> Lower[index[q].name] < Lower[index[p].name]
            /\ NoCase[index[p].name] < NoCase[index[q].name]
                 <=> Lower[index[p].name] < Lower[index[q].name]
        BY <1>1, <1>2, <3>2 DEF OneOrder
      <4>2. /\ NoCase[index[p].name] \in Nat /\ Lower[index[p].name] \in Nat
            /\ NoCase[index[q].name] \in Nat /\ Lower[index[q].name] \in Nat
        BY <1>3 DEF KnownNames
      <4> QED BY <1>3, <2>2, <3>2, <4>1, <4>2, HitIs DEF ByKey
    <3> QED BY <2>1, <3>1, <3>2
  <2> QED BY <1>6, <2>3 DEF InMerge
<1> QED BY <1>5, <1>6

\* What is among the first n of a branch is fetched with a limit of n.
LEMMA TopOfBranch ==
    ASSUME IndexOK, NEW b \in Branches, NEW n \in Nat, NEW h \in HitsFor(b),
           Rank(HitsFor(b), b, h) < n
    PROVE  h \in HitsOf(queryBranch(b, n, 0))
<1> DEFINE S == HitsFor(b)
           r == Ranked(S, b)
           i == Rank(S, b, h) + 1
<1>1. Rankable(S, b)
  BY BranchHits, RankedIsPage
<1>2. r \in Seq(S) /\ Len(r) \in Nat /\ i \in 1..Len(r) /\ r[i] = h
  BY <1>1, RankedSorts
<1>3. i <= n
  <2>1. Rank(S, b, h) \in 0..(Cardinality(S) - 1) /\ Cardinality(S) \in Nat
    BY <1>1, RanksAreTaken
  <2> QED BY <2>1
<1> HIDE DEF r, i, S
<1>4. i <= CutLen(r, 0, n)
  BY <1>2, <1>3 DEF CutLen
<1>5. /\ Window(r, 0, n) \in Seq(S) /\ Len(Window(r, 0, n)) = CutLen(r, 0, n)
      /\ CutLen(r, 0, n) \in Nat
  <2>1. r \in Seq(S) /\ 0 \in Nat
    BY <1>2
  <2> QED BY <2>1, WindowCuts
<1>6. i \in 1..CutLen(r, 0, n)
  BY <1>2, <1>4, <1>5
<1>7. Window(r, 0, n)[i] = h
  <2>1. Window(r, 0, n)[i] = r[0 + i]
    <3>1. r \in Seq(S) /\ 0 \in Nat
      BY <1>2
    <3> QED BY <3>1, <1>6, WindowCuts
  <2>2. 0 + i = i
    BY <1>6, <1>5
  <2> QED BY <1>2, <2>1, <2>2
<1>8. i \in DOMAIN Window(r, 0, n)
  BY <1>5, <1>6, LenProperties
<1>9. queryBranch(b, n, 0) = Window(r, 0, n)
  BY DEF queryBranch, HitsFor, r, S
<1> QED BY <1>7, <1>8, <1>9 DEF HitsOf

\* What both branches are asked for holds the best hit of every file that the
\* page may need, offset + limit of the answer.
LEMMA TopIsFetched ==
    ASSUME IndexOK, ~Amiss, OneOrder, scope = roots, NEW n \in Nat,
           NEW nb \in {"fts", "like"}, Kinds = {nb, "content"},
           NEW p \in Found, Rank(Bests, AnswerOrder, Best(p)) < n
    PROVE  \E b \in Kinds : /\ Best(p).score = Score(b, p) /\ p \in Body(b)
                            /\ Hit(b, p) \in HitsOf(queryBranch(b, n, 0))
                            /\ b = "content" => p \notin TextHits(nb) \/ Lifted(p)
<1>1. PICK b \in Kinds : /\ p \in TextHits(b) /\ Best(p).score = Score(b, p)
                         /\ b = "content" => p \notin TextHits(nb) \/ Lifted(p)
  BY BestKind
<1>2. p \in Body(b) /\ b \in Branches
  BY <1>1, BodyIsTextHits DEF Branches
<1> DEFINE h == Hit(b, p)
           S == HitsFor(b)
<1>3. h \in S /\ h.path = p
  BY <1>2, HitIs DEF HitsFor
<1>4. Rankable(S, b) /\ Rankable(Bests, AnswerOrder) /\ Best(p) \in Bests
      /\ Best(p).path = p
  BY <1>2, BranchHits, RankedIsPage, BestsAreRankable DEF Bests
<1>5. Ahead(S, b, h) \subseteq Ahead(Bests, AnswerOrder, Best(p))
  <2> SUFFICES ASSUME NEW g \in Before(S, b, h)
               PROVE  g.path \in Ahead(Bests, AnswerOrder, Best(p))
    BY DEF Ahead
  <2>1. PICK q \in Body(b) : g = Hit(b, q)
    BY DEF Before, HitsFor
  <2>2. Precedes(b, Hit(b, q), Hit(b, p))
    BY <2>1 DEF Before
  <2>3. q # p
    <3>1. Sortable(h, b)
      BY <1>3, <1>4 DEF Rankable
    <3> QED BY <2>2, <3>1, PrecedesIsIrreflexive
  <2>4. Precedes(AnswerOrder, Best(q), Best(p))
    <3>1. InMerge(Best(q), Best(p))
      BY <1>1, <1>2, <2>2, <2>3, BranchOrder
    <3> QED BY <3>1, TwoKinds DEF Precedes
  <2>5. q \in Found /\ Best(q).path = q /\ g.path = q
    <3>1. q \in Found
      BY BodyIsTextHits DEF Found
    <3> QED BY <2>1, <3>1, HitIs, BestsAreRankable
  <2>6. Best(q) \in Before(Bests, AnswerOrder, Best(p))
    BY <2>4, <2>5 DEF Before, Bests
  <2> QED BY <2>5, <2>6 DEF Ahead
<1>6. IsFiniteSet(Ahead(Bests, AnswerOrder, Best(p)))
  <2>1. Ahead(Bests, AnswerOrder, Best(p)) \subseteq Found
    <3>1. \A q \in Found : Best(q).path = q
      BY BestsAreRankable
    <3> QED BY <3>1 DEF Ahead, Before, Bests
  <2> QED BY <2>1, FoundAre, FS_Subset
<1>7. Rank(S, b, h) <= Rank(Bests, AnswerOrder, Best(p))
  <2>1. Cardinality(Ahead(S, b, h)) <= Cardinality(Ahead(Bests, AnswerOrder, Best(p)))
    BY <1>5, <1>6, FS_Subset
  <2> HIDE DEF h, S
  <2> QED BY <1>3, <1>4, <2>1, AheadCounts
<1>8. Rank(S, b, h) \in Nat /\ Rank(Bests, AnswerOrder, Best(p)) \in Nat
  BY <1>3, <1>4, RanksAreTaken
<1>9. Rank(S, b, h) < n
  BY <1>7, <1>8
<1> QED BY <1>1, <1>2, <1>3, <1>9, TopOfBranch


LEMMA FetchedHits ==
    ASSUME IndexOK, NEW b \in Branches, NEW n \in Nat, NEW from \in Nat
    PROVE  HitsOf(queryBranch(b, n, from)) \subseteq HitsFor(b)
<1> DEFINE r == Ranked(HitsFor(b), b)
<1>1. IsPage(r) /\ HitsOf(r) = HitsFor(b)
  BY BranchHits, RankedIsPage
<1>2. queryBranch(b, n, from) = Window(r, from, n)
  BY DEF queryBranch, HitsFor
<1> HIDE DEF r
<1> QED BY <1>1, <1>2, WindowOfPage

\* The merge has the best score of each of the first files of the answer.
LEMMA TopIsMerged ==
    ASSUME IndexOK, ~Amiss, OneOrder, scope = roots, NEW n \in Nat,
           NEW nb \in {"fts", "like"}, Kinds = {nb, "content"},
           NEW p \in Found, Rank(Bests, AnswerOrder, Best(p)) < n
    PROVE  \E m \in MergedSet(queryBranch(nb, n, 0), queryBranch("content", n, 0)) :
             /\ m.path = p /\ m.score = Best(p).score
             /\ m.kind = Best(p).kind \/ Lifted(p)
<1> DEFINE a == queryBranch(nb, n, 0)
           c == queryBranch("content", n, 0)
<1>1. PICK b \in Kinds : /\ Best(p).score = Score(b, p) /\ p \in Body(b)
                         /\ Hit(b, p) \in HitsOf(queryBranch(b, n, 0))
                         /\ b = "content" => p \notin TextHits(nb) \/ Lifted(p)
  BY TopIsFetched
<1> DEFINE h == Hit(b, p)
<1>2. h.path = p /\ h.score = Best(p).score /\ (b = "content" => h.kind = "content")
  BY <1>1, HitIs DEF Hit
<1>3. /\ IsPage(a) /\ IsPage(c)
      /\ HitsOf(a) \subseteq HitsFor(nb) /\ HitsOf(c) \subseteq HitsFor("content")
  <2>1. nb \in Branches /\ "content" \in Branches /\ 0 \in Nat
    BY DEF Branches
  <2> QED BY <2>1, BranchPage, FetchedHits
<1>4. /\ HitsOf(a) \subseteq HitSet /\ HitsOf(c) \subseteq HitSet
      /\ Distinct(HitsOf(a)) /\ Distinct(HitsOf(c))
  BY <1>3, HitsOfPage
<1>5. (b = nb /\ h \in HitsOf(a)) \/ (b = "content" /\ h \in HitsOf(c))
  BY <1>1
<1>10. \A g \in HitsOf(a) : g.path = p => g.kind = "name" /\ Best(p).kind = "name"
  <2>1. \A g \in HitsFor(nb) : g.kind = "name" /\ g.path \in TextHits(nb)
    BY BodyIsTextHits, HitIs DEF HitsFor, Hit
  <2> QED BY <1>3, <2>1, TwoKinds
<1>11. b = "content" => Best(p).kind = "content" \/ Lifted(p)
  BY <1>1, TwoKinds
<1> HIDE DEF a, c, h
<1>6. ASSUME NEW m \in MergedSet(a, c), m.path = p
      PROVE  m.score \in Nat /\ m.score <= Best(p).score /\ Best(p).score \in Nat
  <2>1. m.score \in Scores(p)
    BY <1>3, <1>6, MergedScores
  <2> QED BY <2>1, BestScore
<1>7. ASSUME NEW g \in HitsOf(a), g.path = p,
             g = h \/ h \in HitsOf(c)
      PROVE  \E m \in MergedSet(a, c) : /\ m.path = p /\ m.score = Best(p).score
                                        /\ m.kind = Best(p).kind
  <2> DEFINE m == Boosted(g, HitsOf(c))
  <2>1. m \in MergedSet(a, c)
    BY DEF MergedSet
  <2>2. /\ m.path = p /\ m.kind = g.kind
        /\ \/ /\ m.score = g.score
              /\ \A o \in HitsOf(c) : o.path = p => o.score <= g.score
           \/ \E o \in HitsOf(c) : /\ o.path = p /\ o.score > g.score
                                   /\ m.score = o.score
    BY <1>4, <1>7, BoostedHit
  <2> HIDE DEF m
  <2>3. m.score \in Nat /\ m.score <= Best(p).score /\ Best(p).score \in Nat
    BY <1>6, <2>1, <2>2
  <2>4. g.score \in Nat
    BY <1>4 DEF HitSet
  <2>5. m.score >= Best(p).score
    <3>1. CASE g = h
      BY <1>2, <1>4, <2>2, <2>3, <2>4, <3>1 DEF HitSet
    <3>2. CASE h \in HitsOf(c)
      BY <1>2, <1>4, <2>2, <2>3, <2>4, <3>2 DEF Distinct
    <3> QED BY <1>7, <3>1, <3>2
  <2>6. m.score = Best(p).score
    BY <2>3, <2>5
  <2> QED BY <1>7, <1>10, <2>1, <2>2, <2>6
<1>8. CASE p \in PathsOf(a)
  <2>1. PICK g \in HitsOf(a) : g.path = p
    BY <1>8 DEF PathsOf
  <2>2. g = h \/ h \in HitsOf(c)
    BY <1>2, <1>4, <1>5, <2>1 DEF Distinct
  <2> QED BY <1>7, <2>1, <2>2 DEF a, c
<1>9. CASE p \notin PathsOf(a)
  <2>1. h \in HitsOf(c) /\ b = "content"
    BY <1>2, <1>5, <1>9 DEF PathsOf
  <2>2. h \in MergedSet(a, c)
    BY <1>2, <1>9, <2>1 DEF MergedSet
  <2> QED BY <1>2, <1>11, <2>1, <2>2 DEF a, c
<1> QED BY <1>8, <1>9

LEMMA TwoBranchesAreExact ==
    ASSUME IndexOK, ~Amiss, OneOrder, scope = roots,
           NEW nb \in {"fts", "like"}, Kinds = {nb, "content"},
           NEW from \in Nat, NEW n \in Nat, NEW d \in Nat, from + n <= d
    PROVE  LET r == mergeHitsBy(queryBranch(nb, d, 0), queryBranch("content", d, 0))
           IN  /\ Len(Window(r, from, n)) = CutLen(Answer, from, n)
               /\ [i \in DOMAIN Window(r, from, n) |-> Window(r, from, n)[i].path]
                    = Window(Answer, from, n)
<1> DEFINE a == queryBranch(nb, d, 0)
           c == queryBranch("content", d, 0)
           S == MergedSet(a, c)
           r == mergeHitsBy(a, c)
           K == from + n
<1>1. /\ IsPage(a) /\ IsPage(c)
      /\ HitsOf(a) \subseteq HitsFor(nb) /\ HitsOf(c) \subseteq HitsFor("content")
  <2>1. nb \in Branches /\ "content" \in Branches /\ 0 \in Nat
    BY DEF Branches
  <2> QED BY <2>1, BranchPage, FetchedHits
<1>2. /\ Rankable(Bests, AnswerOrder) /\ Cardinality(Bests) = Cardinality(Found)
      /\ Answer \in Seq(Nat) /\ Len(Answer) = Cardinality(Found)
      /\ \A i \in 1..Len(Answer) : Answer[i] = Ranked(Bests, AnswerOrder)[i].path
      /\ Cardinality(Found) \in Nat
      /\ \A p \in Found : Best(p).path = p
  BY BestsAreRankable, AnswerIs
<1>3. \A p \in Found : Rank(Bests, AnswerOrder, Best(p)) < K =>
        \E m \in S : /\ m.path = p /\ m.score = Best(p).score
                     /\ m.kind = Best(p).kind \/ Lifted(p)
  <2> SUFFICES ASSUME NEW p \in Found, Rank(Bests, AnswerOrder, Best(p)) < K
               PROVE  \E m \in S : /\ m.path = p /\ m.score = Best(p).score
                                   /\ m.kind = Best(p).kind \/ Lifted(p)
    OBVIOUS
  <2>1. Rank(Bests, AnswerOrder, Best(p)) \in Nat
    BY <1>2, RanksAreTaken DEF Bests
  <2>2. Rank(Bests, AnswerOrder, Best(p)) < d
    BY <2>1
  <2> QED BY <2>2, TopIsMerged
<1> HIDE DEF a, c
<1>4. /\ IsPage(r) /\ r = Ranked(S, "merge") /\ Rankable(S, "merge")
      /\ PathsOf(r) = PathsOf(a) \union PathsOf(c)
  BY <1>1, MergedPage
<1>5. ASSUME NEW m \in S
      PROVE  /\ m.path \in Found /\ m.score \in Scores(m.path)
             /\ m.name = index[m.path].name /\ m.size = index[m.path].size
             /\ m.kind \in {"name", "content"}
             /\ m.kind = "name" => m.path \in TextHits(nb)
  BY <1>1, MergedScores
<1>6. Len(r) <= Len(Answer) /\ r \in Seq(HitSet)
  <2>1. PathsOf(r) \subseteq Found
    <3>1. {h.path : h \in S} = PathsOf(a) \union PathsOf(c)
      BY <1>1, MergedHits
    <3> HIDE DEF S, r
    <3> QED BY <1>4, <1>5, <3>1
  <2>2. Cardinality(PathsOf(r)) <= Cardinality(Found)
    BY <2>1, FoundAre, FS_Subset
  <2> HIDE DEF r
  <2>3. Cardinality(PathsOf(r)) = Len(r)
    BY <1>4, PathsOfPage
  <2> QED BY <1>2, <1>4, <2>2, <2>3 DEF IsPage
<1> HIDE DEF S, r
<1>7. ASSUME NEW y \in Bests, Rank(Bests, AnswerOrder, y) < K
      PROVE  \E x \in S : /\ x.path = y.path
                          /\ Ahead(S, "merge", x) = Ahead(Bests, AnswerOrder, y)
  <2>1. PICK p \in Found : y = Best(p)
    BY DEF Bests
  <2>2. PICK x \in S : /\ x.path = p /\ x.score = Best(p).score
                       /\ x.kind = Best(p).kind \/ Lifted(p)
    BY <1>3, <1>7, <2>1
  <2>3. x.path = y.path
    BY <1>2, <2>1, <2>2
  <2>4. ASSUME NEW q \in Ahead(S, "merge", x) PROVE q \in Ahead(Bests, AnswerOrder, y)
    <3>1. PICK z \in S : z.path = q /\ Precedes("merge", z, x)
      BY <2>4 DEF Ahead, Before
    <3>2. z # x
      <4>1. Sortable(x, "merge")
        BY <1>4 DEF Rankable
      <4> QED BY <3>1, <4>1, PrecedesIsIrreflexive
    <3>3. q # p /\ q \in Found
      BY <1>4, <1>5, <2>2, <3>1, <3>2 DEF Rankable, Distinct
    <3>4. InMerge(z, x)
      BY <3>1 DEF Precedes
    <3>5. InMerge(Best(q), Best(p))
      BY <1>5, <2>2, <3>1, <3>3, <3>4, MergeOrder
    <3>6. Precedes(AnswerOrder, Best(q), Best(p))
      BY <3>5, TwoKinds DEF Precedes
    <3> QED BY <1>2, <2>1, <3>3, <3>6 DEF Ahead, Before, Bests
  <2>5. ASSUME NEW q \in Ahead(Bests, AnswerOrder, y) PROVE q \in Ahead(S, "merge", x)
    <3>1. q \in Found /\ Precedes(AnswerOrder, Best(q), Best(p))
      BY <1>2, <2>1, <2>5 DEF Ahead, Before, Bests
    <3>2. Best(q) \in Bests /\ Best(p) \in Bests
      BY <3>1 DEF Bests
    <3>3. Rank(Bests, AnswerOrder, Best(q)) < Rank(Bests, AnswerOrder, Best(p))
      BY <1>2, <3>1, <3>2, RankGrows
    <3>4. Rank(Bests, AnswerOrder, Best(q)) \in Nat /\ Rank(Bests, AnswerOrder, Best(p)) \in Nat
      BY <1>2, <3>2, RanksAreTaken
    <3>5. Rank(Bests, AnswerOrder, Best(q)) < K
      BY <1>7, <2>1, <3>3, <3>4
    <3>6. PICK z \in S : /\ z.path = q /\ z.score = Best(q).score
                         /\ z.kind = Best(q).kind \/ Lifted(q)
      BY <1>3, <3>1, <3>5
    <3>7. q # p
      <4>1. Sortable(Best(p), AnswerOrder)
        BY <1>2, <3>2 DEF Rankable
      <4> QED BY <3>1, <4>1, PrecedesIsIrreflexive
    <3>8. InMerge(z, x)
      <4>1. InMerge(Best(q), Best(p))
        BY <3>1, TwoKinds DEF Precedes
      <4> QED BY <1>5, <2>2, <3>1, <3>6, <3>7, <4>1, MergeOrder
    <3>9. z \in Before(S, "merge", x)
      BY <3>8 DEF Before, Precedes
    <3> QED BY <3>6, <3>9 DEF Ahead
  <2>6. Ahead(S, "merge", x) = Ahead(Bests, AnswerOrder, y)
    BY <2>4, <2>5
  <2> QED BY <2>3, <2>6
<1>8. K \in Nat
  OBVIOUS
<1>9. \A i \in 1..Cardinality(Bests) : i <= K =>
        i <= Cardinality(S) /\ Ranked(S, "merge")[i].path = Ranked(Bests, AnswerOrder)[i].path
  <2> HIDE DEF K
  <2> QED BY <1>2, <1>4, <1>7, <1>8, PrefixAgrees
<1>10. Len(r) = Cardinality(S)
  BY <1>4, RankedSorts
<1>11. \A i \in 1..Len(Answer) : i <= from + n => i <= Len(r) /\ r[i].path = Answer[i]
  BY <1>2, <1>4, <1>9, <1>10
<1> QED BY <1>2, <1>6, <1>11, PageAgrees DEF r, a, c


\* However the files are ordered, a page of the merge is full.
LEMMA BranchFills ==
    ASSUME IndexOK, NEW b \in Branches, NEW n \in Nat
    PROVE  \/ Len(queryBranch(b, n, 0)) = n
           \/ PathsOf(queryBranch(b, n, 0)) = Body(b)
<1> DEFINE r == Ranked(HitsFor(b), b)
           w == queryBranch(b, n, 0)
<1>1. IsPage(r) /\ Len(r) = Cardinality(Body(b)) /\ Len(r) \in Nat
  <2>1. IsPage(r) /\ Len(r) = Cardinality(HitsFor(b))
    BY BranchHits, RankedIsPage
  <2> HIDE DEF r
  <2> QED BY <2>1, BranchHits, PathsOfPage
<1>2. w = Window(r, 0, n)
  BY DEF queryBranch, HitsFor
<1> HIDE DEF r
<1>3. Len(w) = CutLen(r, 0, n)
  <2>1. r \in Seq(HitSet) /\ 0 \in Nat
    BY <1>1 DEF IsPage
  <2> QED BY <1>2, <2>1, WindowCuts
<1>4. IsPage(w) /\ PathsOf(w) \subseteq Body(b)
  BY BranchPage
<1> HIDE DEF w
<1>5. Cardinality(PathsOf(w)) = Len(w) /\ IsFiniteSet(Body(b))
  BY <1>4, PathsOfPage, BranchHits
<1>6. Len(w) = n \/ Len(w) = Cardinality(Body(b))
  BY <1>1, <1>3 DEF CutLen
<1>7. Cardinality(PathsOf(w)) = Cardinality(Body(b)) => PathsOf(w) = Body(b)
  BY <1>4, <1>5, FS_Subset
<1> QED BY <1>5, <1>6, <1>7 DEF w

LEMMA MergeFills ==
    ASSUME IndexOK, ~Amiss, scope = roots,
           NEW nb \in {"fts", "like"}, Kinds = {nb, "content"},
           NEW from \in Nat, NEW n \in Nat, NEW d \in Nat, from + n <= d
    PROVE  LET r == mergeHitsBy(queryBranch(nb, d, 0), queryBranch("content", d, 0))
           IN  Len(Window(r, from, n)) = CutLen(Answer, from, n)
<1> DEFINE a == queryBranch(nb, d, 0)
           c == queryBranch("content", d, 0)
           r == mergeHitsBy(a, c)
<1>1. nb \in Branches /\ "content" \in Branches /\ 0 \in Nat
  BY DEF Branches
<1>2. /\ IsPage(a) /\ PathsOf(a) \subseteq Body(nb)
      /\ IsPage(c) /\ PathsOf(c) \subseteq Body("content")
  BY <1>1, BranchPage
<1>3. /\ Len(a) = d \/ PathsOf(a) = Body(nb)
      /\ Len(c) = d \/ PathsOf(c) = Body("content")
  BY <1>1, BranchFills
<1>4. Found = Body(nb) \union Body("content")
  BY BodyIsTextHits DEF Found
<1> HIDE DEF a, c
<1>5. IsPage(r) /\ PathsOf(r) = PathsOf(a) \union PathsOf(c)
  BY <1>2, MergedPage
<1> HIDE DEF r
<1>6. /\ Cardinality(PathsOf(a)) = Len(a) /\ Cardinality(PathsOf(c)) = Len(c)
      /\ Cardinality(PathsOf(r)) = Len(r) /\ Len(r) \in Nat
      /\ r \in Seq(HitSet)
  BY <1>2, <1>5, PathsOfPage DEF IsPage
<1>7. /\ IsFiniteSet(Found) /\ Cardinality(Found) = Len(Answer) /\ Len(Answer) \in Nat
  BY FoundAre, AnswerIs
<1>8. PathsOf(r) \subseteq Found
  BY <1>2, <1>4, <1>5
<1>9. /\ IsFiniteSet(PathsOf(r)) /\ Len(r) <= Len(Answer)
      /\ Len(a) <= Len(r) /\ Len(c) <= Len(r)
  <2>1. IsFiniteSet(PathsOf(r)) /\ Len(r) <= Len(Answer)
    BY <1>6, <1>7, <1>8, FS_Subset
  <2>2. PathsOf(a) \subseteq PathsOf(r) /\ PathsOf(c) \subseteq PathsOf(r)
    BY <1>5
  <2> QED BY <1>6, <2>1, <2>2, FS_Subset
<1>10. Len(r) >= d \/ Len(r) = Len(Answer)
  <2>1. CASE Len(a) = d \/ Len(c) = d
    BY <1>6, <1>9, <2>1
  <2>2. CASE ~(Len(a) = d \/ Len(c) = d)
    BY <1>3, <1>4, <1>5, <1>6, <1>7, <2>2
  <2> QED BY <2>1, <2>2
<1>11. Len(Window(r, from, n)) = CutLen(r, from, n)
  BY <1>6, WindowCuts
<1>12. CutLen(r, from, n) = CutLen(Answer, from, n)
  BY <1>6, <1>7, <1>9, <1>10 DEF CutLen
<1> QED BY <1>11, <1>12 DEF r, a, c

\* Pages laid end to end are as long as what is cut at once.
LEMMA LengthsAdd ==
    ASSUME NEW A \in Seq(Nat), NEW o \in Nat, NEW n \in Nat
    PROVE  CutLen(A, 0, o) + CutLen(A, o, n) = CutLen(A, 0, o + n)
<1>1. Len(A) \in Nat
  BY LenProperties
<1> DEFINE L == Len(A)
<1>2. /\ CutLen(A, 0, o) = IF o <= L THEN o ELSE L
      /\ CutLen(A, o, n) = IF o >= L THEN 0 ELSE IF o + n <= L THEN n ELSE L - o
      /\ CutLen(A, 0, o + n) = IF o + n <= L THEN o + n ELSE L
  BY <1>1 DEF CutLen
<1> HIDE DEF L
<1> QED BY <1>1, <1>2 DEF L


-----------------------------------------------------------------------------
(* Page after page.                                                        *)

Undisturbed == ~moved /\ ~Amiss

\* What a branch contributes to the merge.
NameTop    == queryBranch(NameKind, Depth, 0)
ContentTop == queryBranch("content", Depth, 0)

\* Where a call is, and what it knows, when nothing is written meanwhile.
CountsAreRight ==
    /\ scope = roots
    /\ step \in {"count_filter", "page_filter"} <=> ~query.text
    /\ step \in {"count_name", "count_like"} =>
         query.mode # "content" /\ nameBr = "none" /\ contentBr = "none"
    /\ step = "count_like" => TextHits("fts") = {} /\ query.long
    /\ step = "count_content" => query.mode # "name" /\ contentBr = "none"
    /\ step \in {"count_content", "choose", "page", "union", "names", "contents", "merge"} =>
         /\ nameBr = "none" => NameKind \notin Kinds
         /\ nameBr # "none" => nameBr = NameKind /\ NameKind \in Kinds
    /\ step \in {"choose", "page", "union", "names", "contents", "merge"} =>
         (contentBr = "content" <=> "content" \in Kinds)
    /\ step = "page" => nameBr = "none" \/ contentBr = "none"
    /\ step \in {"count_content", "choose", "page"} /\ nameBr # "none" =>
         total = Cardinality(TextHits(NameKind))
    /\ step \in {"choose", "page"} /\ nameBr = "none" /\ contentBr = "content" =>
         total = Cardinality(TextHits("content"))
    /\ step \in {"page_filter", "names", "contents", "merge"} =>
         total = Cardinality(Found)
    /\ step \in {"contents", "merge"} => nameHits = NameTop
    /\ step = "merge" => contentHits = ContentTop

\* What the client has seen of the answer: so much of it, and in one order so
\* far of it.
SeenUpTo(n) ==
    /\ shown \in Seq(Nat) /\ Len(shown) = CutLen(Answer, 0, n)
    /\ OneOrder => shown = Window(Answer, 0, n)

PagesSoFar ==
    /\ step \notin {"replied", "over"} => reply # "ok" /\ SeenUpTo(offset)
    /\ reply = "ok" =>
         /\ SeenUpTo(offset + limit)
         /\ total = Len(Answer) /\ Len(hits) = CutLen(Answer, offset, limit)
         /\ step = "over" => offset + Len(hits) >= total

ExactInv ==
    /\ InCall \/ reply = "ok" => ~Amiss
    /\ Undisturbed => PagesSoFar /\ (InCall => CountsAreRight)

LEMMA AnswerStays ==
    ASSUME UNCHANGED <<index, roots, query>>
    PROVE  /\ Answer' = Answer /\ Found' = Found /\ Kinds' = Kinds
           /\ NameKind' = NameKind /\ OneOrder' = OneOrder /\ Amiss' = Amiss
           /\ limit' = limit /\ \A b : TextHits(b)' = TextHits(b)
<1>1. UNCHANGED <<sortKey, desc, limit, Amiss>>
  BY DEF sortKey, desc, limit, Amiss
<1>2. Filtered(roots)' = Filtered(roots)
  BY DEF Filtered, scopeFilter, Keeps
<1>3. \A b : TextHits(b)' = TextHits(b)
  BY <1>2 DEF TextHits, Selects
<1>4. NameKind' = NameKind
  BY <1>3 DEF NameKind
<1>5. Kinds' = Kinds
  BY <1>3, <1>4 DEF Kinds
<1>6. Found' = Found
  BY <1>3, <1>5 DEF Found
<1>7. \A p : Scores(p)' = Scores(p)
  BY <1>5 DEF Scores, Score, Selects
<1>8. \A p : Best(p)' = Best(p)
  BY <1>5, <1>7 DEF Best, Selects
<1>9. OneOrder' = OneOrder
  BY <1>1, <1>3, <1>4, <1>5, <1>6, <1>8 DEF OneOrder, Lifted, Score
<1>10. Bests' = Bests /\ AnswerOrder' = AnswerOrder
  BY <1>5, <1>6, <1>8 DEF Bests, AnswerOrder
<1>11. Ranked(Bests, AnswerOrder)' = Ranked(Bests, AnswerOrder)
  BY <1>1, <1>10 DEF Ranked, Precedes, InMerge, InBranch, ByKey
<1>12. Answer' = Answer
  BY <1>11 DEF Answer, Bests
<1> QED BY <1>1, <1>3, <1>4, <1>5, <1>6, <1>9, <1>12


LEMMA TopsStay ==
    ASSUME UNCHANGED <<index, roots, query, scope, offset>>
    PROVE  NameTop' = NameTop /\ ContentTop' = ContentTop
<1>1. UNCHANGED <<sortKey, desc, limit, Depth, NameKind>>
  BY AnswerStays DEF sortKey, desc, limit, Depth
<1>2. Filtered(scope)' = Filtered(scope)
  BY DEF Filtered, scopeFilter, Keeps
<1>3. \A b : HitsFor(b)' = HitsFor(b)
  BY <1>2 DEF HitsFor, Body, Selects, Hit, Score
<1>4. HitsFor(NameKind)' = HitsFor(NameKind)
  BY <1>1, <1>2 DEF HitsFor, Body, Selects, Hit, Score
<1>5. Ranked(HitsFor(NameKind), NameKind)' = Ranked(HitsFor(NameKind), NameKind)
  BY <1>1, <1>4 DEF Ranked, Precedes, InMerge, InBranch, ByKey
<1>6. \A b : Ranked(HitsFor(b), b)' = Ranked(HitsFor(b), b)
  <2> TAKE b
  <2>1. HitsFor(b)' = HitsFor(b)
    BY <1>3
  <2> QED BY <1>1, <2>1 DEF Ranked, Precedes, InMerge, InBranch, ByKey
<1>7. NameTop = Window(Ranked(HitsFor(NameKind), NameKind), 0, Depth)
      /\ ContentTop = Window(Ranked(HitsFor("content"), "content"), 0, Depth)
  BY DEF NameTop, ContentTop, queryBranch, HitsFor
<1>8. NameTop' = Window(Ranked(HitsFor(NameKind), NameKind)', 0, Depth')
      /\ ContentTop' = Window(Ranked(HitsFor("content"), "content")', 0, Depth')
  BY DEF NameTop, ContentTop, queryBranch, HitsFor, Window
<1> QED BY <1>1, <1>5, <1>6, <1>7, <1>8


LEMMA NoPage ==
    ASSUME NEW A \in Seq(Nat), NEW o \in Nat, NEW n \in Nat, o >= Len(A)
    PROVE  /\ Len(<<>>) = CutLen(A, o, n)
           /\ [i \in DOMAIN <<>> |-> <<>>[i].path] = Window(A, o, n)
<1>1. Window(A, o, n) \in Seq(Nat) /\ Len(Window(A, o, n)) = 0 /\ CutLen(A, o, n) = 0
  <2>1. CutLen(A, o, n) = 0
    BY DEF CutLen
  <2>2. Window(A, o, n) \in Seq(Nat) /\ Len(Window(A, o, n)) = CutLen(A, o, n)
    BY WindowCuts
  <2> QED BY <2>1, <2>2
<1>2. Window(A, o, n) = <<>>
  BY <1>1, EmptySeq
<1>3. [i \in DOMAIN <<>> |-> <<>>[i].path] = <<>>
  OBVIOUS
<1> QED BY <1>1, <1>2, <1>3, NoHits

LEMMA NothingFound ==
    ASSUME NEW P \in SUBSET Paths
    PROVE  /\ Cardinality(P) \in Nat
           /\ Cardinality(P) > 0 <=> P # {}
<1>1. IsFiniteSet(P)
  BY SearchAssumption, FS_Subset
<1> QED BY <1>1, FS_CardinalityType, FS_EmptySet

\* Which branches make up what is found.
LEMMA FoundByKinds ==
    ASSUME ~Amiss
    PROVE  /\ ~query.text => Found = TextHits("filter")
           /\ query.text => /\ NameKind \notin Kinds /\ "content" \notin Kinds => Found = {}
                            /\ NameKind \in Kinds /\ "content" \notin Kinds =>
                                 Kinds = {NameKind} /\ Found = TextHits(NameKind)
                            /\ NameKind \notin Kinds /\ "content" \in Kinds =>
                                 Kinds = {"content"} /\ Found = TextHits("content")
                            /\ NameKind \in Kinds /\ "content" \in Kinds =>
                                 /\ Kinds = {NameKind, "content"}
                                 /\ Found = TextHits(NameKind) \union TextHits("content")
<1>1. CASE ~query.text
  BY <1>1, KindsAre DEF Found
<1>2. CASE query.text
  <2>1. Kinds \subseteq {NameKind, "content"}
    BY <1>2, KindsAre
  <2>2. NameKind \notin Kinds /\ "content" \notin Kinds => Kinds = {}
    BY <2>1
  <2>3. NameKind \in Kinds /\ "content" \notin Kinds => Kinds = {NameKind}
    BY <2>1
  <2>4. NameKind \notin Kinds /\ "content" \in Kinds => Kinds = {"content"}
    BY <2>1
  <2>5. NameKind \in Kinds /\ "content" \in Kinds => Kinds = {NameKind, "content"}
    BY <2>1
  <2> QED BY <1>2, <2>2, <2>3, <2>4, <2>5 DEF Found
<1> QED BY <1>1, <1>2

\* An answer that is the next page.
LEMMA ExactAnswers ==
    ASSUME CallInv, CallInv', ExactInv, InCall, NEW page, NEW n,
           Replies("ok", page, n),
           Undisturbed =>
             /\ n = Len(Answer) /\ Len(page) = CutLen(Answer, offset, limit)
             /\ OneOrder => [i \in DOMAIN page |-> page[i].path]
                              = Window(Answer, offset, limit)
    PROVE  ExactInv'
<1> DEFINE next == [i \in DOMAIN page |-> page[i].path]
<1>1. /\ UNCHANGED <<index, roots, moved, query, offset>>
      /\ step' = "replied" /\ reply' = "ok" /\ hits' = page /\ total' = n
      /\ shown' = shown \o next
  BY DEF Replies, world, asked
<1>2. ~Amiss /\ limit \in Nat /\ offset \in Nat /\ IndexOK
  BY LimitIsPositive DEF ExactInv, CallInv, StatesOK
<1>3. Answer' = Answer /\ OneOrder' = OneOrder /\ Amiss' = Amiss /\ limit' = limit
  BY <1>1, AnswerStays
<1>4. next \in Seq(Nat) /\ Len(next) = Len(page)
  <2>1. IsPage(page)
    BY <1>1 DEF CallInv, PagesOK, IsPage
  <2>2. /\ DOMAIN page = 1..Len(page) /\ Len(page) \in Nat
        /\ \A i \in 1..Len(page) : page[i] \in HitSet
    BY <2>1, LenProperties, ElementOfSeq DEF IsPage
  <2>3. next \in [1..Len(page) -> Nat]
    BY <2>2, SearchAssumption DEF HitSet
  <2> HIDE DEF next
  <2> QED BY <2>2, <2>3, SeqDef, LenProperties
<1> HIDE DEF next
<1>5. CASE Undisturbed
  <2>1. SeenUpTo(offset)
    BY <1>5 DEF ExactInv, PagesSoFar, InCall
  <2>2. Answer \in Seq(Nat)
    BY <1>2, AnswerIs
  <2>3. /\ Window(Answer, 0, offset) \o Window(Answer, offset, limit)
             = Window(Answer, 0, offset + limit)
        /\ CutLen(Answer, 0, offset) + CutLen(Answer, offset, limit)
             = CutLen(Answer, 0, offset + limit)
    BY <1>2, <2>2, PagesJoin, LengthsAdd
  <2>4. shown' \in Seq(Nat) /\ Len(shown') = CutLen(Answer, 0, offset + limit)
    <3>1. shown \in Seq(Nat) /\ Len(shown) = CutLen(Answer, 0, offset)
      BY <2>1 DEF SeenUpTo
    <3>2. shown \o next \in Seq(Nat) /\ Len(shown \o next) = Len(shown) + Len(next)
      BY <1>4, <3>1, ConcatProperties
    <3> QED BY <1>1, <1>4, <1>5, <2>3, <3>1, <3>2
  <2>5. OneOrder => shown' = Window(Answer, 0, offset + limit)
    BY <1>1, <1>5, <2>1, <2>3 DEF SeenUpTo, next
  <2>6. SeenUpTo(offset + limit)'
    BY <1>1, <1>3, <2>4, <2>5 DEF SeenUpTo
  <2> QED BY <1>1, <1>2, <1>3, <1>5, <2>6 DEF ExactInv, PagesSoFar, InCall
<1>6. CASE ~Undisturbed
  BY <1>1, <1>2, <1>3, <1>6 DEF ExactInv, Undisturbed
<1> QED BY <1>5, <1>6

\* One that is none leaves what was shown, and ends the search.
LEMMA ExactRefuses ==
    ASSUME NEW r, NEW page, NEW n, Replies(r, page, n), r # "ok"
    PROVE  ExactInv'
BY DEF Replies, ExactInv, PagesSoFar, InCall

\* A step within the call.
LEMMA ExactGoesOn ==
    ASSUME ExactInv, InCall, NEW to, Goes(to), to \notin {"ask", "replied", "over"},
           Undisturbed => CountsAreRight'
    PROVE  ExactInv'
<1>1. /\ UNCHANGED <<index, roots, moved, query, offset, hits, reply, shown>>
      /\ step' = to
  BY DEF Goes, world, asked
<1>2. Answer' = Answer /\ OneOrder' = OneOrder /\ Amiss' = Amiss
  BY <1>1, AnswerStays
<1>3. ~Amiss
  BY DEF ExactInv
<1>4. CASE Undisturbed
  BY <1>1, <1>2, <1>3, <1>4 DEF ExactInv, PagesSoFar, SeenUpTo, InCall
<1>5. CASE ~Undisturbed
  BY <1>1, <1>2, <1>3, <1>5 DEF ExactInv, Undisturbed
<1> QED BY <1>4, <1>5

\* What a step within the call finds, if nothing was written.
LEMMA CallFacts ==
    ASSUME CallInv, ExactInv, InCall
    PROVE  /\ IndexOK /\ ~Amiss /\ limit \in Nat /\ offset \in Nat /\ Depth \in Nat
           /\ nameBr \in {"none", "fts", "like"} /\ contentBr \in {"none", "content"}
           /\ Undisturbed =>
                /\ scope = roots /\ CountsAreRight
                /\ \A b : Body(b) = TextHits(b)
                /\ Answer \in Seq(Nat) /\ Len(Answer) = Cardinality(Found)
                /\ Len(Answer) \in Nat
<1>1. /\ IndexOK /\ ~Amiss /\ limit \in Nat /\ offset \in Nat /\ Depth \in Nat
      /\ nameBr \in {"none", "fts", "like"} /\ contentBr \in {"none", "content"}
  BY LimitIsPositive DEF ExactInv, CallInv, StatesOK, Depth
<1>2. Undisturbed => scope = roots /\ CountsAreRight
  BY DEF ExactInv, CountsAreRight
<1> QED BY <1>1, <1>2, BodyIsTextHits, AnswerIs

LEMMA ExactFilter ==
    ASSUME CallInv, CallInv', ExactInv, CountFilter \/ PageFilter
    PROVE  ExactInv'
<1>0. InCall
  BY DEF InCall, CountFilter, PageFilter
<1>1. CASE CountFilter
  <2> DEFINE n == Cardinality(Body("filter"))
  <2>1. Undisturbed => ~query.text /\ n = Cardinality(Found) /\ n = Len(Answer)
    BY <1>0, <1>1, CallFacts, FoundByKinds DEF CountFilter, CountsAreRight
  <2>2. CASE offset >= n
    <3>1. Replies("ok", <<>>, n)
      BY <1>1, <2>2 DEF CountFilter
    <3> HIDE DEF n
    <3>2. Undisturbed =>
            /\ n = Len(Answer) /\ Len(<<>>) = CutLen(Answer, offset, limit)
            /\ [i \in DOMAIN <<>> |-> <<>>[i].path] = Window(Answer, offset, limit)
      BY <1>0, <2>1, <2>2, CallFacts, NoPage
    <3> QED BY <1>0, <3>1, <3>2, ExactAnswers
  <2>3. CASE ~(offset >= n)
    <3>1. total' = n /\ Goes("page_filter") /\ UNCHANGED <<branches, fetched>>
      BY <1>1, <2>3 DEF CountFilter
    <3>2. UNCHANGED <<index, roots, query, scope>> /\ step' = "page_filter"
      BY <3>1 DEF Goes, world, asked
    <3>3. Undisturbed => CountsAreRight'
      BY <1>0, <2>1, <3>1, <3>2, CallFacts, AnswerStays DEF CountsAreRight
    <3> QED BY <1>0, <3>1, <3>3, ExactGoesOn
  <2> QED BY <2>2, <2>3
<1>2. CASE PageFilter
  <2>1. Undisturbed => total = Len(Answer) /\ Kinds = {"filter"}
    BY <1>0, <1>2, CallFacts, KindsAre DEF PageFilter, CountsAreRight
  <2>2. "filter" \in Branches
    BY DEF Branches
  <2> DEFINE page == queryBranch("filter", limit, offset)
  <2>3. Undisturbed =>
          /\ Len(page) = CutLen(Answer, offset, limit)
          /\ [i \in DOMAIN page |-> page[i].path] = Window(Answer, offset, limit)
    BY <1>0, <2>1, <2>2, CallFacts, OneBranchIsExact
  <2>4. Replies("ok", page, total)
    BY <1>2 DEF PageFilter
  <2> HIDE DEF page
  <2> QED BY <1>0, <2>1, <2>3, <2>4, ExactAnswers
<1> QED BY <1>1, <1>2


LEMMA ExactCounted ==
    ASSUME CallInv, ExactInv, InCall, NEW b, NameCounted(b),
           step \in {"count_name", "count_like"},
           Undisturbed => b = NameKind
    PROVE  ExactInv'
<1> DEFINE n == Cardinality(Body(b))
           to == IF query.mode = "name" THEN "choose" ELSE "count_content"
<1>1. /\ nameBr' = (IF n > 0 THEN b ELSE "none") /\ total' = n
      /\ Goes(to) /\ UNCHANGED <<contentBr, fetched>>
  BY DEF NameCounted
<1>2. UNCHANGED <<index, roots, query, scope>> /\ step' = to
  BY <1>1 DEF Goes, world, asked
<1>3. ASSUME Undisturbed
      PROVE  /\ query.text /\ query.mode # "content" /\ contentBr = "none"
             /\ n = Cardinality(TextHits(NameKind))
             /\ n > 0 <=> NameKind \in Kinds
             /\ NameKind # "none"
             /\ query.mode = "name" => "content" \notin Kinds
  <2>1. query.text /\ query.mode # "content" /\ contentBr = "none"
    BY <1>3, CallFacts DEF CountsAreRight
  <2>2. b = NameKind /\ n = Cardinality(TextHits(NameKind))
    BY <1>3, CallFacts
  <2>3. TextHits(NameKind) \in SUBSET Paths
    BY DEF TextHits, Filtered
  <2> QED BY <2>1, <2>2, <2>3, CallFacts, KindsAre, NothingFound
<1> HIDE DEF n
<1>4. Undisturbed => CountsAreRight'
  BY <1>1, <1>2, <1>3, CallFacts, AnswerStays DEF CountsAreRight
<1> QED BY <1>1, <1>4, ExactGoesOn

LEMMA ExactNames ==
    ASSUME CallInv, ExactInv, CountName \/ CountLike
    PROVE  ExactInv'
<1>0. InCall
  BY DEF InCall, CountName, CountLike
<1>1. CASE CountName
  <2>1. Undisturbed => (Body("fts") = {} <=> TextHits("fts") = {})
    BY <1>0, CallFacts
  <2>2. CASE Body("fts") = {} /\ query.long
    <3>1. Goes("count_like") /\ UNCHANGED <<branches, total, fetched>>
      BY <1>1, <2>2 DEF CountName
    <3>2. UNCHANGED <<index, roots, query, scope>> /\ step' = "count_like" /\ step = "count_name"
      BY <1>1, <3>1 DEF Goes, world, asked, CountName
    <3>3. Undisturbed => CountsAreRight'
      BY <1>0, <2>1, <2>2, <3>1, <3>2, CallFacts, AnswerStays DEF CountsAreRight, branches
    <3> QED BY <1>0, <3>1, <3>3, ExactGoesOn
  <2>3. CASE ~(Body("fts") = {} /\ query.long)
    <3>1. Undisturbed => "fts" = NameKind
      BY <2>1, <2>3 DEF NameKind
    <3> QED BY <1>0, <1>1, <2>3, <3>1, ExactCounted DEF CountName
  <2> QED BY <2>2, <2>3
<1>2. CASE CountLike
  <2>1. Undisturbed => "like" = NameKind
    BY <1>0, <1>2, CallFacts DEF CountsAreRight, NameKind, CountLike
  <2> QED BY <1>0, <1>2, <2>1, ExactCounted DEF CountLike
<1> QED BY <1>1, <1>2

LEMMA ExactContent ==
    ASSUME CallInv, ExactInv, CountContent
    PROVE  ExactInv'
<1>0. InCall
  BY DEF InCall, CountContent
<1> DEFINE n == Cardinality(Body("content"))
<1>1. /\ contentBr' = (IF n > 0 THEN "content" ELSE "none")
      /\ total' = (IF nameBr = "none" THEN n ELSE total)
      /\ Goes("choose") /\ UNCHANGED <<nameBr, fetched>> /\ step = "count_content"
  BY DEF CountContent
<1>2. UNCHANGED <<index, roots, query, scope>> /\ step' = "choose"
  BY <1>1 DEF Goes, world, asked
<1>3. ASSUME Undisturbed
      PROVE  /\ query.text /\ n = Cardinality(TextHits("content"))
             /\ n > 0 <=> "content" \in Kinds
  <2>1. query.text /\ query.mode # "name"
    BY <1>0, <1>1, <1>3, CallFacts DEF CountsAreRight
  <2>2. n = Cardinality(TextHits("content"))
    BY <1>0, <1>3, CallFacts
  <2>3. TextHits("content") \in SUBSET Paths
    BY DEF TextHits, Filtered
  <2> QED BY <1>0, <2>1, <2>2, <2>3, CallFacts, KindsAre, NothingFound
<1> HIDE DEF n
<1>4. Undisturbed => CountsAreRight'
  BY <1>0, <1>1, <1>2, <1>3, CallFacts, AnswerStays DEF CountsAreRight
<1> QED BY <1>0, <1>1, <1>4, ExactGoesOn

LEMMA ExactChoice ==
    ASSUME CallInv, CallInv', ExactInv, Choose \/ countUnion
    PROVE  ExactInv'
<1>0. InCall
  BY DEF InCall, Choose, countUnion
<1>1. CASE Choose
  <2>1. CASE nameBr = "none" /\ contentBr = "none"
    <3>1. Replies("ok", <<>>, 0)
      BY <1>1, <2>1 DEF Choose
    <3>2. Undisturbed => Len(Answer) = 0
      <4>1. Undisturbed => Found = {}
        BY <1>0, <1>1, <2>1, CallFacts, FoundByKinds DEF Choose, CountsAreRight
      <4> QED BY <1>0, <4>1, CallFacts, FS_EmptySet
    <3>3. Undisturbed =>
            /\ 0 = Len(Answer) /\ Len(<<>>) = CutLen(Answer, offset, limit)
            /\ [i \in DOMAIN <<>> |-> <<>>[i].path] = Window(Answer, offset, limit)
      <4>1. Undisturbed => Answer \in Seq(Nat) /\ offset >= Len(Answer)
        BY <1>0, <3>2, CallFacts
      <4> QED BY <1>0, <3>2, <4>1, CallFacts, NoPage
    <3> QED BY <1>0, <3>1, <3>3, ExactAnswers
  <2>2. CASE ~(nameBr = "none" /\ contentBr = "none")
    <3> DEFINE to == IF contentBr = "none" \/ nameBr = "none" THEN "page" ELSE "union"
    <3>1. Goes(to) /\ UNCHANGED <<branches, total, fetched>> /\ step = "choose"
      BY <1>1, <2>2 DEF Choose
    <3>2. UNCHANGED <<index, roots, query, scope>> /\ step' = to
      BY <3>1 DEF Goes, world, asked
    <3>3. Undisturbed => CountsAreRight'
      BY <1>0, <3>1, <3>2, CallFacts, AnswerStays DEF CountsAreRight, branches
    <3> QED BY <1>0, <3>1, <3>3, ExactGoesOn
  <2> QED BY <2>1, <2>2
<1>2. CASE countUnion
  <2> DEFINE n == Cardinality(Body(nameBr) \union Body(contentBr))
  <2>1. Undisturbed => n = Cardinality(Found)
    <3>1. nameBr \in {"fts", "like"} /\ contentBr = "content" /\ step = "union"
      BY <1>2 DEF CallInv, BranchesChosen, countUnion
    <3>2. ASSUME Undisturbed PROVE nameBr = NameKind /\ NameKind \in Kinds
                                   /\ "content" \in Kinds /\ query.text
      BY <1>0, <3>1, <3>2, CallFacts DEF CountsAreRight
    <3>3. Undisturbed => Found = TextHits(NameKind) \union TextHits("content")
      BY <1>0, <3>2, CallFacts, FoundByKinds
    <3> QED BY <1>0, <3>1, <3>2, <3>3, CallFacts
  <2>2. CASE offset >= n
    <3>1. Replies("ok", <<>>, n)
      BY <1>2, <2>2 DEF countUnion
    <3> HIDE DEF n
    <3>2. Undisturbed =>
            /\ n = Len(Answer) /\ Len(<<>>) = CutLen(Answer, offset, limit)
            /\ [i \in DOMAIN <<>> |-> <<>>[i].path] = Window(Answer, offset, limit)
      BY <1>0, <2>1, <2>2, CallFacts, NoPage
    <3> QED BY <1>0, <3>1, <3>2, ExactAnswers
  <2>3. CASE ~(offset >= n)
    <3>1. total' = n /\ Goes("names") /\ UNCHANGED <<branches, fetched>> /\ step = "union"
      BY <1>2, <2>3 DEF countUnion
    <3>2. UNCHANGED <<index, roots, query, scope>> /\ step' = "names"
      BY <3>1 DEF Goes, world, asked
    <3> HIDE DEF n
    <3>3. Undisturbed => CountsAreRight'
      BY <1>0, <2>1, <3>1, <3>2, CallFacts, AnswerStays DEF CountsAreRight, branches
    <3> QED BY <1>0, <3>1, <3>3, ExactGoesOn
  <2> QED BY <2>2, <2>3
<1> QED BY <1>1, <1>2

LEMMA ExactPage ==
    ASSUME CallInv, CallInv', ExactInv, Page
    PROVE  ExactInv'
<1>0. InCall /\ step = "page"
  BY DEF InCall, Page
<1> DEFINE b == IF contentBr = "none" THEN nameBr ELSE contentBr
           page == queryBranch(b, limit, offset)
<1>1. Replies("ok", page, total)
  BY DEF Page
<1>2. b \in Branches
  BY <1>0 DEF CallInv, StatesOK, BranchesChosen, Branches
<1>3. ASSUME Undisturbed PROVE Kinds = {b} /\ total = Cardinality(Found)
  <2>1. query.text /\ (nameBr = "none" \/ contentBr = "none")
        /\ ~(nameBr = "none" /\ contentBr = "none")
    BY <1>0, <1>3, CallFacts DEF CountsAreRight, CallInv, BranchesChosen
  <2>2. CASE contentBr = "none"
    <3>1. nameBr = NameKind /\ NameKind \in Kinds /\ "content" \notin Kinds
          /\ total = Cardinality(TextHits(NameKind))
      BY <1>0, <1>3, <2>1, <2>2, CallFacts DEF CountsAreRight
    <3> QED BY <1>0, <2>1, <2>2, <3>1, CallFacts, FoundByKinds
  <2>3. CASE contentBr # "none"
    <3>1. nameBr = "none" /\ contentBr = "content" /\ "content" \in Kinds
          /\ NameKind \notin Kinds /\ total = Cardinality(TextHits("content"))
      BY <1>0, <1>3, <2>1, <2>3, CallFacts DEF CountsAreRight
    <3> QED BY <1>0, <2>1, <2>3, <3>1, CallFacts, FoundByKinds
  <2> QED BY <2>2, <2>3
<1> HIDE DEF b
<1>4. Undisturbed =>
        /\ total = Len(Answer) /\ Len(page) = CutLen(Answer, offset, limit)
        /\ [i \in DOMAIN page |-> page[i].path] = Window(Answer, offset, limit)
  BY <1>0, <1>2, <1>3, CallFacts, OneBranchIsExact
<1> HIDE DEF page
<1> QED BY <1>0, <1>1, <1>4, ExactAnswers


LEMMA ExactFetches ==
    ASSUME CallInv, ExactInv, FetchNames \/ FetchContents
    PROVE  ExactInv'
<1>0. InCall
  BY DEF InCall, FetchNames, FetchContents
<1>1. ASSUME Undisturbed
      PROVE  nameBr = NameKind /\ contentBr = "content" /\ total = Cardinality(Found)
             /\ query.text /\ "content" \in Kinds /\ NameKind \in Kinds
  <2>1. nameBr \in {"fts", "like"} /\ contentBr = "content"
    BY DEF CallInv, BranchesChosen, FetchNames, FetchContents
  <2> QED BY <1>0, <1>1, <2>1, CallFacts DEF CountsAreRight, FetchNames, FetchContents
<1>2. CASE FetchNames
  <2>1. /\ nameHits' = queryBranch(nameBr, Depth, 0) /\ Goes("contents")
        /\ UNCHANGED <<branches, total, contentHits>>
    BY <1>2 DEF FetchNames
  <2>2. UNCHANGED <<index, roots, query, offset, scope>> /\ step' = "contents"
    BY <2>1 DEF Goes, world, asked
  <2>3. Undisturbed => nameHits' = NameTop
    BY <1>1, <2>1 DEF NameTop
  <2>4. Undisturbed => CountsAreRight'
    <3> SUFFICES ASSUME Undisturbed PROVE CountsAreRight'
      OBVIOUS
    <3>1. /\ Found' = Found /\ Kinds' = Kinds /\ NameKind' = NameKind
          /\ NameTop' = NameTop /\ nameHits' = NameTop
          /\ UNCHANGED <<scope, roots, query, nameBr, contentBr, total>> /\ step' = "contents"
      BY <2>1, <2>2, <2>3, AnswerStays, TopsStay DEF branches
    <3>2. scope = roots
      BY <1>0, CallFacts
    <3>3. /\ nameBr = NameKind /\ contentBr = "content" /\ total = Cardinality(Found)
          /\ query.text /\ "content" \in Kinds /\ NameKind \in Kinds
      BY <1>1
    <3>4. total' = Cardinality(Found')
      BY <3>1, <3>3
    <3>5. nameBr' = NameKind' /\ NameKind' \in Kinds' /\ contentBr' = "content"
          /\ "content" \in Kinds' /\ query'.text /\ scope' = roots' /\ nameHits' = NameTop'
      BY <3>1, <3>2, <3>3
    <3>6. NameKind \in {"fts", "like"}
      BY DEF NameKind
    <3> QED BY <3>1, <3>3, <3>4, <3>5, <3>6 DEF CountsAreRight
  <2> QED BY <1>0, <2>1, <2>4, ExactGoesOn
<1>3. CASE FetchContents
  <2>1. /\ contentHits' = queryBranch(contentBr, Depth, 0) /\ Goes("merge")
        /\ UNCHANGED <<branches, total, nameHits>> /\ step = "contents"
    BY <1>3 DEF FetchContents
  <2>2. UNCHANGED <<index, roots, query, offset, scope>> /\ step' = "merge"
    BY <2>1 DEF Goes, world, asked
  <2>3. Undisturbed => contentHits' = ContentTop /\ nameHits = NameTop
    BY <1>0, <1>1, <2>1, CallFacts DEF ContentTop, CountsAreRight
  <2>4. Undisturbed => CountsAreRight'
    BY <1>0, <1>1, <2>1, <2>2, <2>3, CallFacts, AnswerStays, TopsStay
       DEF CountsAreRight, branches
  <2> QED BY <1>0, <2>1, <2>4, ExactGoesOn
<1> QED BY <1>2, <1>3

LEMMA ExactMerge ==
    ASSUME CallInv, CallInv', ExactInv, Merge
    PROVE  ExactInv'
<1>0. InCall /\ step = "merge"
  BY DEF InCall, Merge
<1> DEFINE merged == mergeHitsBy(nameHits, contentHits)
           page == Window(merged, offset, limit)
<1>1. Replies("ok", page, total)
  <2>1. IsPage(merged) /\ offset \in Nat /\ limit \in Nat
    BY <1>0, MergedPage, CallFacts DEF CallInv, PagesOK
  <2>2. Replies("ok", IF offset >= Len(merged) THEN <<>> ELSE page, total)
    BY DEF Merge
  <2> HIDE DEF merged
  <2>3. CASE offset >= Len(merged)
    <3>1. merged \in Seq(HitSet)
      BY <2>1 DEF IsPage
    <3>2. page \in Seq(HitSet) /\ Len(page) = 0
      <4>1. page \in Seq(HitSet) /\ Len(page) = CutLen(merged, offset, limit)
        BY <2>1, <3>1, WindowCuts
      <4> QED BY <2>3, <4>1 DEF CutLen
    <3>3. page = <<>>
      BY <3>2, EmptySeq
    <3> QED BY <2>2, <2>3, <3>3
  <2>4. CASE ~(offset >= Len(merged))
    BY <2>2, <2>4
  <2> QED BY <2>3, <2>4
<1>2. ASSUME Undisturbed
      PROVE  /\ NameKind \in {"fts", "like"} /\ Kinds = {NameKind, "content"}
             /\ total = Cardinality(Found)
             /\ nameHits = NameTop /\ contentHits = ContentTop
  <2>1. nameBr \in {"fts", "like"} /\ contentBr = "content"
    BY <1>0 DEF CallInv, BranchesChosen
  <2>2. nameBr = NameKind /\ total = Cardinality(Found) /\ query.text
        /\ nameHits = NameTop /\ contentHits = ContentTop
        /\ "content" \in Kinds /\ NameKind \in Kinds
    BY <1>0, <1>2, <2>1, CallFacts DEF CountsAreRight
  <2> QED BY <1>0, <2>1, <2>2, CallFacts, FoundByKinds
<1>3. Undisturbed =>
        /\ total = Len(Answer) /\ Len(page) = CutLen(Answer, offset, limit)
        /\ OneOrder => [i \in DOMAIN page |-> page[i].path] = Window(Answer, offset, limit)
  <2> SUFFICES ASSUME Undisturbed
               PROVE  /\ total = Len(Answer) /\ Len(page) = CutLen(Answer, offset, limit)
                      /\ OneOrder => [i \in DOMAIN page |-> page[i].path]
                                       = Window(Answer, offset, limit)
    OBVIOUS
  <2>1. /\ IndexOK /\ ~Amiss /\ scope = roots
        /\ offset \in Nat /\ limit \in Nat /\ Depth \in Nat /\ offset + limit <= Depth
        /\ Len(Answer) = Cardinality(Found)
    BY <1>0, CallFacts DEF Undisturbed, Depth
  <2>2. page = Window(mergeHitsBy(queryBranch(NameKind, Depth, 0),
                                  queryBranch("content", Depth, 0)), offset, limit)
    BY <1>2 DEF NameTop, ContentTop
  <2> HIDE DEF page
  <2>3. Len(page) = CutLen(Answer, offset, limit)
    BY <1>2, <2>1, <2>2, MergeFills
  <2>4. OneOrder => [i \in DOMAIN page |-> page[i].path] = Window(Answer, offset, limit)
    BY <1>2, <2>1, <2>2, TwoBranchesAreExact
  <2> QED BY <1>2, <2>1, <2>3, <2>4
<1> HIDE DEF page
<1> QED BY <1>0, <1>1, <1>3, ExactAnswers

LEMMA ExactAsk ==
    ASSUME CallInv, ExactInv, Ask
    PROVE  ExactInv'
<1>1. CASE BadRequest
  BY <1>1, ExactRefuses DEF Ask
<1>2. CASE ~BadRequest
  <2>1. /\ UNCHANGED <<index, roots, moved, query, offset, hits, reply, shown>>
        /\ scope' = roots /\ nameBr' = "none" /\ contentBr' = "none" /\ step = "ask"
        /\ step' = IF ~query.text THEN "count_filter"
                   ELSE IF query.mode # "content" THEN "count_name" ELSE "count_content"
    BY <1>2 DEF Ask, asked
  <2>2. ~Amiss /\ Amiss' = Amiss
    BY <1>2, <2>1, AnswerStays DEF BadRequest
  <2>3. CASE Undisturbed
    <3>1. PagesSoFar'
      BY <2>1, <2>3, AnswerStays DEF ExactInv, PagesSoFar, SeenUpTo, InCall
    <3>2. query.mode = "content" /\ query.text => NameKind \notin Kinds
      BY <2>2, KindsAre
    <3>3. CountsAreRight'
      BY <2>1, <3>2, AnswerStays DEF CountsAreRight
    <3> QED BY <2>2, <3>1, <3>3 DEF ExactInv
  <2>4. CASE ~Undisturbed
    BY <2>1, <2>2, <2>4, AnswerStays DEF ExactInv, Undisturbed
  <2> QED BY <2>3, <2>4
<1> QED BY <1>1, <1>2

LEMMA ExactTurns ==
    ASSUME CallInv, ExactInv, TurnPage \/ LastPage
    PROVE  ExactInv'
<1>1. UNCHANGED <<index, roots, moved, query, shown, total>> /\ step = "replied"
  BY DEF TurnPage, LastPage, world, asked
<1>2. /\ Answer' = Answer /\ OneOrder' = OneOrder /\ Amiss' = Amiss /\ limit' = limit
  BY <1>1, AnswerStays
<1>3. CASE TurnPage
  BY <1>1, <1>2, <1>3 DEF TurnPage, ExactInv, Undisturbed, PagesSoFar, SeenUpTo, InCall
<1>4. CASE LastPage
  <2>1. UNCHANGED <<offset, hits, reply>> /\ step' = "over"
        /\ (reply # "ok" \/ offset + Len(hits) >= total)
    BY <1>4 DEF LastPage, asked
  <2> QED BY <1>1, <1>2, <2>1 DEF ExactInv, Undisturbed, PagesSoFar, SeenUpTo, InCall
<1> QED BY <1>3, <1>4

LEMMA ExactOthers ==
    ASSUME ExactInv, Others
    PROVE  ExactInv'
<1>1. moved' = TRUE /\ UNCHANGED <<query, step, reply>>
  BY DEF Others, asked
<1>2. Amiss' = Amiss
  BY <1>1 DEF Amiss
<1> QED BY <1>1, <1>2 DEF ExactInv, Undisturbed, InCall

LEMMA ExactStep ==
    ASSUME CallInv, ExactInv, [SearchNext]_searchVars
    PROVE  ExactInv'
<1>1. CASE UNCHANGED searchVars
  <2>1. UNCHANGED <<index, roots, query, scope, offset>>
    BY <1>1 DEF searchVars, world, asked
  <2>2. UNCHANGED <<moved, step, nameBr, contentBr, total, nameHits, contentHits,
                    hits, reply, shown>>
    BY <1>1 DEF searchVars, world, branches, fetched
  <2>3. CountsAreRight' <=> CountsAreRight
    BY <2>1, <2>2, AnswerStays, TopsStay DEF CountsAreRight
  <2>4. PagesSoFar' <=> PagesSoFar
    BY <2>1, <2>2, AnswerStays DEF PagesSoFar, SeenUpTo
  <2> QED BY <2>1, <2>2, <2>3, <2>4, AnswerStays DEF ExactInv, Undisturbed, InCall
<1>2. CASE QueryFails
  BY <1>2, ExactRefuses DEF QueryFails
<1>3. CallInv'
  BY CallInvStep
<1> QED BY <1>1, <1>2, <1>3, ExactAsk, ExactFilter, ExactNames, ExactContent, ExactChoice,
           ExactPage, ExactFetches, ExactMerge, ExactTurns, ExactOthers
        DEF SearchNext, SearchStep

LEMMA ExactInit ==
    ASSUME SearchInit
    PROVE  ExactInv
<1>1. step = "ask" /\ reply = "none" /\ shown = <<>> /\ offset = 0
  BY DEF SearchInit
<1>2. CallInv
  BY CallInvInit
<1>3. ASSUME ~Amiss PROVE SeenUpTo(offset)
  <2>1. Answer \in Seq(Nat) /\ 0 \in Nat
    BY <1>2, <1>3, AnswerIs DEF CallInv, StatesOK
  <2>2. Window(Answer, 0, 0) \in Seq(Nat) /\ Len(Window(Answer, 0, 0)) = CutLen(Answer, 0, 0)
    BY <2>1, WindowCuts
  <2>3. CutLen(Answer, 0, 0) = 0
    BY <2>1, LenProperties DEF CutLen
  <2>4. shown \in Seq(Nat) /\ Len(shown) = CutLen(Answer, 0, offset)
    BY <1>1, <2>3, EmptySeq
  <2>5. shown = Window(Answer, 0, offset)
    BY <1>1, <2>2, <2>3, EmptySeq
  <2> QED BY <2>4, <2>5 DEF SeenUpTo
<1> QED BY <1>1, <1>3 DEF ExactInv, Undisturbed, PagesSoFar, InCall

LEMMA ExactImplies ==
    ASSUME CallInv, ExactInv
    PROVE  PagesAreExact
<1> SUFFICES ASSUME ~moved, reply = "ok"
             PROVE  /\ total = Cardinality(Found)
                    /\ Len(shown) = Len(Window(Answer, 0, offset + limit))
                    /\ step = "over" => Len(shown) = Len(Answer)
                    /\ OneOrder => /\ shown = Window(Answer, 0, offset + limit)
                                   /\ step = "over" => shown = Answer
  BY DEF PagesAreExact
<1>1. ~Amiss /\ PagesSoFar
  BY DEF ExactInv, Undisturbed
<1>2. /\ Answer \in Seq(Nat) /\ limit \in Nat /\ offset \in Nat
      /\ Len(Answer) = Cardinality(Found)
  BY <1>1, AnswerIs, LimitIsPositive DEF CallInv, StatesOK
<1>3. Len(Window(Answer, 0, offset + limit)) = CutLen(Answer, 0, offset + limit)
  <2>1. 0 \in Nat /\ offset + limit \in Nat
    BY <1>2
  <2> QED BY <1>2, <2>1, WindowCuts
<1>4. /\ SeenUpTo(offset + limit) /\ total = Len(Answer)
      /\ step = "over" => offset + CutLen(Answer, offset, limit) >= Len(Answer)
  BY <1>1 DEF PagesSoFar
<1>5. step = "over" => Window(Answer, 0, offset + limit) = Answer
  BY <1>2, <1>4, PagesJoin
<1> QED BY <1>2, <1>3, <1>4, <1>5 DEF SeenUpTo

\* "so the page is exact": with nothing written in between, the total is that of
\* the files that match and every page is full, although a page that merges two
\* branches has seen no more of each than offset + limit + 1 hits.  Where the
\* branches and the merge share one order, the pages a client turns are the
\* answer from its beginning, and all of it when no page is left; the code
\* does not always give them one, see NoFileTwice.
THEOREM ExactPages == SearchSpec => []PagesAreExact
<1>1. SearchInit => CallInv /\ ExactInv
  BY CallInvInit, ExactInit
<1>2. CallInv /\ ExactInv /\ [SearchNext]_searchVars => (CallInv /\ ExactInv)'
  BY CallInvStep, ExactStep
<1>3. CallInv /\ ExactInv => PagesAreExact
  BY ExactImplies
<1> QED BY <1>1, <1>2, <1>3, PTL DEF SearchSpec


=============================================================================
