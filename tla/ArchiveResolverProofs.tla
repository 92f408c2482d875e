------------------------ MODULE ArchiveResolverProofs ------------------------
(***************************************************************************)
(* Proofs about ArchiveResolver, for any number of operations and slots,   *)
(* any depth of nesting and any limits.                                    *)
(***************************************************************************)
EXTENDS ArchiveResolver, FiniteSetTheorems, WellFoundedInduction, TLAPS

-----------------------------------------------------------------------------
(* Sums.  A sum over a finite set is what the library computes by taking   *)
(* one element after the other; that the choice does not matter is shown   *)
(* by the smallest set for which it would.                                 *)

LEMMA SmallestSet ==
  ASSUME NEW S, IsFiniteSet(S), NEW Bad, Bad \subseteq SUBSET S, Bad # {}
  PROVE  \E T \in Bad : \A U \in SUBSET T : U \in Bad => U = T
<1>1. Bad \subseteq FiniteSubsetsOf(S)
  BY FS_FiniteSubsetsOfFinite
<1>2. PICK T \in Bad : \A U \in Bad : <<U, T>> \notin StrictSubsetOrdering(S)
  BY ONLY <1>1, Bad # {}, WFMin, FS_StrictSubsetOrderingWellFounded
<1>3. \A U \in SUBSET T : U \in Bad => U = T
  BY <1>2 DEF StrictSubsetOrdering
<1> QED BY <1>3

\* A sum of w over the subsets of S in which the order does not matter.
Measure(g, w, S) ==
    /\ g \in [SUBSET S -> Nat]
    /\ g[{}] = 0
    /\ \A T \in SUBSET S : \A x \in T : g[T] = w[x] + g[T \ {x}]

LEMMA MeasureWith ==
  ASSUME NEW T, NEW w, NEW x \in T, \A z \in T : w[z] \in Nat, NEW g, Measure(g, w, T \ {x})
  PROVE  \E h : Measure(h, w, T)
<1> DEFINE h == [U \in SUBSET T |-> IF x \in U THEN w[x] + g[U \ {x}] ELSE g[U]]
<1>0. \A U \in SUBSET (T \ {x}) : \A y \in U : g[U] = w[y] + g[U \ {y}]
  BY DEF Measure
<1>1. h \in [SUBSET T -> Nat]
  <2> SUFFICES ASSUME NEW U \in SUBSET T PROVE (IF x \in U THEN w[x] + g[U \ {x}] ELSE g[U]) \in Nat
    OBVIOUS
  <2>1. U \ {x} \in SUBSET (T \ {x}) /\ (x \notin U => U \in SUBSET (T \ {x}))
    OBVIOUS
  <2>2. g[U \ {x}] \in Nat /\ (x \notin U => g[U] \in Nat)
    BY <2>1 DEF Measure
  <2> QED BY <2>2
<1>2. h[{}] = 0
  BY DEF Measure
<1>3. ASSUME NEW U \in SUBSET T, NEW y \in U PROVE h[U] = w[y] + h[U \ {y}]
  <2>1. h[U] = (IF x \in U THEN w[x] + g[U \ {x}] ELSE g[U])
    OBVIOUS
  <2>2. h[U \ {y}] = (IF x \in U \ {y} THEN w[x] + g[(U \ {y}) \ {x}] ELSE g[U \ {y}])
    OBVIOUS
  <2>3. CASE x = y
    BY <2>1, <2>2, <2>3
  <2>4. CASE x # y /\ x \in U
    <3>1. U \ {x} \in SUBSET (T \ {x}) /\ y \in U \ {x} /\ (U \ {x}) \ {y} = (U \ {y}) \ {x}
          /\ (U \ {y}) \ {x} \in SUBSET (T \ {x})
      BY <2>4
    <3>2. g[U \ {x}] = w[y] + g[(U \ {y}) \ {x}]
      BY <3>1, <1>0
    <3>3. g[U \ {x}] \in Nat /\ g[(U \ {y}) \ {x}] \in Nat
      BY <3>1 DEF Measure
    <3>5. h[U] = w[x] + g[U \ {x}] /\ h[U \ {y}] = w[x] + g[(U \ {y}) \ {x}]
      BY <2>1, <2>2, <2>4
    <3>6. w[x] \in Nat /\ w[y] \in Nat
      OBVIOUS
    <3> QED BY <3>2, <3>3, <3>5, <3>6
  <2>5. CASE x \notin U
    <3>1. U \in SUBSET (T \ {x})
      BY <2>5
    <3>2. g[U] = w[y] + g[U \ {y}]
      BY <3>1, <1>0
    <3> QED BY <3>2, <2>1, <2>2, <2>5
  <2> QED BY <2>3, <2>4, <2>5
<1> HIDE DEF h
<1>4. Measure(h, w, T)
  BY <1>1, <1>2, <1>3 DEF Measure
<1> QED BY <1>4

LEMMA MeasureExists ==
  ASSUME NEW S, IsFiniteSet(S), NEW w, \A x \in S : w[x] \in Nat
  PROVE  \E g : Measure(g, w, S)
<1> DEFINE Bad == {T \in SUBSET S : ~ \E g : Measure(g, w, T)}
<1>1. SUFFICES ASSUME Bad # {} PROVE FALSE
  OBVIOUS
<1>2. Bad \subseteq SUBSET S
  OBVIOUS
<1>3. PICK T \in Bad : \A U \in SUBSET T : U \in Bad => U = T
  <2> HIDE DEF Bad
  <2> QED BY <1>1, <1>2, SmallestSet
<1>4. CASE T = {}
  <2> DEFINE g == [U \in SUBSET {} |-> 0]
  <2>1. Measure(g, w, T)
    BY <1>4 DEF Measure
  <2> QED BY <2>1
<1>5. CASE T # {}
  <2>1. PICK x \in T : TRUE
    BY <1>5
  <2>2. T \in SUBSET S /\ T \ {x} \in SUBSET S /\ T \ {x} \in SUBSET T /\ T \ {x} # T
    BY <2>1
  <2>4. T \ {x} \notin Bad
    <3> HIDE DEF Bad
    <3> QED BY <1>3, <2>2
  <2>5. \A z \in T : w[z] \in Nat
    BY <2>2
  <2>3. PICK g : Measure(g, w, T \ {x})
    BY <2>2, <2>4
  <2>6. \E h : Measure(h, w, T)
    BY <2>3, <2>5, MeasureWith
  <2> QED BY <2>6
<1> QED BY <1>4, <1>5

LEMMA MeasureIsSum ==
  ASSUME NEW S, IsFiniteSet(S), NEW w, NEW g, Measure(g, w, S)
  PROVE  SumFunctionOnSet(w, S) = g[S]
<1> DEFINE Taken(T) == CHOOSE x \in T : TRUE
           Step(f) == [T \in SUBSET S |-> IF T = {} THEN 0 ELSE w[Taken(T)] + f[T \ {Taken(T)}]]
           f == CHOOSE f : f = Step(f)
<1>1. SumFunctionOnSet(w, S) = f[S]
  BY DEF SumFunctionOnSet, FoldFunctionOnSet, MapThenFoldSet
<1>2. ASSUME NEW T \in SUBSET S, T # {} PROVE Taken(T) \in T
  BY <1>2
<1> HIDE DEF Taken
<1>3. g = Step(g)
  <2>1. ASSUME NEW T \in SUBSET S
        PROVE  g[T] = (IF T = {} THEN 0 ELSE w[Taken(T)] + g[T \ {Taken(T)}])
    BY <1>2 DEF Measure
  <2> QED BY <2>1 DEF Measure
<1>4. f = Step(f)
  BY <1>3
<1> HIDE DEF f
<1> DEFINE Bad == {T \in SUBSET S : f[T] # g[T]}
<1>5. Bad = {}
  <2>1. SUFFICES ASSUME Bad # {} PROVE FALSE
    OBVIOUS
  <2>2. Bad \subseteq SUBSET S
    OBVIOUS
  <2>3. PICK T \in Bad : \A U \in SUBSET T : U \in Bad => U = T
    <3> HIDE DEF Bad
    <3> QED BY <2>1, <2>2, SmallestSet
  <2>4. f[T] = (IF T = {} THEN 0 ELSE w[Taken(T)] + f[T \ {Taken(T)}])
    BY <1>4, <2>2
  <2>5. g[T] = (IF T = {} THEN 0 ELSE w[Taken(T)] + g[T \ {Taken(T)}])
    BY <1>3, <2>2
  <2>6. T # {}
    BY <2>4, <2>5, <2>3
  <2>7. T \ {Taken(T)} \in SUBSET T /\ T \ {Taken(T)} # T /\ T \ {Taken(T)} \in SUBSET S
    BY <2>6, <1>2
  <2>8. f[T \ {Taken(T)}] = g[T \ {Taken(T)}]
    BY <2>7, <2>3
  <2> QED BY <2>3, <2>4, <2>5, <2>8
<1>6. f[S] = g[S]
  BY <1>5
<1> QED BY <1>1, <1>6

\* What a sum is on all subsets of a finite set.
LEMMA SumIsMeasure ==
  ASSUME NEW S, IsFiniteSet(S), NEW w, \A x \in S : w[x] \in Nat
  PROVE  \E g : Measure(g, w, S) /\ \A T \in SUBSET S : SumFunctionOnSet(w, T) = g[T]
<1>1. PICK g : Measure(g, w, S)
  BY MeasureExists
<1>2. ASSUME NEW T \in SUBSET S PROVE SumFunctionOnSet(w, T) = g[T]
  <2> DEFINE h == [U \in SUBSET T |-> g[U]]
  <2>1. IsFiniteSet(T)
    BY FS_Subset
  <2>2. SUBSET T \subseteq SUBSET S
    OBVIOUS
  <2>3. \A U \in SUBSET S : g[U] \in Nat /\ \A x \in U : g[U] = w[x] + g[U \ {x}]
    BY <1>1 DEF Measure
  <2>4. h \in [SUBSET T -> Nat]
    BY <2>2, <2>3
  <2>5. h[{}] = 0
    BY <1>1 DEF Measure
  <2>6. ASSUME NEW U \in SUBSET T, NEW x \in U PROVE h[U] = w[x] + h[U \ {x}]
    <3>1. U \ {x} \in SUBSET T
      OBVIOUS
    <3> QED BY <3>1, <2>2, <2>3
  <2>7. Measure(h, w, T)
    <3> HIDE DEF h
    <3> QED BY <2>4, <2>5, <2>6 DEF Measure
  <2>8. SumFunctionOnSet(w, T) = h[T]
    <3> HIDE DEF h
    <3> QED BY <2>1, <2>7, MeasureIsSum
  <2> QED BY <2>8
<1> QED BY <1>1, <1>2

LEMMA SumSteps ==
  ASSUME NEW S, IsFiniteSet(S), NEW w, \A x \in S : w[x] \in Nat
  PROVE  /\ \A T \in SUBSET S : SumFunctionOnSet(w, T) \in Nat
         /\ SumFunctionOnSet(w, {}) = 0
         /\ \A T \in SUBSET S : \A x \in T :
              SumFunctionOnSet(w, T) = w[x] + SumFunctionOnSet(w, T \ {x})
<1>1. PICK g : Measure(g, w, S) /\ \A T \in SUBSET S : SumFunctionOnSet(w, T) = g[T]
  BY SumIsMeasure
<1>2. \A T \in SUBSET S : g[T] \in Nat /\ \A x \in T : g[T] = w[x] + g[T \ {x}]
  BY <1>1 DEF Measure
<1>3. g[{}] = 0 /\ {} \in SUBSET S
  BY <1>1 DEF Measure
<1>4. ASSUME NEW T \in SUBSET S, NEW x \in T
      PROVE  SumFunctionOnSet(w, T) = w[x] + SumFunctionOnSet(w, T \ {x})
  <2>1. T \ {x} \in SUBSET S
    OBVIOUS
  <2> QED BY <2>1, <1>1, <1>2
<1>5. SumFunctionOnSet(w, {}) = 0
  BY <1>1, <1>3
<1>6. \A T \in SUBSET S : SumFunctionOnSet(w, T) \in Nat
  BY <1>1, <1>2
<1> QED BY <1>4, <1>5, <1>6

\* Only the values on the set count.
LEMMA SumSame ==
  ASSUME NEW S, IsFiniteSet(S), NEW v, NEW w, \A x \in S : w[x] \in Nat /\ v[x] = w[x]
  PROVE  SumFunctionOnSet(v, S) = SumFunctionOnSet(w, S)
<1>1. PICK g : Measure(g, w, S)
  BY MeasureExists
<1>2. Measure(g, v, S)
  <2>1. \A T \in SUBSET S : \A x \in T : x \in S /\ g[T] = w[x] + g[T \ {x}]
    BY <1>1 DEF Measure
  <2>2. \A T \in SUBSET S : \A x \in T : g[T] = v[x] + g[T \ {x}]
    BY <2>1
  <2> QED BY <2>2, <1>1 DEF Measure
<1> QED BY <1>1, <1>2, MeasureIsSum

\* One value changes.
LEMMA SumChange ==
  ASSUME NEW S, IsFiniteSet(S), NEW v, NEW w, NEW y \in S,
         \A x \in S : v[x] \in Nat /\ w[x] \in Nat,
         \A x \in S \ {y} : v[x] = w[x]
  PROVE  SumFunctionOnSet(v, S) = SumFunctionOnSet(w, S) - w[y] + v[y]
<1>1. IsFiniteSet(S \ {y}) /\ S \in SUBSET S /\ S \ {y} \in SUBSET S
  BY FS_Subset
<1>2. SumFunctionOnSet(v, S \ {y}) = SumFunctionOnSet(w, S \ {y})
  BY <1>1, SumSame
<1>3. SumFunctionOnSet(v, S) = v[y] + SumFunctionOnSet(v, S \ {y})
  BY <1>1, SumSteps
<1>4. SumFunctionOnSet(w, S) = w[y] + SumFunctionOnSet(w, S \ {y})
  BY <1>1, SumSteps
<1>5. SumFunctionOnSet(w, S \ {y}) \in Nat
  BY <1>1, SumSteps
<1>6. v[y] \in Nat /\ w[y] \in Nat
  OBVIOUS
<1> QED BY <1>2, <1>3, <1>4, <1>5, <1>6

\* A set and the rest.
LEMMA SumParts ==
  ASSUME NEW S, IsFiniteSet(S), NEW w, \A x \in S : w[x] \in Nat, NEW T \in SUBSET S
  PROVE  SumFunctionOnSet(w, S) = SumFunctionOnSet(w, T) + SumFunctionOnSet(w, S \ T)
<1> DEFINE Sum(U) == SumFunctionOnSet(w, U)
           Bad == {U \in SUBSET S : Sum(S) # Sum(U) + Sum(S \ U)}
<1>0. /\ \A U \in SUBSET S : Sum(U) \in Nat
      /\ Sum({}) = 0
      /\ \A U \in SUBSET S : \A x \in U : Sum(U) = w[x] + Sum(U \ {x})
  BY SumSteps
<1> HIDE DEF Sum
<1>1. SUFFICES ASSUME Bad # {} PROVE FALSE
  BY DEF Sum
<1>2. PICK U \in Bad : \A V \in SUBSET U : V \in Bad => V = U
  <2>1. Bad \subseteq SUBSET S
    OBVIOUS
  <2> HIDE DEF Bad
  <2> QED BY <1>1, <2>1, SmallestSet
<1>3. U \in SUBSET S /\ Sum(S) # Sum(U) + Sum(S \ U)
  OBVIOUS
<1>4. S \in SUBSET S /\ S \ {} = S /\ Sum(S) \in Nat
  BY <1>0
<1>5. U # {}
  <2>1. Sum(S) = Sum({}) + Sum(S \ {})
    BY <1>0, <1>4
  <2> QED BY <2>1, <1>3
<1>6. PICK x \in U : TRUE
  BY <1>5
<1>7. /\ U \ {x} \in SUBSET S /\ U \ {x} \in SUBSET U /\ U \ {x} # U
      /\ S \ U \in SUBSET S /\ S \ (U \ {x}) \in SUBSET S
      /\ x \in S \ (U \ {x}) /\ (S \ (U \ {x})) \ {x} = S \ U
  BY <1>3, <1>6
<1>8. U \ {x} \notin Bad
  <2> HIDE DEF Bad
  <2> QED BY <1>2, <1>7
<1>9. Sum(S) = Sum(U \ {x}) + Sum(S \ (U \ {x}))
  BY <1>7, <1>8
<1>10. Sum(U) = w[x] + Sum(U \ {x}) /\ Sum(S \ (U \ {x})) = w[x] + Sum(S \ U)
  BY <1>0, <1>3, <1>6, <1>7
<1>11. w[x] \in Nat /\ Sum(U \ {x}) \in Nat /\ Sum(S \ U) \in Nat
  BY <1>0, <1>3, <1>6, <1>7
<1> QED BY <1>3, <1>9, <1>10, <1>11

\* Summed over the values of an injection or over its arguments.
LEMMA SumRenamed ==
  ASSUME NEW J, IsFiniteSet(J), NEW f, \A i, j \in J : f[i] = f[j] => i = j,
         NEW v, NEW w, \A j \in J : v[j] \in Nat /\ v[j] = w[f[j]]
  PROVE  SumFunctionOnSet(v, J) = SumFunctionOnSet(w, {f[j] : j \in J})
<1> DEFINE Image(I) == {f[j] : j \in I}
           Left(I) == SumFunctionOnSet(v, I)
           Right(I) == SumFunctionOnSet(w, Image(I))
           Bad == {I \in SUBSET J : Left(I) # Right(I)}
<1>1. IsFiniteSet(Image(J))
  <2> DEFINE g == [j \in J |-> f[j]]
  <2>1. g \in Surjection(J, Image(J))
    BY DEF Surjection
  <2> QED BY <2>1, FS_Surjection
<1>2. \A y \in Image(J) : w[y] \in Nat
  OBVIOUS
<1>3. /\ \A I \in SUBSET J : Left(I) \in Nat
      /\ Left({}) = 0
      /\ \A I \in SUBSET J : \A j \in I : Left(I) = v[j] + Left(I \ {j})
  BY SumSteps
<1>4. /\ SumFunctionOnSet(w, {}) = 0
      /\ \A K \in SUBSET Image(J) : \A y \in K :
           SumFunctionOnSet(w, K) = w[y] + SumFunctionOnSet(w, K \ {y})
  <2> HIDE DEF Image
  <2> QED BY <1>1, <1>2, SumSteps
<1>5. Image({}) = {}
  OBVIOUS
<1>6. Right({}) = 0
  BY <1>4, <1>5
<1>7. ASSUME NEW I \in SUBSET J, NEW j \in I
      PROVE  Right(I) = v[j] + Right(I \ {j})
  <2>1. Image(I) \in SUBSET Image(J) /\ f[j] \in Image(I)
    OBVIOUS
  <2>2. Image(I) \ {f[j]} = Image(I \ {j})
    OBVIOUS
  <2>3. v[j] = w[f[j]]
    OBVIOUS
  <2>4. SumFunctionOnSet(w, Image(I)) = w[f[j]] + SumFunctionOnSet(w, Image(I) \ {f[j]})
    <3> HIDE DEF Image
    <3> QED BY <2>1, <1>4
  <2>5. SumFunctionOnSet(w, Image(I)) = v[j] + SumFunctionOnSet(w, Image(I \ {j}))
    <3> HIDE DEF Image
    <3> QED BY <2>2, <2>3, <2>4
  <2> QED BY <2>5
<1> HIDE DEF Left, Right
<1>8. Bad = {}
  <2>1. SUFFICES ASSUME Bad # {} PROVE FALSE
    OBVIOUS
  <2>2. PICK I \in Bad : \A K \in SUBSET I : K \in Bad => K = I
    <3>1. Bad \subseteq SUBSET J
      OBVIOUS
    <3> HIDE DEF Bad
    <3> QED BY <2>1, <3>1, SmallestSet
  <2>3. I \in SUBSET J /\ Left(I) # Right(I)
    OBVIOUS
  <2>4. PICK j \in I : TRUE
    BY <2>3, <1>3, <1>6
  <2>5. I \ {j} \in SUBSET J /\ I \ {j} \in SUBSET I /\ I \ {j} # I
    BY <2>3, <2>4
  <2>6. I \ {j} \notin Bad
    <3> HIDE DEF Bad
    <3> QED BY <2>2, <2>5
  <2>7. Left(I \ {j}) = Right(I \ {j})
    BY <2>5, <2>6
  <2>8. Left(I) = v[j] + Left(I \ {j})
    BY <2>3, <1>3
  <2>9. Right(I) = v[j] + Right(I \ {j})
    BY <2>3, <1>7
  <2> QED BY <2>3, <2>7, <2>8, <2>9
<1>9. J \in SUBSET J
  OBVIOUS
<1>10. Left(J) = Right(J)
  BY <1>8, <1>9
<1> QED BY <1>10 DEF Left, Right

\* Nothing summed is more than the sum.
LEMMA SumCovers ==
  ASSUME NEW S, IsFiniteSet(S), NEW w, \A x \in S : w[x] \in Nat, NEW y \in S
  PROVE  w[y] <= SumFunctionOnSet(w, S)
<1>1. S \in SUBSET S /\ S \ {y} \in SUBSET S
  OBVIOUS
<1>2. SumFunctionOnSet(w, S) = w[y] + SumFunctionOnSet(w, S \ {y})
  BY <1>1, SumSteps
<1>3. SumFunctionOnSet(w, S \ {y}) \in Nat
  BY <1>1, SumSteps
<1> QED BY <1>2, <1>3

\* A sum of values up to c.
LEMMA SumBound ==
  ASSUME NEW S, IsFiniteSet(S), NEW w, NEW c \in Nat, \A x \in S : w[x] \in 0..c
  PROVE  SumFunctionOnSet(w, S) <= c * Cardinality(S)
<1> DEFINE Sum(T) == SumFunctionOnSet(w, T)
           Bad == {T \in SUBSET S : ~(Sum(T) <= c * Cardinality(T))}
<1>1. /\ \A T \in SUBSET S : Sum(T) \in Nat
      /\ Sum({}) = 0
      /\ \A T \in SUBSET S : \A x \in T : Sum(T) = w[x] + Sum(T \ {x})
  <2>1. \A x \in S : w[x] \in Nat
    OBVIOUS
  <2> QED BY <2>1, SumSteps
<1> HIDE DEF Sum
<1>2. Bad = {}
  <2>1. SUFFICES ASSUME Bad # {} PROVE FALSE
    OBVIOUS
  <2>2. PICK T \in Bad : \A U \in SUBSET T : U \in Bad => U = T
    <3>1. Bad \subseteq SUBSET S
      OBVIOUS
    <3> HIDE DEF Bad
    <3> QED BY <2>1, <3>1, SmallestSet
  <2>3. T \in SUBSET S /\ ~(Sum(T) <= c * Cardinality(T))
    OBVIOUS
  <2>4. T # {}
    <3>1. c * Cardinality({}) = 0
      BY FS_EmptySet
    <3> QED BY <2>3, <3>1, <1>1
  <2>5. PICK x \in T : TRUE
    BY <2>4
  <2>6. T \ {x} \in SUBSET S /\ T \ {x} \in SUBSET T /\ T \ {x} # T
    BY <2>3, <2>5
  <2>7. T \ {x} \notin Bad
    <3> HIDE DEF Bad
    <3> QED BY <2>2, <2>6
  <2>8. Sum(T \ {x}) <= c * Cardinality(T \ {x})
    BY <2>6, <2>7
  <2>9. IsFiniteSet(T) /\ Cardinality(T) \in Nat /\ Cardinality(T \ {x}) = Cardinality(T) - 1
    BY <2>3, <2>5, FS_Subset, FS_CardinalityType, FS_RemoveElement
  <2>10. c * (Cardinality(T) - 1) = c * Cardinality(T) - c
    BY <2>9
  <2>11. Sum(T) = w[x] + Sum(T \ {x}) /\ Sum(T \ {x}) \in Nat /\ w[x] \in 0..c
    BY <1>1, <2>3, <2>6
  <2>12. c * Cardinality(T) \in Nat
    BY <2>9
  <2>13. Sum(T \ {x}) <= c * Cardinality(T) - c
    BY <2>8, <2>9, <2>10
  <2> QED BY <2>3, <2>11, <2>12, <2>13
<1>3. S \in SUBSET S
  OBVIOUS
<1>4. Sum(S) <= c * Cardinality(S)
  BY <1>2, <1>3
<1> QED BY <1>4 DEF Sum

-----------------------------------------------------------------------------
(* Sequences of instructions.                                              *)

Code  == {"table", "find", "slot", "read", "spill", "write", "parse", "put"}
Instr == [do : Code, key : [ver : Nat, layer : Layers]]

\* What needs a slot, and what may begin a listing or end one.
Touch == {"read", "spill", "write", "parse"}
Calls == {"table", "find", "put"}

\* All that touches the archive comes after a slot.
Gated(w) ==
    \A j \in 1..Len(w) : w[j].do \in Touch => \E i \in 1..(j - 1) : w[i].do = "slot"

\* What the listing before the j-th instruction has been read for.
ReadBefore(w, j) ==
    \E i \in 1..(j - 1) :
        w[i].do = "read" /\ \A l \in (i + 1)..(j - 1) : w[l].do \notin Calls

\* Every table that is put was read by the same listing.
SelfFed(w) ==
    \A j \in 1..Len(w) : w[j].do = "put" => ReadBefore(w, j)

\* The same while a listing is under way that has read the version seen.
Fed(w, seen, began) ==
    \A j \in 1..Len(w) : w[j].do = "put" =>
        \/ ReadBefore(w, j)
        \/ /\ seen >= began /\ seen >= w[j].key.ver
           /\ \A l \in 1..(j - 1) : w[l].do \notin Calls

\* No key is of the future, and none that is looked up is of the past.
Dated(w, began, now) ==
    \A j \in 1..Len(w) :
        /\ w[j].key.ver <= now
        /\ w[j].do = "find" => w[j].key.ver >= began

LEMMA Depth == MaxDepth \in Nat \ {0} /\ MaxVersion \in Nat \ {0} /\ MaxConcurrent \in Nat \ {0}
BY BoundAssumption

LEMMA Joined ==
    ASSUME NEW S, NEW a \in Seq(S), NEW b \in Seq(S)
    PROVE  /\ a \o b \in Seq(S) /\ Len(a \o b) = Len(a) + Len(b)
           /\ \A j \in 1..Len(a) : (a \o b)[j] = a[j]
           /\ \A j \in 1..Len(b) : (a \o b)[Len(a) + j] = b[j]
OBVIOUS

LEMMA Single ==
    ASSUME NEW i \in Layers, NEW v \in Nat
    PROVE  /\ Table(i) \in Instr /\ Slot \in Instr /\ Read \in Instr /\ Spill(i) \in Instr
           /\ Write \in Instr /\ Find(Key(v, i)) \in Instr
           /\ Parse(Key(v, i)) \in Instr /\ Put(Key(v, i)) \in Instr
BY Depth DEF Table, Slot, Read, Spill, Write, Find, Parse, Put, Key, Instr, Code, Layers

LEMMA ParentsType ==
    ASSUME NEW i \in Layers
    PROVE  /\ Parents(i) \in Seq(Instr) /\ Len(Parents(i)) = 2 * i
           /\ \A j \in 1..(2 * i) : /\ Parents(i)[j].do \in {"table", "slot"}
                                    /\ Parents(i)[j].key.ver = 0
<1>0. i \in Nat /\ i <= MaxDepth /\ MaxDepth \in Nat
  BY Depth DEF Layers
<1>1. ASSUME NEW j \in 1..(2 * i), j % 2 = 1
      PROVE  i - 1 - j \div 2 \in Layers
  BY <1>0, <1>1 DEF Layers
<1>2. \A j \in 1..(2 * i) : Parents(i)[j] \in Instr
  BY <1>0, <1>1, Single DEF Parents
<1>3. /\ Parents(i) = [j \in 1..(2 * i) |-> Parents(i)[j]]
      /\ 2 * i \in Nat
  BY <1>0 DEF Parents
<1>4. Parents(i) \in Seq(Instr) /\ Len(Parents(i)) = 2 * i
  BY <1>2, <1>3
<1>5. \A j \in 1..(2 * i) : /\ Parents(i)[j].do \in {"table", "slot"}
                            /\ Parents(i)[j].key.ver = 0
  BY <1>0 DEF Parents, Table, Slot, Key
<1> QED BY <1>4, <1>5

LEMMA BytesType ==
    ASSUME NEW i \in Layers
    PROVE  /\ Bytes(i) \in Seq(Instr) /\ Len(Bytes(i)) = 3 * i + 1
           /\ \A j \in 1..(2 * i) : Bytes(i)[j].do \in {"table", "slot"}
           /\ Bytes(i)[2 * i + 1].do = "read"
           /\ \A j \in (2 * i + 2)..(3 * i + 1) : Bytes(i)[j].do = "spill"
           /\ \A j \in 1..(3 * i + 1) : Bytes(i)[j].key.ver = 0
<1> DEFINE up == [j \in 1..i |-> Spill(j)]
<1>0. i \in Nat /\ i <= MaxDepth /\ MaxDepth \in Nat
  BY Depth DEF Layers
<1>1. /\ up \in Seq(Instr) /\ Len(up) = i
      /\ \A j \in 1..i : up[j].do = "spill" /\ up[j].key.ver = 0
  <2>1. \A j \in 1..i : up[j] = Spill(j) /\ Spill(j) \in Instr
    BY <1>0, Single DEF Layers
  <2> QED BY <1>0, <2>1 DEF Spill, Key
<1>2. Read \in Instr /\ Read.do = "read" /\ Read.key.ver = 0
  BY Single, 0 \in Nat DEF Read, Key
<1> HIDE DEF up
<1>3. Bytes(i) = Parents(i) \o <<Read>> \o up
  BY DEF Bytes, up
<1> DEFINE deep == Parents(i) \o <<Read>>
<1>4. /\ deep \in Seq(Instr) /\ Len(deep) = 2 * i + 1
      /\ \A j \in 1..(2 * i) : deep[j] = Parents(i)[j]
      /\ deep[2 * i + 1] = Read
  BY <1>0, <1>2, ParentsType
<1> HIDE DEF deep
<1>5. Bytes(i) = deep \o up
  BY <1>3 DEF deep
<1>6. /\ Bytes(i) \in Seq(Instr) /\ Len(Bytes(i)) = 3 * i + 1
      /\ \A j \in 1..(2 * i + 1) : Bytes(i)[j] = deep[j]
  <2>1. deep \in Seq(Instr) /\ up \in Seq(Instr)
    BY <1>1, <1>4
  <2>2. /\ deep \o up \in Seq(Instr) /\ Len(deep \o up) = Len(deep) + Len(up)
        /\ \A j \in 1..Len(deep) : (deep \o up)[j] = deep[j]
    BY <2>1, Joined
  <2>3. Len(deep) = 2 * i + 1 /\ Len(up) = i
    BY <1>1, <1>4
  <2>4. Len(deep) + Len(up) = 3 * i + 1
    BY <1>0, <2>3
  <2> QED BY <1>5, <2>2, <2>3, <2>4
<1>7. ASSUME NEW j \in (2 * i + 2)..(3 * i + 1)
      PROVE  /\ j - (2 * i + 1) \in 1..i
             /\ Bytes(i)[j] = up[j - (2 * i + 1)]
  <2> DEFINE k == j - (2 * i + 1)
  <2>1. deep \in Seq(Instr) /\ up \in Seq(Instr) /\ Len(deep) = 2 * i + 1 /\ Len(up) = i
    BY <1>1, <1>4
  <2>2. k \in 1..i /\ (2 * i + 1) + k = j
    <3> DEFINE m == 2 * i + 1
    <3>1. m \in Nat /\ i \in Nat /\ j \in (m + 1)..(m + i) /\ k = j - m
      BY <1>0
    <3> HIDE DEF m, k
    <3>2. k \in 1..i /\ m + k = j
      BY <3>1
    <3> QED BY <3>2 DEF m
  <2> HIDE DEF k
  <2>3. (deep \o up)[(2 * i + 1) + k] = up[k]
    <3> DEFINE a == deep
               b == up
    <3>2. a \in Seq(Instr) /\ b \in Seq(Instr)
      BY <2>1
    <3> HIDE DEF a, b
    <3>3. \A l \in 1..Len(b) : (a \o b)[Len(a) + l] = b[l]
      BY <3>2
    <3>1. \A l \in 1..Len(up) : (deep \o up)[Len(deep) + l] = up[l]
      BY <3>3 DEF a, b
    <3> QED BY <2>1, <2>2, <3>1
  <2>4. k \in 1..i /\ Bytes(i)[j] = up[k]
    BY <1>5, <2>2, <2>3
  <2> QED BY <2>4 DEF k
<1>8. \A j \in 1..(2 * i) : /\ Bytes(i)[j].do \in {"table", "slot"}
                            /\ Bytes(i)[j].key.ver = 0
  <2>1. \A j \in 1..(2 * i) : j \in 1..(2 * i + 1)
    BY <1>0
  <2>2. \A j \in 1..(2 * i) : Bytes(i)[j] = Parents(i)[j]
    BY <1>4, <1>6, <2>1
  <2> QED BY <2>2, ParentsType
<1>9. Bytes(i)[2 * i + 1].do = "read" /\ Bytes(i)[2 * i + 1].key.ver = 0
  BY <1>0, <1>2, <1>4, <1>6
<1>10. \A j \in (2 * i + 2)..(3 * i + 1) :
          Bytes(i)[j].do = "spill" /\ Bytes(i)[j].key.ver = 0
  BY <1>1, <1>7
<1>11. \A j \in 1..(3 * i + 1) :
          j \in 1..(2 * i) \/ j = 2 * i + 1 \/ j \in (2 * i + 2)..(3 * i + 1)
  BY <1>0
<1> QED BY <1>6, <1>8, <1>9, <1>10, <1>11
-----------------------------------------------------------------------------
(* What is known of a sequence stays known of its rest and of two joined.  *)

LEMMA Rest ==
    ASSUME NEW w \in Seq(Instr), w # <<>>
    PROVE  /\ Tail(w) \in Seq(Instr) /\ Len(w) \in Nat \ {0} /\ Len(Tail(w)) = Len(w) - 1
           /\ Head(w) = w[1] /\ w[1] \in Instr
           /\ \A j \in 1..(Len(w) - 1) : Tail(w)[j] = w[j + 1]
OBVIOUS

LEMMA RestGated ==
    ASSUME NEW w \in Seq(Instr), w # <<>>, Gated(w), Head(w).do # "slot"
    PROVE  Gated(Tail(w))
<1> SUFFICES ASSUME NEW j \in 1..Len(Tail(w)), Tail(w)[j].do \in Touch
             PROVE  \E i \in 1..(j - 1) : Tail(w)[i].do = "slot"
  BY DEF Gated
<1>1. j + 1 \in 1..Len(w) /\ w[j + 1].do \in Touch
  BY Rest
<1>2. PICK i \in 1..j : w[i].do = "slot"
  BY <1>1 DEF Gated
<1>3. i # 1 /\ i - 1 \in 1..(j - 1)
  BY <1>2, Rest
<1>4. Tail(w)[i - 1].do = "slot"
  BY <1>2, <1>3, Rest
<1> QED BY <1>3, <1>4

LEMMA JoinedGated ==
    ASSUME NEW a \in Seq(Instr), NEW b \in Seq(Instr), Gated(a), Gated(b)
    PROVE  Gated(a \o b)
<1> SUFFICES ASSUME NEW j \in 1..Len(a \o b), (a \o b)[j].do \in Touch
             PROVE  \E i \in 1..(j - 1) : (a \o b)[i].do = "slot"
  BY DEF Gated
<1>0. Len(a) \in Nat /\ Len(b) \in Nat
  OBVIOUS
<1>1. CASE j <= Len(a)
  <2>1. j \in 1..Len(a) /\ a[j].do \in Touch
    BY <1>0, <1>1, Joined
  <2>2. PICK i \in 1..(j - 1) : a[i].do = "slot"
    BY <2>1 DEF Gated
  <2>3. i \in 1..Len(a)
    BY <1>0, <2>1, <2>2
  <2> QED BY <2>2, <2>3, Joined
<1>2. CASE j > Len(a)
  <2> DEFINE k == j - Len(a)
  <2>1. k \in 1..Len(b) /\ j = Len(a) + k
    BY <1>0, <1>2, Joined
  <2>2. b[k].do \in Touch
    BY <2>1, Joined
  <2>3. PICK i \in 1..(k - 1) : b[i].do = "slot"
    BY <2>1, <2>2 DEF Gated
  <2>4. i \in 1..Len(b) /\ Len(a) + i \in 1..(j - 1)
    BY <1>0, <2>1, <2>3
  <2>5. (a \o b)[Len(a) + i].do = "slot"
    BY <2>3, <2>4, Joined
  <2> QED BY <2>4, <2>5
<1> QED BY <1>1, <1>2

\* After a call only what reads for itself is put.
LEMMA RestSelfFed ==
    ASSUME NEW w \in Seq(Instr), w # <<>>, NEW s \in Nat, NEW n \in Nat, Fed(w, s, n),
           Head(w).do \in Calls
    PROVE  SelfFed(Tail(w))
<1> SUFFICES ASSUME NEW j \in 1..Len(Tail(w)), Tail(w)[j].do = "put"
             PROVE  ReadBefore(Tail(w), j)
  BY DEF SelfFed
<1>1. j + 1 \in 1..Len(w) /\ w[j + 1].do = "put" /\ 1 \in 1..j /\ w[1].do \in Calls
  BY Rest
<1>2. ReadBefore(w, j + 1)
  BY <1>1 DEF Fed
<1>3. PICK i \in 1..j : /\ w[i].do = "read"
                        /\ \A l \in (i + 1)..j : w[l].do \notin Calls
  BY <1>2 DEF ReadBefore
<1>4. i # 1 /\ i - 1 \in 1..(j - 1)
  BY <1>1, <1>3 DEF Calls
<1>5. Tail(w)[i - 1].do = "read"
  BY <1>3, <1>4, Rest
<1>6. ASSUME NEW l \in ((i - 1) + 1)..(j - 1)
      PROVE  Tail(w)[l].do \notin Calls
  <2>1. l + 1 \in (i + 1)..j /\ l \in 1..(Len(w) - 1)
    BY <1>1, <1>3, <1>4
  <2> QED BY <1>3, <2>1, Rest
<1> QED BY <1>4, <1>5, <1>6 DEF ReadBefore

\* A step that neither calls nor reads leaves what is fed.
LEMMA RestFed ==
    ASSUME NEW w \in Seq(Instr), w # <<>>, NEW s \in Nat, NEW n \in Nat, Fed(w, s, n),
           Head(w).do # "read"
    PROVE  Fed(Tail(w), s, n)
<1> SUFFICES ASSUME NEW j \in 1..Len(Tail(w)), Tail(w)[j].do = "put",
                    ~ReadBefore(Tail(w), j)
             PROVE  /\ s >= n /\ s >= Tail(w)[j].key.ver
                    /\ \A l \in 1..(j - 1) : Tail(w)[l].do \notin Calls
  BY DEF Fed
<1>1. j + 1 \in 1..Len(w) /\ w[j + 1].do = "put" /\ Tail(w)[j] = w[j + 1]
  BY Rest
<1>2. ~ReadBefore(w, j + 1)
  <2> SUFFICES ASSUME NEW i \in 1..j, w[i].do = "read",
                      \A l \in (i + 1)..j : w[l].do \notin Calls
               PROVE  FALSE
    BY DEF ReadBefore
  <2>1. i # 1 /\ i - 1 \in 1..(j - 1) /\ i - 1 \in 1..(Len(w) - 1)
    BY <1>1, Rest
  <2>2. Tail(w)[i - 1].do = "read"
    BY <2>1, Rest
  <2>3. ASSUME NEW l \in ((i - 1) + 1)..(j - 1)
        PROVE  Tail(w)[l].do \notin Calls
    <3>1. l + 1 \in (i + 1)..j /\ l \in 1..(Len(w) - 1)
      BY <1>1, <2>1
    <3> QED BY <3>1, Rest
  <2> QED BY <2>1, <2>2, <2>3 DEF ReadBefore
<1>3. /\ s >= n /\ s >= w[j + 1].key.ver
      /\ \A l \in 1..j : w[l].do \notin Calls
  BY <1>1, <1>2 DEF Fed
<1>4. \A l \in 1..(j - 1) : l + 1 \in 1..j /\ Tail(w)[l] = w[l + 1]
  BY <1>1, Rest
<1> QED BY <1>1, <1>3, <1>4

\* Once the archive is open, the listing under way is of what is there now.
LEMMA RestRead ==
    ASSUME NEW w \in Seq(Instr), w # <<>>, NEW s \in Nat, NEW n \in Nat, Fed(w, s, n),
           NEW now \in Nat, n <= now, Dated(w, n, now)
    PROVE  Fed(Tail(w), now, n)
<1> SUFFICES ASSUME NEW j \in 1..Len(Tail(w)), Tail(w)[j].do = "put",
                    ~ReadBefore(Tail(w), j)
             PROVE  /\ now >= n /\ now >= Tail(w)[j].key.ver
                    /\ \A l \in 1..(j - 1) : Tail(w)[l].do \notin Calls
  BY DEF Fed
<1>1. j + 1 \in 1..Len(w) /\ w[j + 1].do = "put" /\ Tail(w)[j] = w[j + 1]
  BY Rest
<1>2. now >= Tail(w)[j].key.ver
  <2>1. w[j + 1] \in Instr /\ w[j + 1].key.ver <= now
    BY <1>1 DEF Dated
  <2> QED BY <1>1, <2>1 DEF Instr
<1>3. \A l \in 1..(j - 1) : l + 1 \in 2..j /\ Tail(w)[l] = w[l + 1]
  BY <1>1, Rest
<1>4. CASE ReadBefore(w, j + 1)
  <2>1. PICK i \in 1..j : /\ w[i].do = "read"
                          /\ \A l \in (i + 1)..j : w[l].do \notin Calls
    BY <1>4 DEF ReadBefore
  <2>2. CASE i = 1
    BY <1>2, <1>3, <2>1, <2>2
  <2>3. CASE i # 1
    <3>1. i - 1 \in 1..(j - 1) /\ i - 1 \in 1..(Len(w) - 1)
      BY <1>1, <2>3, Rest
    <3>2. Tail(w)[i - 1].do = "read"
      BY <2>1, <3>1, Rest
    <3>3. ASSUME NEW l \in ((i - 1) + 1)..(j - 1)
          PROVE  Tail(w)[l].do \notin Calls
      <4>1. l + 1 \in (i + 1)..j /\ l \in 1..(Len(w) - 1)
        BY <1>1, <3>1
      <4> QED BY <2>1, <4>1, Rest
    <3> QED BY <3>1, <3>2, <3>3 DEF ReadBefore
  <2> QED BY <2>2, <2>3
<1>5. CASE ~ReadBefore(w, j + 1)
  <2>1. \A l \in 1..j : w[l].do \notin Calls
    BY <1>1, <1>5 DEF Fed
  <2> QED BY <1>2, <1>3, <2>1
<1> QED BY <1>4, <1>5

LEMMA JoinedSelfFed ==
    ASSUME NEW a \in Seq(Instr), NEW b \in Seq(Instr), SelfFed(a), SelfFed(b)
    PROVE  SelfFed(a \o b)
<1> SUFFICES ASSUME NEW j \in 1..Len(a \o b), (a \o b)[j].do = "put"
             PROVE  ReadBefore(a \o b, j)
  BY DEF SelfFed
<1>0. Len(a) \in Nat /\ Len(b) \in Nat
  OBVIOUS
<1>1. CASE j <= Len(a)
  <2>1. j \in 1..Len(a) /\ a[j].do = "put"
    BY <1>0, <1>1, Joined
  <2>2. PICK i \in 1..(j - 1) : /\ a[i].do = "read"
                                /\ \A l \in (i + 1)..(j - 1) : a[l].do \notin Calls
    BY <2>1 DEF SelfFed, ReadBefore
  <2>3. /\ i \in 1..Len(a)
        /\ \A l \in (i + 1)..(j - 1) : l \in 1..Len(a)
    BY <1>0, <2>1, <2>2
  <2> QED BY <2>2, <2>3, Joined DEF ReadBefore
<1>2. CASE j > Len(a)
  <2> DEFINE k == j - Len(a)
  <2>1. k \in 1..Len(b) /\ j = Len(a) + k
    BY <1>0, <1>2, Joined
  <2>2. b[k].do = "put"
    BY <2>1, Joined
  <2>3. PICK i \in 1..(k - 1) : /\ b[i].do = "read"
                                /\ \A l \in (i + 1)..(k - 1) : b[l].do \notin Calls
    BY <2>1, <2>2 DEF SelfFed, ReadBefore
  <2>4. i \in 1..Len(b) /\ Len(a) + i \in 1..(j - 1)
    BY <1>0, <2>1, <2>3
  <2>5. (a \o b)[Len(a) + i].do = "read"
    BY <2>3, <2>4, Joined
  <2>6. ASSUME NEW l \in ((Len(a) + i) + 1)..(j - 1)
        PROVE  (a \o b)[l].do \notin Calls
    <3>1. /\ l - Len(a) \in (i + 1)..(k - 1) /\ l - Len(a) \in 1..Len(b)
          /\ l = Len(a) + (l - Len(a))
      BY <1>0, <2>1, <2>4
    <3>2. (a \o b)[l] = b[l - Len(a)]
      BY <3>1, Joined
    <3> QED BY <2>3, <3>1, <3>2
  <2> QED BY <2>4, <2>5, <2>6 DEF ReadBefore
<1> QED BY <1>1, <1>2

LEMMA SelfFedIsFed ==
    ASSUME NEW w, SelfFed(w), NEW s, NEW n
    PROVE  Fed(w, s, n)
BY DEF SelfFed, Fed

LEMMA PushedFed ==
    ASSUME NEW w \in Seq(Instr), NEW s \in Nat, NEW n \in Nat, Fed(w, s, n),
           NEW x \in Instr, x.do = "write"
    PROVE  Fed(<<x>> \o w, s, n)
<1> DEFINE v == <<x>> \o w
<1>1. /\ v \in Seq(Instr) /\ Len(v) = Len(w) + 1 /\ v[1] = x /\ Len(w) \in Nat
      /\ \A j \in 2..Len(v) : v[j] = w[j - 1]
  OBVIOUS
<1> HIDE DEF v
<1> SUFFICES ASSUME NEW j \in 1..Len(v), v[j].do = "put", ~ReadBefore(v, j)
             PROVE  /\ s >= n /\ s >= v[j].key.ver
                    /\ \A l \in 1..(j - 1) : v[l].do \notin Calls
  BY DEF Fed, v
<1>2. j \in 2..Len(v) /\ j - 1 \in 1..Len(w) /\ v[j] = w[j - 1]
  BY <1>1
<1>3. ~ReadBefore(w, j - 1)
  <2> SUFFICES ASSUME NEW i \in 1..((j - 1) - 1), w[i].do = "read",
                      \A l \in (i + 1)..((j - 1) - 1) : w[l].do \notin Calls
               PROVE  FALSE
    BY DEF ReadBefore
  <2>1. i + 1 \in 1..(j - 1) /\ i + 1 \in 2..Len(v) /\ v[i + 1].do = "read"
    <3>1. i + 1 \in 1..(j - 1) /\ i + 1 \in 2..Len(v) /\ (i + 1) - 1 = i
      BY <1>1, <1>2
    <3> QED BY <1>1, <3>1
  <2>2. ASSUME NEW l \in ((i + 1) + 1)..(j - 1)
        PROVE  v[l].do \notin Calls
    <3>1. l - 1 \in (i + 1)..((j - 1) - 1) /\ l \in 2..Len(v)
      BY <1>1, <1>2, <2>1
    <3> QED BY <1>1, <3>1
  <2> QED BY <2>1, <2>2 DEF ReadBefore
<1>4. /\ s >= n /\ s >= w[j - 1].key.ver
      /\ \A l \in 1..((j - 1) - 1) : w[l].do \notin Calls
  BY <1>2, <1>3 DEF Fed
<1>5. ASSUME NEW l \in 1..(j - 1)
      PROVE  v[l].do \notin Calls
  <2>1. CASE l = 1
    BY <1>1, <2>1 DEF Calls
  <2>2. CASE l # 1
    <3>1. l \in 2..Len(v) /\ l - 1 \in 1..((j - 1) - 1)
      BY <1>1, <1>2, <2>2
    <3> QED BY <1>1, <1>4, <3>1
  <2> QED BY <2>1, <2>2
<1> QED BY <1>2, <1>4, <1>5

LEMMA RestDated ==
    ASSUME NEW w \in Seq(Instr), w # <<>>, NEW n \in Nat, NEW now \in Nat, Dated(w, n, now)
    PROVE  Dated(Tail(w), n, now)
<1>1. \A j \in 1..Len(Tail(w)) : j + 1 \in 1..Len(w) /\ Tail(w)[j] = w[j + 1]
  BY Rest
<1> QED BY <1>1 DEF Dated

LEMMA JoinedDated ==
    ASSUME NEW a \in Seq(Instr), NEW b \in Seq(Instr), NEW n \in Nat, NEW now \in Nat,
           Dated(a, n, now), Dated(b, n, now)
    PROVE  Dated(a \o b, n, now)
<1>1. ASSUME NEW j \in 1..Len(a \o b)
      PROVE  \/ j \in 1..Len(a) /\ (a \o b)[j] = a[j]
             \/ \E k \in 1..Len(b) : (a \o b)[j] = b[k]
  <2>1. j \in 1..Len(a) \/ (j - Len(a) \in 1..Len(b) /\ j = Len(a) + (j - Len(a)))
    BY Joined
  <2> QED BY <2>1, Joined
<1> QED BY <1>1 DEF Dated

-----------------------------------------------------------------------------
(* The sequences the operations are made of.                               *)

\* All an operation may have to do: it is typed, it takes a slot before it
\* reads, and it puts what it has read.
Sane(w, now) ==
    w \in Seq(Instr) /\ Gated(w) /\ SelfFed(w) /\ Dated(w, now, now)

LEMMA JoinedSane ==
    ASSUME NEW now \in Nat, NEW a, NEW b, Sane(a, now), Sane(b, now)
    PROVE  Sane(a \o b, now)
BY Joined, JoinedGated, JoinedSelfFed, JoinedDated DEF Sane

LEMMA TablesSane ==
    ASSUME NEW now \in Nat, NEW i \in Layers, NEW k \in 0..(MaxDepth + 1)
    PROVE  Sane(<<Table(i)>>, now) /\ Sane(resolve(k), now)
<1>0. k \in Nat /\ MaxDepth \in Nat
  BY Depth
<1>1. ASSUME NEW j \in 1..k
      PROVE  /\ resolve(k)[j] \in Instr /\ resolve(k)[j].do = "table"
             /\ resolve(k)[j].key.ver = 0
  <2>1. j - 1 \in Layers /\ resolve(k)[j] = Table(j - 1)
    BY <1>0 DEF Layers, resolve
  <2> QED BY <2>1, Single, 0 \in Nat DEF Table, Key
<1>2. resolve(k) \in Seq(Instr) /\ Len(resolve(k)) = k
  BY <1>0, <1>1 DEF resolve
<1>3. Sane(resolve(k), now)
  BY <1>0, <1>1, <1>2 DEF Sane, Gated, SelfFed, Dated, Touch
<1>4. Table(i) \in Instr /\ Table(i).do = "table" /\ Table(i).key.ver = 0
  BY Single, 0 \in Nat DEF Table, Key
<1>5. Sane(<<Table(i)>>, now)
  BY <1>4 DEF Sane, Gated, SelfFed, Dated, Touch
<1> QED BY <1>3, <1>5

\* The bytes of a layer read nothing before the archive and put nothing.
LEMMA BytesSane ==
    ASSUME NEW now \in Nat, NEW i \in Layers
    PROVE  SelfFed(Bytes(i)) /\ Dated(Bytes(i), now, now)
<1>0. i \in Nat
  BY Depth DEF Layers
<1>1. \A j \in 1..(3 * i + 1) :
          j \in 1..(2 * i) \/ j = 2 * i + 1 \/ j \in (2 * i + 2)..(3 * i + 1)
  BY <1>0
<1>2. \A j \in 1..(3 * i + 1) : Bytes(i)[j].do \notin {"put", "find"}
  BY <1>1, BytesType
<1> QED BY <1>2, BytesType DEF SelfFed, Dated

\* What comes after a slot is gated.
LEMMA BehindSlot ==
    ASSUME NEW w \in Seq(Instr), w # <<>>, w[1].do = "slot"
    PROVE  Gated(w)
<1> SUFFICES ASSUME NEW j \in 1..Len(w), w[j].do \in Touch
             PROVE  \E i \in 1..(j - 1) : w[i].do = "slot"
  BY DEF Gated
<1>1. 1 \in 1..(j - 1)
  BY DEF Touch
<1> QED BY <1>1

LEMMA SlotSane ==
    ASSUME NEW now \in Nat, MaxDepth \in Nat
    PROVE  Sane(<<Slot>>, now)
<1>1. Slot \in Instr /\ Slot.do = "slot" /\ Slot.key.ver = 0
  BY Single, 0 \in Layers, 0 \in Nat DEF Slot, Key, Layers
<1> QED BY <1>1 DEF Sane, Gated, SelfFed, Dated, Touch

LEMMA FindSane ==
    ASSUME NEW now \in Nat, NEW i \in Layers
    PROVE  Sane(<<Find(Key(now, i))>>, now)
<1>1. /\ Find(Key(now, i)) \in Instr /\ Find(Key(now, i)).do = "find"
      /\ Find(Key(now, i)).key.ver = now
  BY Single DEF Find, Key
<1> QED BY <1>1 DEF Sane, Gated, SelfFed, Dated, Touch

LEMMA OpenSane ==
    ASSUME NEW now \in Nat, NEW i \in Layers
    PROVE  Sane(openEntryRaw(i), now)
<1> DEFINE a == <<Table(i), Slot>>
<1>1. /\ Table(i) \in Instr /\ Table(i).do = "table" /\ Table(i).key.ver = 0
      /\ Slot \in Instr /\ Slot.do = "slot" /\ Slot.key.ver = 0
  BY Single, 0 \in Nat DEF Table, Slot, Key
<1>2. a \in Seq(Instr) /\ Len(a) = 2 /\ a[1] = Table(i) /\ a[2] = Slot
  BY <1>1
<1>3. SelfFed(a) /\ Dated(a, now, now)
  BY <1>1, <1>2 DEF SelfFed, Dated
<1> HIDE DEF a
<1>4. openEntryRaw(i) = a \o Bytes(i)
  BY DEF openEntryRaw, a
<1>5. /\ openEntryRaw(i) \in Seq(Instr)
      /\ SelfFed(openEntryRaw(i)) /\ Dated(openEntryRaw(i), now, now)
  BY <1>2, <1>3, <1>4, BytesSane, BytesType, Joined, JoinedSelfFed, JoinedDated
<1>6. openEntryRaw(i)[1].do = "table" /\ openEntryRaw(i)[2].do = "slot"
  <2>1. \A j \in 1..Len(a) : (a \o Bytes(i))[j] = a[j]
    BY <1>2, BytesType, Joined
  <2>2. 1 \in 1..Len(a) /\ 2 \in 1..Len(a)
    BY <1>2
  <2> QED BY <1>1, <1>2, <1>4, <2>1, <2>2
<1>7. Gated(openEntryRaw(i))
  <2> SUFFICES ASSUME NEW j \in 1..Len(openEntryRaw(i)), openEntryRaw(i)[j].do \in Touch
               PROVE  2 \in 1..(j - 1)
    BY <1>6 DEF Gated
  <2> QED BY <1>5, <1>6 DEF Touch
<1> QED BY <1>5, <1>7 DEF Sane

\* Where the instructions of a listing are.
LEMMA ListingShape ==
    ASSUME NEW i \in Layers, NEW v \in Nat, NEW w, w = listBlob(Key(v, i))
    PROVE  /\ w \in Seq(Instr) /\ Len(w) = 3 * i + 4
           /\ \A j \in 1..(2 * i + 1) : w[j].do \in {"table", "slot"}
           /\ w[2 * i + 2].do = "read"
           /\ \A j \in (2 * i + 3)..(3 * i + 2) : w[j].do = "spill"
           /\ w[3 * i + 3].do = "parse" /\ w[3 * i + 4].do = "put"
           /\ w[1].do = "slot"
<1> DEFINE k == Key(v, i)
           a == <<Slot>> \o Bytes(i)
           z == <<Parse(k), Put(k)>>
<1>0. i \in Nat
  BY Depth DEF Layers
<1>1. /\ Slot \in Instr /\ Slot.do = "slot"
      /\ Parse(k) \in Instr /\ Parse(k).do = "parse"
      /\ Put(k) \in Instr /\ Put(k).do = "put"
  BY Single DEF Slot, Parse, Put
<1>2. w = a \o z
  BY DEF listBlob, Key
<1> HIDE DEF k
<1>3. /\ <<Slot>> \in Seq(Instr) /\ Len(<<Slot>>) = 1 /\ <<Slot>>[1] = Slot
      /\ z \in Seq(Instr) /\ Len(z) = 2 /\ z[1] = Parse(k) /\ z[2] = Put(k)
  BY <1>1
<1>4. /\ a \in Seq(Instr) /\ Len(a) = 3 * i + 2 /\ a[1] = Slot
      /\ \A j \in 1..(3 * i + 1) : a[j + 1] = Bytes(i)[j]
  <2>1. /\ a \in Seq(Instr) /\ Len(a) = 1 + Len(Bytes(i)) /\ a[1] = <<Slot>>[1]
        /\ \A j \in 1..Len(Bytes(i)) : a[1 + j] = Bytes(i)[j]
    BY <1>3, BytesType, Joined
  <2> HIDE DEF a
  <2>2. Len(Bytes(i)) = 3 * i + 1 /\ 1 + (3 * i + 1) = 3 * i + 2
    BY <1>0, BytesType
  <2>3. ASSUME NEW j \in 1..(3 * i + 1)
        PROVE  a[j + 1] = Bytes(i)[j]
    <3>1. 1 + j = j + 1
      BY <1>0
    <3> QED BY <2>1, <2>2, <3>1
  <2> QED BY <1>3, <2>1, <2>2, <2>3
<1> HIDE DEF a, z
<1>6. /\ w \in Seq(Instr) /\ Len(w) = 3 * i + 4
      /\ \A j \in 1..(3 * i + 2) : w[j] = a[j]
  <2>1. a \in Seq(Instr) /\ z \in Seq(Instr)
    BY <1>3, <1>4
  <2>3. /\ w \in Seq(Instr) /\ Len(w) = Len(a) + Len(z)
        /\ \A j \in 1..Len(a) : w[j] = a[j]
    BY <1>2, <2>1, Joined
  <2>2. Len(a) + Len(z) = 3 * i + 4
    BY <1>0, <1>3, <1>4
  <2> QED BY <1>4, <2>2, <2>3
<1>7. w[3 * i + 3] = Parse(k) /\ w[3 * i + 4] = Put(k)
  <2>1. 3 * i + 3 = Len(a) + 1 /\ 3 * i + 4 = Len(a) + 2
    BY <1>0, <1>4
  <2>3. a \in Seq(Instr) /\ z \in Seq(Instr) /\ 1 \in 1..Len(z) /\ 2 \in 1..Len(z)
    BY <1>3, <1>4
  <2>2. w[Len(a) + 1] = z[1] /\ w[Len(a) + 2] = z[2]
    BY <1>2, <2>3, Joined
  <2> QED BY <1>3, <2>1, <2>2
<1>8. ASSUME NEW j \in 1..(3 * i + 1)
      PROVE  w[j + 1] = Bytes(i)[j]
  <2>1. j + 1 \in 1..(3 * i + 2)
    BY <1>0
  <2>2. w[j + 1] = a[j + 1]
    BY <1>6, <2>1
  <2> QED BY <1>4, <2>2
<1>9. w[2 * i + 2].do = "read"
  <2>1. 2 * i + 1 \in 1..(3 * i + 1) /\ (2 * i + 1) + 1 = 2 * i + 2
    BY <1>0
  <2> QED BY <1>8, <2>1, BytesType
<1>10. ASSUME NEW j \in (2 * i + 3)..(3 * i + 2)
       PROVE  w[j].do = "spill"
  <2>1. /\ j - 1 \in (2 * i + 2)..(3 * i + 1) /\ j - 1 \in 1..(3 * i + 1)
        /\ (j - 1) + 1 = j
    BY <1>0
  <2> QED BY <1>8, <2>1, BytesType
<1>11. ASSUME NEW j \in 1..(2 * i + 1)
       PROVE  w[j].do \in {"table", "slot"}
  <2>1. CASE j = 1
    BY <1>0, <1>1, <1>4, <1>6, <2>1
  <2>2. CASE j # 1
    <3>1. /\ j - 1 \in 1..(2 * i) /\ j - 1 \in 1..(3 * i + 1) /\ (j - 1) + 1 = j
      BY <1>0, <2>2
    <3> QED BY <1>8, <3>1, BytesType
  <2> QED BY <2>1, <2>2
<1>12. w[1].do = "slot"
  BY <1>0, <1>1, <1>4, <1>6
<1> QED BY <1>1, <1>6, <1>7, <1>9, <1>10, <1>11, <1>12

\* A listing puts one table, after the one read of its archive.
LEMMA ListingSane ==
    ASSUME NEW now \in Nat, NEW i \in Layers, NEW v \in 0..now
    PROVE  Sane(listBlob(Key(v, i)), now)
<1> DEFINE k == Key(v, i)
           w == listBlob(k)
<1>0. i \in Nat /\ v \in Nat
  BY Depth DEF Layers
<1>1. /\ w \in Seq(Instr) /\ Len(w) = 3 * i + 4 /\ w[1].do = "slot"
      /\ \A j \in 1..(2 * i + 1) : w[j].do \in {"table", "slot"}
      /\ w[2 * i + 2].do = "read"
      /\ \A j \in (2 * i + 3)..(3 * i + 2) : w[j].do = "spill"
      /\ w[3 * i + 3].do = "parse"
  BY <1>0, ListingShape
<1>2. Dated(w, now, now)
  <2> DEFINE s == <<Slot>>
             z == <<Parse(k), Put(k)>>
  <2>1. /\ Slot \in Instr /\ Slot.do = "slot" /\ Slot.key.ver = 0
        /\ Parse(k) \in Instr /\ Parse(k).do = "parse" /\ Parse(k).key.ver = v
        /\ Put(k) \in Instr /\ Put(k).do = "put" /\ Put(k).key.ver = v
    BY <1>0, Single, 0 \in Nat DEF Slot, Parse, Put, Key
  <2>2. w = (s \o Bytes(i)) \o z
    BY DEF listBlob, Key
  <2>3. s \in Seq(Instr) /\ z \in Seq(Instr) /\ Dated(s, now, now) /\ Dated(z, now, now)
    BY <2>1 DEF Dated
  <2> HIDE DEF w, s, z, k
  <2>4. Bytes(i) \in Seq(Instr) /\ Dated(Bytes(i), now, now)
    BY BytesSane, BytesType
  <2>5. s \o Bytes(i) \in Seq(Instr) /\ Dated(s \o Bytes(i), now, now)
    BY <2>3, <2>4, Joined, JoinedDated
  <2> QED BY <2>2, <2>3, <2>5, JoinedDated
<1> HIDE DEF w
<1>3. \A j \in 1..(3 * i + 3) : \/ j \in 1..(2 * i + 1) \/ j = 2 * i + 2
                                \/ j \in (2 * i + 3)..(3 * i + 2) \/ j = 3 * i + 3
  BY <1>0
<1>4. SelfFed(w)
  <2> SUFFICES ReadBefore(w, 3 * i + 4)
    <3>1. \A j \in 1..(3 * i + 3) : w[j].do # "put"
      BY <1>1, <1>3
    <3> QED BY <1>0, <1>1, <3>1 DEF SelfFed
  <2>1. 2 * i + 2 \in 1..((3 * i + 4) - 1)
    BY <1>0
  <2>2. ASSUME NEW l \in ((2 * i + 2) + 1)..((3 * i + 4) - 1)
        PROVE  w[l].do \notin Calls
    <3>1. l \in (2 * i + 3)..(3 * i + 2) \/ l = 3 * i + 3
      BY <1>0
    <3> QED BY <1>1, <3>1 DEF Calls
  <2> QED BY <1>1, <2>1, <2>2 DEF ReadBefore
<1>5. Gated(w)
  <2>1. w # <<>>
    BY <1>0, <1>1
  <2> QED BY <1>1, <2>1, BehindSlot
<1> QED BY <1>1, <1>2, <1>4, <1>5 DEF Sane, w, k

-----------------------------------------------------------------------------
(* The invariant.                                                          *)

Fields == {"at", "open", "work", "temps", "held", "over", "seen", "began", "fresh"}

\* What an operation has still to do fits what it holds and what it has seen.
Good(o, now) ==
    /\ o.held \in BOOLEAN /\ o.seen \in Nat /\ o.began \in 0..now /\ o.fresh = TRUE
    /\ o.work \in Seq(Instr) /\ Fed(o.work, o.seen, o.began) /\ Dated(o.work, o.began, now)
    /\ o.at = "run" /\ ~o.held => Gated(o.work) /\ o.temps = <<>> /\ o.over = 0
    /\ o.at = "idle" => o.held = FALSE

OpInv ==
    /\ ver \in Nat
    /\ DOMAIN op = Ops
    /\ \A p \in Ops : DOMAIN op[p] = Fields /\ Good(op[p], ver)

\* No table is older than the version its key names.
TablesInv ==
    /\ DOMAIN cache = {"keys", "vals", "bytes"}
    /\ \A k \in DOMAIN cache.vals : cache.vals[k] \in Nat /\ cache.vals[k] >= k.ver

Holders == {p \in Ops : op[p].held}

TokenInv == sem = Cardinality(Holders)

ResolverInv == OpInv /\ TablesInv /\ TokenInv

\* A step of the operation p, and what it does to the slots.
Tokens(p) ==
    \/ sem' = sem /\ op'[p].held = op[p].held
    \/ /\ ~op[p].held /\ op'[p].held /\ sem < MaxConcurrent
       /\ sem' = sem + 1
    \/ op[p].held /\ ~op'[p].held /\ sem' = sem - 1

Moves(p) ==
    /\ op' = [op EXCEPT ![p] = op'[p]]
    /\ DOMAIN op'[p] = Fields /\ Good(op'[p], ver) /\ ver' = ver
    /\ Tokens(p)

\* An operation with nothing to do is always in order.
Rested(o) ==
    /\ DOMAIN o = Fields /\ o.at # "run" /\ o.held \in BOOLEAN
    /\ o.at = "idle" => o.held = FALSE
    /\ o.work = <<>> /\ o.seen = 0 /\ o.began = 0 /\ o.fresh = TRUE

LEMMA RestedGood ==
    ASSUME NEW o, Rested(o), NEW now \in Nat
    PROVE  Good(o, now)
BY DEF Rested, Good, Fed, Dated

LEMMA RestedForms ==
    ASSUME NEW o, o.held \in BOOLEAN
    PROVE  /\ Rested(Idle) /\ ~Idle.held
           /\ Rested(Broken(o)) /\ Broken(o).held = o.held
           /\ Rested(Streaming(o)) /\ ~Streaming(o).held
BY DEF Rested, Idle, Broken, Streaming, Fields

LEMMA EndMoves ==
    ASSUME OpInv, NEW p \in Ops,
           Answer(p) \/ Fails(p) \/ End(p) \/ CloseStream(p) \/ Refuse(p)
    PROVE  Moves(p) /\ UNCHANGED cache
<1> DEFINE o == op[p]
<1>0. /\ o.held \in BOOLEAN /\ ver \in Nat /\ p \in DOMAIN op
  BY DEF OpInv, Good
<1>1. CASE Fails(p) \/ CloseStream(p) \/ Refuse(p)
  <2>1. /\ op' = [op EXCEPT ![p] = Broken(o)] /\ UNCHANGED <<ver, sem, cache>>
    BY <1>1 DEF Fails, CloseStream, Refuse
  <2>2. op'[p] = Broken(o)
    BY <1>0, <2>1
  <2>4. Rested(Broken(o)) /\ Broken(o).held = o.held
    BY <1>0, RestedForms
  <2>5. Good(Broken(o), ver)
    BY <1>0, <2>4, RestedGood
  <2>3. Good(op'[p], ver) /\ DOMAIN op'[p] = Fields /\ op'[p].held = o.held
    BY <2>2, <2>4, <2>5 DEF Rested
  <2> QED BY <2>1, <2>2, <2>3 DEF Moves, Tokens
<1>2. CASE Answer(p) \/ End(p)
  <2>1. PICK r \in {Idle, Streaming(o)} :
               /\ op' = [op EXCEPT ![p] = r] /\ UNCHANGED <<ver, cache>>
               /\ sem' = IF o.held THEN sem - 1 ELSE sem
    BY <1>2 DEF Answer, End, Released
  <2>2. op'[p] = r /\ Rested(r) /\ ~r.held
    BY <1>0, <2>1, RestedForms
  <2>3. Good(op'[p], ver) /\ DOMAIN op'[p] = Fields
    BY <1>0, <2>2, RestedGood DEF Rested
  <2>4. op' = [op EXCEPT ![p] = op'[p]]
    BY <2>1, <2>2
  <2>5. Tokens(p)
    <3>1. CASE o.held = TRUE
      BY <2>1, <2>2, <3>1 DEF Tokens
    <3>2. CASE o.held = FALSE
      <4>1. Idle.held = FALSE /\ Streaming(o).held = FALSE
        BY DEF Idle, Streaming
      <4> QED BY <2>1, <2>2, <3>2, <4>1 DEF Tokens
    <3> QED BY <1>0, <3>1, <3>2
  <2> QED BY <2>1, <2>3, <2>4, <2>5 DEF Moves
<1> QED BY <1>1, <1>2

\* What is not drawn from is only looked at.
LEMMA DropMoves ==
    ASSUME OpInv, NEW p \in Ops, Drop(p)
    PROVE  Moves(p) /\ UNCHANGED cache
<1>1. /\ op[p].at = "fail" /\ op' = [op EXCEPT ![p].temps = Front(op[p].temps)]
      /\ UNCHANGED <<ver, sem, cache>>
  BY DEF Drop
<1>2. /\ DOMAIN op[p] = Fields /\ Good(op[p], ver) /\ p \in DOMAIN op
  BY DEF OpInv
<1>3. /\ DOMAIN op'[p] = Fields /\ op' = [op EXCEPT ![p] = op'[p]]
      /\ op'[p].at = "fail" /\ op'[p].work = op[p].work /\ op'[p].held = op[p].held
      /\ op'[p].seen = op[p].seen /\ op'[p].began = op[p].began
      /\ op'[p].fresh = op[p].fresh
  BY <1>1, <1>2 DEF Fields
<1> QED BY <1>1, <1>2, <1>3 DEF Moves, Tokens, Good

\* The instruction at the head of a running operation.
LEMMA AtHead ==
    ASSUME OpInv, NEW p \in Ops, NEW do, Running(p, do)
    PROVE  /\ p \in DOMAIN op /\ DOMAIN op[p] = Fields /\ ver \in Nat
           /\ op[p].at = "run" /\ op[p].over = 0
           /\ op[p].held \in BOOLEAN /\ op[p].fresh = TRUE
           /\ op[p].seen \in Nat /\ op[p].began \in 0..ver
           /\ op[p].work \in Seq(Instr) /\ op[p].work # <<>>
           /\ Head(op[p].work).do = do
           /\ Fed(op[p].work, op[p].seen, op[p].began)
           /\ Dated(op[p].work, op[p].began, ver)
           /\ ~op[p].held => Gated(op[p].work) /\ op[p].temps = <<>>
BY DEF OpInv, Good, Running

\* What it leaves to do.
LEMMA AfterHead ==
    ASSUME OpInv, NEW p \in Ops, NEW do, Running(p, do)
    PROVE  /\ Tail(op[p].work) \in Seq(Instr) /\ Dated(Tail(op[p].work), op[p].began, ver)
           /\ do # "read" => Fed(Tail(op[p].work), op[p].seen, op[p].began)
           /\ do = "read" => Fed(Tail(op[p].work), ver, op[p].began)
           /\ do \in Calls => SelfFed(Tail(op[p].work))
           /\ ~op[p].held /\ do # "slot" => Gated(Tail(op[p].work))
<1> DEFINE w == op[p].work
           s == op[p].seen
           n == op[p].began
<1>1. /\ w \in Seq(Instr) /\ w # <<>> /\ Head(w).do = do /\ Fed(w, s, n)
      /\ Dated(w, n, ver) /\ s \in Nat /\ n \in Nat /\ n <= ver /\ ver \in Nat
      /\ ~op[p].held => Gated(w)
  <2>1. s \in Nat /\ n \in 0..ver /\ ver \in Nat
    BY AtHead
  <2>2. /\ w \in Seq(Instr) /\ w # <<>> /\ Head(w).do = do /\ Fed(w, s, n)
        /\ Dated(w, n, ver)
    BY AtHead
  <2>3. ~op[p].held => Gated(w)
    BY AtHead
  <2>4. n \in Nat /\ n <= ver
    BY <2>1
  <2> QED BY <2>1, <2>2, <2>3, <2>4
<1> HIDE DEF w, s, n
<1>2. Tail(w) \in Seq(Instr) /\ Dated(Tail(w), n, ver)
  BY <1>1, Rest, RestDated
<1>3. do # "read" => Fed(Tail(w), s, n)
  BY <1>1, RestFed
<1>4. do = "read" => Fed(Tail(w), ver, n)
  BY <1>1, RestRead
<1>5. do \in Calls => SelfFed(Tail(w))
  BY <1>1, RestSelfFed
<1>6. ~op[p].held /\ do # "slot" => Gated(Tail(w))
  BY <1>1, RestGated
<1> QED BY <1>2, <1>3, <1>4, <1>5, <1>6 DEF w, s, n

\* An operation that touches the archive holds a slot.
LEMMA TouchHolds ==
    ASSUME OpInv, NEW p \in Ops, NEW do \in Touch, Running(p, do)
    PROVE  op[p].held
<1> DEFINE w == op[p].work
<1> SUFFICES ASSUME ~op[p].held
             PROVE  FALSE
  OBVIOUS
<1>1. w \in Seq(Instr) /\ w # <<>> /\ Gated(w) /\ Head(w).do = do
  BY AtHead
<1> HIDE DEF w
<1>2. 1 \in 1..Len(w) /\ w[1].do \in Touch
  BY <1>1, Rest
<1>3. \E i \in 1..(1 - 1) : w[i].do = "slot"
  BY <1>1, <1>2 DEF Gated
<1> QED BY <1>3

\* The rest of a step once its work and its temp files are known: the slot is
\* held before as after.
LEMMA Carries ==
    ASSUME OpInv, NEW p \in Ops, op[p].held, UNCHANGED <<ver, sem>>,
           op' = [op EXCEPT ![p] = op'[p]], DOMAIN op'[p] = Fields, op'[p].at = "run",
           op'[p].held = op[p].held, op'[p].began = op[p].began, op'[p].fresh = TRUE,
           op'[p].seen \in Nat, op'[p].work \in Seq(Instr),
           Fed(op'[p].work, op'[p].seen, op[p].began), Dated(op'[p].work, op[p].began, ver)
    PROVE  Moves(p)
BY DEF Moves, Good, Tokens, OpInv

LEMMA SlotMoves ==
    ASSUME OpInv, NEW p \in Ops, acquire(p)
    PROVE  Moves(p) /\ UNCHANGED cache
<1>0. /\ Running(p, "slot") /\ UNCHANGED <<ver, cache>>
      /\ op' = [op EXCEPT ![p] = [op[p] EXCEPT !.work = Tail(op[p].work), !.held = TRUE]]
      /\ \/ op[p].held /\ sem' = sem
         \/ ~op[p].held /\ sem < MaxConcurrent /\ sem' = sem + 1
  BY DEF acquire
<1>1. /\ DOMAIN op'[p] = Fields /\ op' = [op EXCEPT ![p] = op'[p]]
      /\ op'[p].at = "run" /\ op'[p].work = Tail(op[p].work) /\ op'[p].held = TRUE
      /\ op'[p].seen = op[p].seen /\ op'[p].began = op[p].began
      /\ op'[p].fresh = op[p].fresh
  BY <1>0, AtHead DEF Fields
<1>2. /\ op[p].seen \in Nat /\ op[p].began \in 0..ver /\ op[p].fresh = TRUE
      /\ op[p].held \in BOOLEAN
  BY <1>0, AtHead
<1>5. /\ Tail(op[p].work) \in Seq(Instr) /\ Dated(Tail(op[p].work), op[p].began, ver)
      /\ Fed(Tail(op[p].work), op[p].seen, op[p].began)
  BY <1>0, AfterHead
<1>3. Good(op'[p], ver)
  BY <1>1, <1>2, <1>5 DEF Good
<1>4. Tokens(p)
  BY <1>0, <1>1, <1>2 DEF Tokens
<1> QED BY <1>0, <1>1, <1>3, <1>4 DEF Moves

\* The steps that need the slot and go on to the rest of the work.
LEMMA OpenMoves ==
    ASSUME OpInv, NEW p \in Ops, OpenFile(p)
    PROVE  Moves(p) /\ UNCHANGED cache
<1> DEFINE o == op[p]
<1>1. /\ Running(p, "read") /\ UNCHANGED <<ver, sem, cache>>
      /\ op' = [op EXCEPT ![p] = [o EXCEPT !.work = Tail(o.work), !.seen = ver,
                                            !.temps = Append(o.temps, 0)]]
  BY DEF OpenFile
<1>2. o.held
  BY <1>1, TouchHolds DEF Touch
<1>3. /\ DOMAIN op'[p] = Fields /\ op' = [op EXCEPT ![p] = op'[p]]
      /\ op'[p].work = Tail(o.work) /\ op'[p].held = o.held
      /\ op'[p].seen = ver /\ op'[p].began = o.began /\ op'[p].fresh = TRUE /\ ver \in Nat
      /\ op'[p].at = "run"
  BY <1>1, AtHead DEF Fields
<1>4. /\ op'[p].work \in Seq(Instr) /\ Fed(op'[p].work, op'[p].seen, o.began)
      /\ Dated(op'[p].work, o.began, ver)
  BY <1>1, <1>3, AfterHead
<1> QED BY <1>1, <1>2, <1>3, <1>4, Carries

LEMMA TouchMoves ==
    ASSUME OpInv, NEW p \in Ops,
           \/ Stream(p) \/ ParseList(p)
           \/ Copied(p) /\ ~(Last(op[p].temps) > MaxLayerBytes)
    PROVE  Moves(p) /\ UNCHANGED cache
<1> DEFINE o == op[p]
<1>1. PICK do \in {"spill", "parse", "write"} : Running(p, do)
  BY DEF Stream, ParseList, Copied
<1>2. \E t : op' = [op EXCEPT ![p] = [o EXCEPT !.work = Tail(o.work), !.temps = t]]
  <2>1. CASE ParseList(p)
    BY <2>1 DEF ParseList
  <2>2. CASE Copied(p) /\ ~(Last(op[p].temps) > MaxLayerBytes)
    BY <2>2 DEF Copied
  <2>3. CASE Stream(p)
    <3>1. CASE op' = [op EXCEPT ![p].work = Tail(o.work)]
      <4>1. [o EXCEPT !.work = Tail(o.work)] = [o EXCEPT !.work = Tail(o.work), !.temps = o.temps]
        BY <1>1, AtHead DEF Fields
      <4> QED BY <3>1, <4>1
    <3>2. CASE op' = [op EXCEPT ![p].work = Tail(o.work), ![p].temps = Append(Front(o.temps), 0)]
      BY <3>2
    <3> QED BY <2>3, <3>1, <3>2 DEF Stream
  <2> QED BY <2>1, <2>2, <2>3
<1>3. UNCHANGED <<ver, sem, cache>>
  BY DEF Stream, ParseList, Copied
<1>4. o.held
  BY <1>1, TouchHolds DEF Touch
<1>5. /\ DOMAIN op'[p] = Fields /\ op' = [op EXCEPT ![p] = op'[p]]
      /\ op'[p].work = Tail(o.work) /\ op'[p].held = o.held
      /\ op'[p].seen = o.seen /\ op'[p].began = o.began /\ op'[p].fresh = TRUE
      /\ o.seen \in Nat /\ op'[p].at = "run"
  <2>1. /\ p \in DOMAIN op /\ DOMAIN o = Fields /\ o.fresh = TRUE /\ o.seen \in Nat
        /\ o.at = "run"
    BY <1>1, AtHead
  <2>2. PICK t : op' = [op EXCEPT ![p] = [o EXCEPT !.work = Tail(o.work), !.temps = t]]
    BY <1>2
  <2> QED BY <2>1, <2>2 DEF Fields
<1>6. /\ op'[p].work \in Seq(Instr) /\ Fed(op'[p].work, op'[p].seen, o.began)
      /\ Dated(op'[p].work, o.began, ver)
  BY <1>1, <1>5, AfterHead
<1> QED BY <1>3, <1>4, <1>5, <1>6, Carries

LEMMA TooLargeMoves ==
    ASSUME OpInv, NEW p \in Ops, Copied(p), Last(op[p].temps) > MaxLayerBytes
    PROVE  Moves(p) /\ UNCHANGED cache
<1>1. /\ op' = [op EXCEPT ![p] = Broken(op[p])] /\ UNCHANGED <<ver, sem, cache>>
      /\ Running(p, "write")
  BY DEF Copied
<1>2. op'[p] = Broken(op[p]) /\ ver \in Nat /\ op[p].held \in BOOLEAN
  BY <1>1, AtHead
<1>4. Rested(Broken(op[p])) /\ Broken(op[p]).held = op[p].held
  BY <1>2, RestedForms
<1>5. Good(Broken(op[p]), ver)
  BY <1>2, <1>4, RestedGood
<1>3. Good(op'[p], ver) /\ DOMAIN op'[p] = Fields /\ op'[p].held = op[p].held
  BY <1>2, <1>4, <1>5 DEF Rested
<1> QED BY <1>1, <1>2, <1>3 DEF Moves, Tokens

LEMMA CreateMoves ==
    ASSUME OpInv, NEW p \in Ops, CreateTemp(p)
    PROVE  Moves(p) /\ UNCHANGED cache
<1> DEFINE o == op[p]
           w == <<Write>> \o Tail(o.work)
<1>1. /\ Running(p, "spill") /\ UNCHANGED <<ver, sem, cache>>
      /\ op' = [op EXCEPT ![p] = [o EXCEPT !.work = w, !.temps = Append(o.temps, 0)]]
  BY DEF CreateTemp
<1>2. o.held
  BY <1>1, TouchHolds DEF Touch
<1>3. /\ p \in DOMAIN op /\ DOMAIN o = Fields /\ o.fresh = TRUE /\ o.seen \in Nat
      /\ o.began \in Nat /\ o.began <= ver /\ ver \in Nat /\ o.at = "run"
  <2>1. o.began \in 0..ver /\ ver \in Nat
    BY <1>1, AtHead
  <2>2. /\ p \in DOMAIN op /\ DOMAIN o = Fields /\ o.fresh = TRUE /\ o.seen \in Nat
        /\ o.at = "run"
    BY <1>1, AtHead
  <2> QED BY <2>1, <2>2
<1>4. /\ Tail(o.work) \in Seq(Instr) /\ Dated(Tail(o.work), o.began, ver)
      /\ Fed(Tail(o.work), o.seen, o.began)
  BY <1>1, AfterHead
<1>5. Write \in Instr /\ Write.do = "write" /\ Write.key.ver = 0
  BY Depth, Single, 0 \in Nat, 0 \in Layers DEF Write, Key, Layers
<1>6. w \in Seq(Instr) /\ Fed(w, o.seen, o.began)
  <2>1. <<Write>> \in Seq(Instr)
    BY <1>5
  <2>2. w \in Seq(Instr)
    BY <1>4, <2>1, Joined
  <2> QED BY <1>3, <1>4, <1>5, <2>2, PushedFed
<1>7. Dated(w, o.began, ver)
  <2>1. <<Write>> \in Seq(Instr) /\ Dated(<<Write>>, o.began, ver)
    BY <1>3, <1>5 DEF Dated
  <2> QED BY <1>3, <1>4, <2>1, JoinedDated
<1> HIDE DEF w
<1>8. /\ DOMAIN op'[p] = Fields /\ op' = [op EXCEPT ![p] = op'[p]] /\ op'[p].at = "run"
      /\ op'[p].work = w /\ op'[p].held = o.held
      /\ op'[p].seen = o.seen /\ op'[p].began = o.began /\ op'[p].fresh = TRUE
  BY <1>1, <1>3 DEF Fields
<1> QED BY <1>1, <1>2, <1>3, <1>6, <1>7, <1>8, Carries

LEMMA ReserveMoves ==
    ASSUME OpInv, NEW p \in Ops, reserve(p)
    PROVE  Moves(p) /\ UNCHANGED cache
<1> DEFINE o == op[p]
<1>1. Running(p, "write") /\ UNCHANGED <<ver, sem, cache>>
  BY DEF reserve
<1>2. PICK c \in 1..Chunk :
         op' = [op EXCEPT ![p] = IF used + c > MaxTempBytes THEN [o EXCEPT !.over = c]
                                 ELSE [o EXCEPT !.temps = Append(Front(o.temps), Last(o.temps) + c)]]
  BY Zenon DEF reserve
<1>3. o.held
  BY <1>1, TouchHolds DEF Touch
<1>4. /\ p \in DOMAIN op /\ DOMAIN o = Fields /\ o.fresh = TRUE /\ o.seen \in Nat
      /\ o.work \in Seq(Instr) /\ Dated(o.work, o.began, ver) /\ Fed(o.work, o.seen, o.began)
      /\ o.at = "run"
  BY <1>1, AtHead
<1>5. /\ DOMAIN op'[p] = Fields /\ op' = [op EXCEPT ![p] = op'[p]] /\ op'[p].at = "run"
      /\ op'[p].work = o.work /\ op'[p].held = o.held
      /\ op'[p].seen = o.seen /\ op'[p].began = o.began /\ op'[p].fresh = TRUE
  <2>1. CASE used + c > MaxTempBytes
    BY <1>2, <1>4, <2>1 DEF Fields
  <2>2. CASE ~(used + c > MaxTempBytes)
    BY <1>2, <1>4, <2>2 DEF Fields
  <2> QED BY <2>1, <2>2
<1> QED BY <1>1, <1>3, <1>4, <1>5, Carries

\* A call is replaced by what it is made of.
LEMMA Expands ==
    ASSUME OpInv, NEW p \in Ops, NEW do \in {"table", "find"}, Running(p, do),
           NEW a, Sane(a, ver), Then(p, a), UNCHANGED <<ver, sem>>
    PROVE  Moves(p)
<1> DEFINE o == op[p]
           t == Tail(o.work)
           w == a \o t
<1>1. op' = [op EXCEPT ![p] = [o EXCEPT !.work = w]]
  BY DEF Then
<1>2. /\ p \in DOMAIN op /\ DOMAIN o = Fields /\ o.at = "run" /\ o.over = 0
      /\ o.held \in BOOLEAN /\ o.fresh = TRUE /\ o.seen \in Nat
      /\ ~o.held => o.temps = <<>>
  BY AtHead
<1>3. ver \in Nat /\ o.began \in Nat /\ o.began <= ver /\ o.began \in 0..ver
  <2>1. ver \in Nat /\ o.began \in 0..ver
    BY AtHead
  <2> QED BY <2>1
<1>4. /\ t \in Seq(Instr) /\ SelfFed(t) /\ Dated(t, o.began, ver)
      /\ ~o.held => Gated(t)
  BY AfterHead DEF Calls
<1>5. a \in Seq(Instr) /\ Gated(a) /\ SelfFed(a)
  BY DEF Sane
<1>6. Dated(a, o.began, ver)
  <2>1. Dated(a, ver, ver)
    BY DEF Sane
  <2>2. ASSUME NEW j \in 1..Len(a)
        PROVE  /\ a[j].key.ver <= ver
               /\ a[j].do = "find" => a[j].key.ver >= o.began
    <3>1. a[j] \in Instr
      BY <1>5
    <3>2. a[j].key.ver \in Nat
      BY <3>1 DEF Instr
    <3> QED BY <1>3, <2>1, <3>2 DEF Dated
  <2> QED BY <2>2 DEF Dated
<1> HIDE DEF t
<1>7. w \in Seq(Instr) /\ SelfFed(w) /\ Dated(w, o.began, ver)
  BY <1>3, <1>4, <1>5, <1>6, Joined, JoinedSelfFed, JoinedDated
<1>8. Fed(w, o.seen, o.began)
  BY <1>7, SelfFedIsFed
<1>9. ~o.held => Gated(w)
  BY <1>4, <1>5, JoinedGated
<1> HIDE DEF w
<1>10. /\ DOMAIN op'[p] = Fields /\ op' = [op EXCEPT ![p] = op'[p]]
       /\ op'[p].work = w /\ op'[p].held = o.held /\ op'[p].over = o.over
       /\ op'[p].seen = o.seen /\ op'[p].began = o.began /\ op'[p].fresh = TRUE
       /\ op'[p].temps = o.temps /\ op'[p].at = "run"
  BY <1>1, <1>2 DEF Fields
<1>11. Good(op'[p], ver)
  BY <1>2, <1>3, <1>7, <1>8, <1>9, <1>10 DEF Good
<1> QED BY <1>10, <1>11 DEF Moves, Tokens

\* The key at the head of a running operation.
LEMMA HeadKey ==
    ASSUME OpInv, NEW p \in Ops, NEW do, Running(p, do)
    PROVE  \E v \in 0..ver, i \in Layers :
             /\ Head(op[p].work).key = Key(v, i)
             /\ do = "find" => v >= op[p].began
             /\ do = "put" => op[p].seen >= op[p].began /\ op[p].seen >= v
<1> DEFINE w == op[p].work
           x == w[1]
           s == op[p].seen
           n == op[p].began
<1>1. /\ w \in Seq(Instr) /\ w # <<>> /\ Head(w).do = do /\ Fed(w, s, n)
      /\ Dated(w, n, ver) /\ ver \in Nat
  BY AtHead
<1> HIDE DEF w, s, n
<1>2. Head(w) = x /\ x \in Instr /\ 1 \in 1..Len(w)
  BY <1>1, Rest
<1>3. x.key \in [ver : Nat, layer : Layers] /\ x.key = Key(x.key.ver, x.key.layer)
  BY <1>2 DEF Instr, Key
<1>4. x.key.ver <= ver /\ (do = "find" => x.key.ver >= n)
  BY <1>1, <1>2 DEF Dated
<1>5. ASSUME do = "put"
      PROVE  s >= n /\ s >= x.key.ver
  <2>1. ~ReadBefore(w, 1)
    BY DEF ReadBefore
  <2> QED BY <1>1, <1>2, <1>5, <2>1 DEF Fed
<1>6. x.key.ver \in 0..ver /\ x.key.layer \in Layers
  BY <1>1, <1>3, <1>4
<1> QED BY <1>2, <1>3, <1>4, <1>5, <1>6 DEF w, s, n

LEMMA KeyMoves ==
    ASSUME OpInv, NEW p \in Ops, MakeKey(p) \/ Miss(p)
    PROVE  Moves(p) /\ UNCHANGED cache
<1> DEFINE k == Head(op[p].work).key
<1>0. ver \in Nat /\ 0 \in 0..ver
  BY DEF OpInv
<1>1. CASE MakeKey(p)
  <2>1. /\ Running(p, "table") /\ UNCHANGED <<ver, sem, cache>>
        /\ \/ Then(p, <<Find(Key(ver, k.layer))>>)
           \/ Then(p, listBlob(Key(0, k.layer)))
    BY <1>1 DEF MakeKey
  <2>2. PICK v \in 0..ver, i \in Layers : k = Key(v, i)
    BY <2>1, HeadKey
  <2>3. k.layer = i
    BY <2>2 DEF Key
  <2>4. Sane(<<Find(Key(ver, i))>>, ver) /\ Sane(listBlob(Key(0, i)), ver)
    BY <1>0, FindSane, ListingSane
  <2> QED BY <2>1, <2>3, <2>4, Expands
<1>2. CASE Miss(p)
  <2>1. Running(p, "find") /\ UNCHANGED <<ver, sem, cache>> /\ Then(p, listBlob(k))
    BY <1>2 DEF Miss
  <2>2. PICK v \in 0..ver, i \in Layers : k = Key(v, i)
    BY <2>1, HeadKey
  <2>3. Sane(listBlob(k), ver)
    BY <1>0, <2>2, ListingSane
  <2> QED BY <2>1, <2>3, Expands
<1> QED BY <1>1, <1>2

\* An answer from the cache, or from the listing that is filed.
LEMMA AnsweredMoves ==
    ASSUME OpInv, NEW p \in Ops, NEW do \in {"find", "put"}, Running(p, do),
           NEW s \in {op[p].seen, 0},
           op' = [op EXCEPT ![p] = [op[p] EXCEPT !.work = Tail(op[p].work), !.seen = s,
                                                 !.fresh = TRUE]],
           UNCHANGED <<ver, sem>>
    PROVE  Moves(p)
<1> DEFINE o == op[p]
           t == Tail(o.work)
<1>1. /\ p \in DOMAIN op /\ DOMAIN o = Fields /\ o.at = "run" /\ o.over = 0
      /\ o.held \in BOOLEAN /\ o.seen \in Nat /\ o.began \in 0..ver
      /\ ~o.held => o.temps = <<>>
  BY AtHead
<1>2. /\ t \in Seq(Instr) /\ SelfFed(t) /\ Dated(t, o.began, ver)
      /\ ~o.held => Gated(t)
  BY AfterHead DEF Calls
<1>3. Fed(t, s, o.began) /\ s \in Nat
  BY <1>1, <1>2, SelfFedIsFed
<1> HIDE DEF t
<1>4. /\ DOMAIN op'[p] = Fields /\ op' = [op EXCEPT ![p] = op'[p]]
      /\ op'[p].work = t /\ op'[p].held = o.held /\ op'[p].over = o.over
      /\ op'[p].seen = s /\ op'[p].began = o.began /\ op'[p].fresh = TRUE
      /\ op'[p].temps = o.temps /\ op'[p].at = "run"
  BY <1>1 DEF Fields, t
<1>5. Good(op'[p], ver)
  BY <1>1, <1>2, <1>3, <1>4 DEF Good
<1> QED BY <1>4, <1>5 DEF Moves, Tokens

\* A cached table is no older than its key, and its key no older than the
\* operation that looks it up.
LEMMA HitMoves ==
    ASSUME OpInv, TablesInv, NEW p \in Ops, Hit(p)
    PROVE  Moves(p) /\ TablesInv'
<1> DEFINE o == op[p]
           k == Head(o.work).key
<1>1. /\ Running(p, "find") /\ k \in DOMAIN cache.vals /\ UNCHANGED <<ver, sem>>
      /\ cache' = [cache EXCEPT !.keys = Touched(cache.keys, k)]
      /\ op' = [op EXCEPT ![p] = [o EXCEPT !.work = Tail(o.work),
                                            !.fresh = o.fresh /\ cache.vals[k] >= o.began]]
  BY DEF Hit
<1>2. TablesInv'
  BY <1>1 DEF TablesInv
<1>3. PICK v \in 0..ver, i \in Layers : k = Key(v, i) /\ v >= o.began
  BY <1>1, HeadKey
<1>4. o.began \in Nat /\ v \in Nat
  <2>1. o.began \in 0..ver /\ ver \in Nat
    BY <1>1, AtHead
  <2> QED BY <2>1
<1>5. cache.vals[k] >= o.began
  <2>1. k.ver = v
    BY <1>3 DEF Key
  <2>2. cache.vals[k] \in Nat /\ cache.vals[k] >= v
    BY <1>1, <2>1 DEF TablesInv
  <2> QED BY <1>3, <1>4, <2>2
<1>6. p \in DOMAIN op /\ DOMAIN o = Fields /\ o.fresh = TRUE
  BY <1>1, AtHead
<1>7. op' = [op EXCEPT ![p] = [o EXCEPT !.work = Tail(o.work), !.seen = o.seen,
                                        !.fresh = TRUE]]
  <2>1. [o EXCEPT !.work = Tail(o.work), !.fresh = o.fresh /\ cache.vals[k] >= o.began]
          = [o EXCEPT !.work = Tail(o.work), !.seen = o.seen, !.fresh = TRUE]
    BY <1>5, <1>6 DEF Fields
  <2> QED BY <1>1, <2>1
<1> QED BY <1>1, <1>2, <1>7, AnsweredMoves

\* What leaves the cache does not change what stays.
LEMMA EvictedKeeps ==
    ASSUME NEW c
    PROVE  /\ DOMAIN Evicted(c) = {"keys", "vals", "bytes"}
           /\ \A k \in DOMAIN Evicted(c).vals :
                 k \in DOMAIN c.vals /\ Evicted(c).vals[k] = c.vals[k]
BY DEF Evicted

LEMMA PutMoves ==
    ASSUME OpInv, TablesInv, NEW p \in Ops, PutTable(p)
    PROVE  Moves(p) /\ TablesInv'
<1> DEFINE o == op[p]
           k == Head(o.work).key
<1>1. /\ Running(p, "put") /\ UNCHANGED <<ver, sem>>
      /\ cache' = IF k.ver = 0 THEN cache ELSE Evicted(Stored(k, o.seen))
      /\ op' = [op EXCEPT ![p] = [o EXCEPT !.work = Tail(o.work), !.seen = 0,
                                            !.fresh = o.fresh /\ o.seen >= o.began]]
  BY DEF PutTable
<1>2. PICK v \in 0..ver, i \in Layers :
             k = Key(v, i) /\ o.seen >= o.began /\ o.seen >= v
  BY <1>1, HeadKey
<1>3. o.fresh = TRUE /\ o.seen \in Nat
  BY <1>1, AtHead
<1>4. op' = [op EXCEPT ![p] = [o EXCEPT !.work = Tail(o.work), !.seen = 0, !.fresh = TRUE]]
  BY <1>1, <1>2, <1>3
<1>5. Moves(p)
  BY <1>1, <1>4, AnsweredMoves
<1>6. TablesInv'
  <2>1. CASE k.ver = 0
    BY <1>1, <2>1 DEF TablesInv
  <2>2. CASE k.ver # 0
    <3> DEFINE c == Stored(k, o.seen)
    <3>1. \A x \in DOMAIN c.vals : c.vals[x] \in Nat /\ c.vals[x] >= x.ver
      <4>1. c.vals = [x \in DOMAIN cache.vals \union {k} |->
                        IF x = k THEN o.seen ELSE cache.vals[x]]
        BY DEF Stored
      <4>2. k.ver = v
        BY <1>2 DEF Key
      <4> QED BY <1>2, <1>3, <4>1, <4>2 DEF TablesInv
    <3> HIDE DEF c
    <3>2. cache' = Evicted(c)
      BY <1>1, <2>2 DEF c
    <3> QED BY <3>1, <3>2, EvictedKeeps DEF TablesInv
  <2> QED BY <2>1, <2>2
<1> QED BY <1>5, <1>6

\* Whoever begins has no slot yet.
LEMMA BeginMoves ==
    ASSUME OpInv, NEW p \in Ops, NEW w, NEW open \in BOOLEAN, Sane(w, ver), Begin(p, w, open)
    PROVE  Moves(p) /\ UNCHANGED cache
<1>1. /\ op' = [op EXCEPT ![p] = [Idle EXCEPT !.at = "run", !.open = open, !.work = w,
                                               !.began = ver]]
      /\ UNCHANGED <<ver, sem, cache>> /\ op[p].at = "idle"
  BY DEF Begin
<1>2. p \in DOMAIN op /\ ver \in Nat /\ ver \in 0..ver /\ op[p].held = FALSE
  BY <1>1 DEF OpInv, Good
<1>3. /\ DOMAIN op'[p] = Fields /\ op' = [op EXCEPT ![p] = op'[p]]
      /\ op'[p].work = w /\ op'[p].held = FALSE /\ op'[p].over = 0
      /\ op'[p].seen = 0 /\ op'[p].began = ver /\ op'[p].fresh = TRUE /\ op'[p].temps = <<>>
  BY <1>1, <1>2 DEF Fields, Idle
<1>4. w \in Seq(Instr) /\ Fed(w, 0, ver) /\ Dated(w, ver, ver) /\ Gated(w)
  BY SelfFedIsFed DEF Sane
<1>5. Good(op'[p], ver)
  <2> DEFINE r == op'[p]
  <2>4. r.held = FALSE /\ r.seen = 0 /\ r.began = ver /\ r.fresh = TRUE
    BY <1>3
  <2>6. r.held \in BOOLEAN
    BY <2>4, Zenon
  <2> HIDE DEF r
  <2>1. r.held \in BOOLEAN /\ r.seen \in Nat /\ r.began \in 0..ver /\ r.fresh = TRUE
    BY <1>2, <2>4, <2>6
  <2>2. r.work \in Seq(Instr) /\ Fed(r.work, r.seen, r.began) /\ Dated(r.work, r.began, ver)
    BY <1>3, <1>4 DEF r
  <2>3. /\ Gated(r.work) /\ r.temps = <<>> /\ r.over = 0
        /\ r.held = FALSE
    BY <1>3, <1>4 DEF r
  <2>5. Good(r, ver)
    BY <2>1, <2>2, <2>3 DEF Good
  <2> QED BY <2>5 DEF r
<1> QED BY <1>1, <1>2, <1>3, <1>5 DEF Moves, Tokens

LEMMA CallMoves ==
    ASSUME OpInv, NEW p \in Ops, NEW n \in 0..MaxDepth, Stat(p, n) \/ List(p, n) \/ Open(p, n)
    PROVE  Moves(p) /\ UNCHANGED cache
<1>0. /\ ver \in Nat /\ MaxDepth \in Nat /\ n \in Layers /\ n \in 0..(MaxDepth + 1)
      /\ n > 0 => n - 1 \in Layers
  BY Depth DEF OpInv, Layers
<1>1. CASE Stat(p, n)
  BY <1>0, <1>1, TablesSane, BeginMoves DEF Stat
<1>2. CASE List(p, n)
  <2>1. PICK i \in Layers : Begin(p, resolve(n) \o <<Table(i)>>, FALSE)
    BY <1>0, <1>2 DEF List
  <2>2. Sane(resolve(n) \o <<Table(i)>>, ver)
    BY <1>0, TablesSane, JoinedSane
  <2> QED BY <2>1, <2>2, BeginMoves
<1>3. CASE Open(p, n)
  <2>1. n - 1 \in Layers /\ Begin(p, resolve(n) \o openEntryRaw(n - 1), TRUE)
    BY <1>0, <1>3 DEF Open
  <2>2. Sane(resolve(n) \o openEntryRaw(n - 1), ver)
    BY <1>0, <2>1, TablesSane, OpenSane, JoinedSane
  <2> QED BY <2>1, <2>2, BeginMoves
<1> QED BY <1>1, <1>2, <1>3

\* Every step is one of these moves, or a replacement of the archive.
LEMMA NextMoves ==
    ASSUME OpInv, TablesInv, [Next]_vars
    PROVE  /\ TablesInv'
           /\ \/ \E p \in Ops : Moves(p)
              \/ ver' = ver + 1 /\ UNCHANGED <<sem, op>>
              \/ UNCHANGED <<ver, sem, op>>
<1>1. UNCHANGED cache => TablesInv'
  BY DEF TablesInv
<1>2. CASE \E p \in Ops, n \in 0..MaxDepth : Stat(p, n) \/ List(p, n) \/ Open(p, n)
  BY <1>1, <1>2, CallMoves
<1>3. CASE \E p \in Ops : Steps(p) \/ acquire(p) \/ Fails(p) \/ CloseStream(p)
  <2>1. PICK p \in Ops : Steps(p) \/ acquire(p) \/ Fails(p) \/ CloseStream(p)
    BY <1>3
  <2>2. CASE Answer(p) \/ Fails(p) \/ End(p) \/ CloseStream(p) \/ Refuse(p)
    BY <1>1, <2>2, EndMoves
  <2>3. CASE Drop(p) \/ acquire(p) \/ OpenFile(p) \/ CreateTemp(p) \/ reserve(p)
    BY <1>1, <2>3, DropMoves, SlotMoves, OpenMoves, CreateMoves, ReserveMoves
  <2>4. CASE Stream(p) \/ ParseList(p) \/ Copied(p)
    BY <1>1, <2>4, TouchMoves, TooLargeMoves
  <2>5. CASE MakeKey(p) \/ Miss(p)
    BY <1>1, <2>5, KeyMoves
  <2>6. CASE Hit(p) \/ PutTable(p)
    BY <2>6, HitMoves, PutMoves
  <2>7. CASE RemoveTemp(p)
    BY <1>1, <2>7 DEF RemoveTemp
  <2> QED BY <2>1, <2>2, <2>3, <2>4, <2>5, <2>6, <2>7 DEF Steps
<1>4. CASE Replace
  BY <1>1, <1>4 DEF Replace
<1>5. CASE UNCHANGED vars
  BY <1>1, <1>5 DEF vars
<1> QED BY <1>2, <1>3, <1>4, <1>5 DEF Next

\* What is in order stays so when the archive is replaced.
LEMMA GoodLater ==
    ASSUME NEW o, NEW now \in Nat, Good(o, now)
    PROVE  Good(o, now + 1)
<1>1. o.began \in 0..(now + 1)
  BY DEF Good
<1>2. Dated(o.work, o.began, now + 1)
  <2>1. ASSUME NEW j \in 1..Len(o.work)
        PROVE  /\ o.work[j].key.ver <= now + 1
               /\ o.work[j].do = "find" => o.work[j].key.ver >= o.began
    <3>1. o.work[j] \in Instr /\ Dated(o.work, o.began, now)
      BY DEF Good
    <3>2. o.work[j].key.ver \in Nat
      BY <3>1 DEF Instr
    <3> QED BY <3>1, <3>2 DEF Dated
  <2> QED BY <2>1 DEF Dated
<1> QED BY <1>1, <1>2 DEF Good

LEMMA OpInvStep ==
    ASSUME OpInv, TablesInv, [Next]_vars
    PROVE  OpInv' /\ TablesInv'
<1>1. CASE \E p \in Ops : Moves(p)
  <2>1. PICK p \in Ops : Moves(p)
    BY <1>1
  <2>2. DOMAIN op' = Ops /\ ver' = ver /\ \A q \in Ops : q # p => op'[q] = op[q]
    BY <2>1 DEF Moves, OpInv
  <2>3. \A q \in Ops : DOMAIN op'[q] = Fields /\ Good(op'[q], ver)
    BY <2>1, <2>2 DEF Moves, OpInv
  <2> QED BY <2>2, <2>3, NextMoves DEF OpInv
<1>2. CASE ver' = ver + 1 /\ UNCHANGED <<sem, op>>
  BY <1>2, GoodLater, NextMoves DEF OpInv
<1>3. CASE UNCHANGED <<ver, sem, op>>
  BY <1>3, NextMoves DEF OpInv
<1> QED BY <1>1, <1>2, <1>3, NextMoves

\* The pool counts as we do.
LEMMA SameCardinality ==
    \A S : Slots!Cardinality(S) = Cardinality(S)
BY DEF Slots!Cardinality, Slots!IsFiniteSet, Cardinality, IsFiniteSet

\* A token comes and goes with the operation that holds it.
LEMMA TokenStep ==
    ASSUME ResolverInv, [Next]_vars
    PROVE  TokenInv' /\ [Slots!Next]_Holders
<1>0. IsFiniteSet(Holders) /\ sem = Cardinality(Holders)
  BY BoundAssumption, FS_Subset DEF ResolverInv, TokenInv, Holders
<1>1. CASE \E p \in Ops : Moves(p)
  <2>1. PICK p \in Ops : Moves(p)
    BY <1>1
  <2>2. \A q \in Ops : q # p => op'[q] = op[q]
    BY <2>1 DEF Moves, ResolverInv, OpInv
  <2>3. CASE sem' = sem /\ op'[p].held = op[p].held
    <3>1. Holders' = Holders
      BY <2>2, <2>3 DEF Holders
    <3> QED BY <1>0, <2>3, <3>1 DEF TokenInv
  <2>4. CASE ~op[p].held /\ op'[p].held /\ sem < MaxConcurrent /\ sem' = sem + 1
    <3>1. Holders' = Holders \union {p} /\ p \notin Holders
      BY <2>2, <2>4 DEF Holders
    <3>2. Cardinality(Holders') = sem + 1
      BY <1>0, <3>1, FS_AddElement
    <3>3. Slots!Next
      BY <1>0, <2>4, <3>1, SameCardinality DEF Slots!Next, Slots!Take, Holders
    <3> QED BY <2>4, <3>2, <3>3 DEF TokenInv
  <2>5. CASE op[p].held /\ ~op'[p].held /\ sem' = sem - 1
    <3>1. Holders' = Holders \ {p} /\ p \in Holders
      BY <2>2, <2>5 DEF Holders
    <3>2. Cardinality(Holders') = sem - 1
      BY <1>0, <3>1, FS_RemoveElement
    <3>3. Slots!Next
      BY <3>1 DEF Slots!Next, Slots!Give, Holders
    <3> QED BY <2>5, <3>2, <3>3 DEF TokenInv
  <2> QED BY <2>1, <2>3, <2>4, <2>5 DEF Moves, Tokens
<1>2. CASE UNCHANGED <<sem, op>>
  BY <1>0, <1>2 DEF TokenInv, Holders
<1> QED BY <1>1, <1>2, NextMoves DEF ResolverInv

LEMMA ResolverInit ==
    ASSUME Init
    PROVE  ResolverInv /\ Holders = {}
<1>1. OpInv
  <2>1. \A p \in Ops : op[p] = Idle
    BY DEF Init
  <2>2. Rested(Idle) /\ Good(Idle, 1)
    BY RestedForms, RestedGood DEF Idle, Rested, Fields
  <2> QED BY <2>1, <2>2 DEF Init, OpInv, Rested
<1>2. TablesInv
  BY DEF Init, TablesInv, NoTables
<1>3. Holders = {}
  BY DEF Init, Holders, Idle
<1> QED BY <1>1, <1>2, <1>3, FS_EmptySet DEF Init, ResolverInv, TokenInv

LEMMA ResolverInvariant == Spec => []ResolverInv
<1>1. Init => ResolverInv
  BY ResolverInit
<1>2. ResolverInv /\ [Next]_vars => ResolverInv'
  BY OpInvStep, TokenStep DEF ResolverInv
<1> QED BY <1>1, <1>2, PTL DEF Spec

-----------------------------------------------------------------------------
(* Layers.  The open layers of an operation form a stack; its instructions *)
(* never take from an empty one, and a listing leaves none behind.         *)

\* What takes the bytes of the topmost layer, and what ends a listing.
Inner == {"spill", "parse"}
Shuts == Calls \union {"parse"}

\* The archive is opened before the j-th instruction and not let go since.
OpenBefore(w, j) ==
    \E i \in 1..(j - 1) :
        w[i].do = "read" /\ \A l \in (i + 1)..(j - 1) : w[l].do \notin Shuts

\* Everything finds the layers it needs, with n open at the beginning.
Layered(w, n) ==
    \A j \in 1..Len(w) :
        /\ w[j].do \in Inner =>
              \/ OpenBefore(w, j)
              \/ n >= 1 /\ \A l \in 1..(j - 1) : w[l].do \notin Shuts
        /\ w[j].do = "write" => j = 1 /\ n >= 2

\* The listing under way at the i-th instruction ends before anything else
\* is listed or opened.
Closing(w, i) ==
    \E j \in i..Len(w) :
        w[j].do = "parse" /\ \A l \in i..(j - 1) : w[l].do \notin Calls \union {"read"}

\* What is opened is let go.
SelfClosed(w) ==
    \A i \in 1..Len(w) : w[i].do = "read" => Closing(w, i + 1)

\* So are the n layers open at the beginning.
Closed(w, n) ==
    /\ SelfClosed(w)
    /\ n >= 1 => Closing(w, 1)
    /\ n <= 2
    /\ n = 2 => w[1].do = "write"

LEMMA RestLayered ==
    ASSUME NEW w \in Seq(Instr), w # <<>>, NEW n \in Nat, Layered(w, n), NEW m \in Nat,
           \/ Head(w).do = "read" /\ m >= 1
           \/ Head(w).do \in Shuts
           \/ Head(w).do # "read" /\ (n >= 1 => m >= 1)
    PROVE  Layered(Tail(w), m)
<1> SUFFICES ASSUME NEW j \in 1..Len(Tail(w))
             PROVE  /\ Tail(w)[j].do \in Inner =>
                          \/ OpenBefore(Tail(w), j)
                          \/ m >= 1 /\ \A l \in 1..(j - 1) : Tail(w)[l].do \notin Shuts
                    /\ Tail(w)[j].do # "write"
  BY DEF Layered
<1>1. j + 1 \in 1..Len(w) /\ Tail(w)[j] = w[j + 1] /\ j + 1 # 1
  BY Rest
<1>2. Tail(w)[j].do # "write"
  BY <1>1 DEF Layered
<1>3. Head(w) = w[1] /\ 1 \in 1..j
  BY Rest
<1>4. ASSUME Tail(w)[j].do \in Inner, OpenBefore(w, j + 1)
      PROVE  \/ OpenBefore(Tail(w), j)
             \/ m >= 1 /\ \A l \in 1..(j - 1) : Tail(w)[l].do \notin Shuts
  <2>1. PICK i \in 1..j : w[i].do = "read" /\ \A l \in (i + 1)..j : w[l].do \notin Shuts
    BY <1>4 DEF OpenBefore
  <2>2. \A l \in i..(j - 1) : l + 1 \in (i + 1)..j /\ Tail(w)[l] = w[l + 1]
    BY <1>1, Rest
  <2>3. CASE i = 1
    <3>1. m >= 1
      BY <1>3, <2>1, <2>3 DEF Shuts, Calls
    <3> QED BY <2>1, <2>2, <2>3, <3>1
  <2>4. CASE i # 1
    <3>1. i - 1 \in 1..(j - 1) /\ i - 1 \in 1..(Len(w) - 1) /\ (i - 1) + 1 = i
      BY <1>1, <2>4, Rest
    <3>2. Tail(w)[i - 1].do = "read"
      BY <2>1, <3>1, Rest
    <3> QED BY <2>1, <2>2, <3>1, <3>2 DEF OpenBefore
  <2> QED BY <2>3, <2>4
<1>5. ASSUME Tail(w)[j].do \in Inner, ~OpenBefore(w, j + 1)
      PROVE  m >= 1 /\ \A l \in 1..(j - 1) : Tail(w)[l].do \notin Shuts
  <2>1. n >= 1 /\ \A l \in 1..j : w[l].do \notin Shuts
    BY <1>1, <1>5 DEF Layered
  <2>2. \A l \in 1..(j - 1) : l + 1 \in 1..j /\ Tail(w)[l] = w[l + 1]
    BY <1>1, Rest
  <2>3. m >= 1
    BY <1>3, <2>1
  <2> QED BY <2>1, <2>2, <2>3
<1> QED BY <1>2, <1>4, <1>5

\* More open layers do no harm.
LEMMA MoreLayers ==
    ASSUME NEW w, Layered(w, 0), NEW n \in Nat
    PROVE  Layered(w, n)
BY DEF Layered

LEMMA JoinedLayered ==
    ASSUME NEW a \in Seq(Instr), NEW b \in Seq(Instr), Layered(a, 0), Layered(b, 0)
    PROVE  Layered(a \o b, 0)
<1> SUFFICES ASSUME NEW j \in 1..Len(a \o b)
             PROVE  /\ (a \o b)[j].do \in Inner => OpenBefore(a \o b, j)
                    /\ (a \o b)[j].do # "write"
  BY DEF Layered
<1>0. Len(a) \in Nat /\ Len(b) \in Nat
  OBVIOUS
<1>1. CASE j <= Len(a)
  <2>1. j \in 1..Len(a) /\ (a \o b)[j] = a[j]
    BY <1>0, <1>1, Joined
  <2>2. a[j].do # "write" /\ (a[j].do \in Inner => OpenBefore(a, j))
    BY <2>1 DEF Layered
  <2>3. ASSUME OpenBefore(a, j) PROVE OpenBefore(a \o b, j)
    <3>1. PICK i \in 1..(j - 1) : a[i].do = "read" /\ \A l \in (i + 1)..(j - 1) : a[l].do \notin Shuts
      BY <2>3 DEF OpenBefore
    <3>2. i \in 1..Len(a) /\ \A l \in (i + 1)..(j - 1) : l \in 1..Len(a)
      BY <1>0, <2>1, <3>1
    <3> QED BY <3>1, <3>2, Joined DEF OpenBefore
  <2> QED BY <2>1, <2>2, <2>3
<1>2. CASE j > Len(a)
  <2> DEFINE k == j - Len(a)
  <2>1. k \in 1..Len(b) /\ j = Len(a) + k
    BY <1>0, <1>2, Joined
  <2>2. (a \o b)[j] = b[k]
    BY <2>1, Joined
  <2>3. b[k].do # "write" /\ (b[k].do \in Inner => OpenBefore(b, k))
    BY <2>1 DEF Layered
  <2>4. ASSUME OpenBefore(b, k) PROVE OpenBefore(a \o b, j)
    <3>1. PICK i \in 1..(k - 1) : b[i].do = "read" /\ \A l \in (i + 1)..(k - 1) : b[l].do \notin Shuts
      BY <2>4 DEF OpenBefore
    <3>2. i \in 1..Len(b) /\ Len(a) + i \in 1..(j - 1)
      BY <1>0, <2>1, <3>1
    <3>3. (a \o b)[Len(a) + i].do = "read"
      BY <3>1, <3>2, Joined
    <3>4. ASSUME NEW l \in ((Len(a) + i) + 1)..(j - 1)
          PROVE  (a \o b)[l].do \notin Shuts
      <4>1. /\ l - Len(a) \in (i + 1)..(k - 1) /\ l - Len(a) \in 1..Len(b)
            /\ l = Len(a) + (l - Len(a))
        BY <1>0, <2>1, <3>2
      <4>2. (a \o b)[l] = b[l - Len(a)]
        BY <4>1, Joined
      <4> QED BY <3>1, <4>1, <4>2
    <3> QED BY <3>2, <3>3, <3>4 DEF OpenBefore
  <2> QED BY <2>2, <2>3, <2>4
<1> QED BY <1>1, <1>2

LEMMA PushedLayered ==
    ASSUME NEW w \in Seq(Instr), Layered(w, 1), NEW x \in Instr, x.do = "write",
           NEW n \in Nat, n >= 2
    PROVE  Layered(<<x>> \o w, n)
<1> DEFINE v == <<x>> \o w
<1>1. /\ v \in Seq(Instr) /\ Len(v) = Len(w) + 1 /\ v[1] = x /\ Len(w) \in Nat
      /\ \A j \in 2..Len(v) : v[j] = w[j - 1]
  OBVIOUS
<1> HIDE DEF v
<1> SUFFICES ASSUME NEW j \in 1..Len(v)
             PROVE  /\ v[j].do \in Inner =>
                          OpenBefore(v, j) \/ \A l \in 1..(j - 1) : v[l].do \notin Shuts
                    /\ v[j].do = "write" => j = 1
  BY DEF Layered, v
<1>2. CASE j = 1
  BY <1>1, <1>2 DEF Inner
<1>3. CASE j # 1
  <2>1. j - 1 \in 1..Len(w) /\ v[j] = w[j - 1] /\ j \in 2..Len(v)
    BY <1>1, <1>3
  <2>2. v[j].do # "write"
    BY <2>1 DEF Layered
  <2>3. ASSUME v[j].do \in Inner, OpenBefore(w, j - 1) PROVE OpenBefore(v, j)
    <3>1. PICK i \in 1..((j - 1) - 1) : /\ w[i].do = "read"
                                        /\ \A l \in (i + 1)..((j - 1) - 1) : w[l].do \notin Shuts
      BY <2>3 DEF OpenBefore
    <3>2. i + 1 \in 1..(j - 1) /\ i + 1 \in 2..Len(v) /\ (i + 1) - 1 = i
      BY <1>1, <2>1
    <3>3. v[i + 1].do = "read"
      BY <1>1, <3>1, <3>2
    <3>4. ASSUME NEW l \in ((i + 1) + 1)..(j - 1) PROVE v[l].do \notin Shuts
      <4>1. l - 1 \in (i + 1)..((j - 1) - 1) /\ l \in 2..Len(v)
        BY <1>1, <2>1, <3>2
      <4> QED BY <1>1, <3>1, <4>1
    <3> QED BY <3>2, <3>3, <3>4 DEF OpenBefore
  <2>4. ASSUME v[j].do \in Inner, ~OpenBefore(w, j - 1)
        PROVE  \A l \in 1..(j - 1) : v[l].do \notin Shuts
    <3>1. \A l \in 1..((j - 1) - 1) : w[l].do \notin Shuts
      BY <2>1, <2>4 DEF Layered
    <3>2. \A l \in 2..(j - 1) : l - 1 \in 1..((j - 1) - 1) /\ v[l] = w[l - 1]
      BY <1>1, <2>1
    <3>3. v[1].do \notin Shuts
      BY <1>1 DEF Shuts, Calls
    <3>4. \A l \in 1..(j - 1) : l = 1 \/ l \in 2..(j - 1)
      OBVIOUS
    <3> QED BY <3>1, <3>2, <3>3, <3>4
  <2> QED BY <2>2, <2>3, <2>4
<1> QED BY <1>2, <1>3

\* A listing goes on in the rest of the work.
LEMMA RestClosing ==
    ASSUME NEW w \in Seq(Instr), w # <<>>, NEW i \in Nat \ {0}, Closing(w, i + 1)
    PROVE  Closing(Tail(w), i)
<1>1. PICK j \in (i + 1)..Len(w) : /\ w[j].do = "parse"
                                   /\ \A l \in (i + 1)..(j - 1) : w[l].do \notin Calls \union {"read"}
  BY DEF Closing
<1>2. j - 1 \in i..Len(Tail(w)) /\ j - 1 \in 1..(Len(w) - 1) /\ (j - 1) + 1 = j
  BY Rest
<1>3. Tail(w)[j - 1].do = "parse"
  BY <1>1, <1>2, Rest
<1>4. ASSUME NEW l \in i..((j - 1) - 1)
      PROVE  Tail(w)[l].do \notin Calls \union {"read"}
  <2>1. l + 1 \in (i + 1)..(j - 1) /\ l \in 1..(Len(w) - 1)
    BY <1>2
  <2> QED BY <1>1, <2>1, Rest
<1> QED BY <1>2, <1>3, <1>4 DEF Closing

\* What stands in the way of the end of a listing does not come first.
LEMMA ClosingHead ==
    ASSUME NEW w \in Seq(Instr), w # <<>>, Closing(w, 1), Head(w).do # "parse"
    PROVE  Head(w).do \notin Calls \union {"read"} /\ Closing(Tail(w), 1)
<1>1. PICK j \in 1..Len(w) : /\ w[j].do = "parse"
                             /\ \A l \in 1..(j - 1) : w[l].do \notin Calls \union {"read"}
  BY DEF Closing
<1>2. j # 1 /\ Head(w) = w[1]
  BY <1>1, Rest
<1>3. 1 \in 1..(j - 1) /\ j \in (1 + 1)..Len(w) /\ \A l \in (1 + 1)..(j - 1) : l \in 1..(j - 1)
  BY <1>2
<1>4. Closing(w, 1 + 1)
  BY <1>1, <1>3 DEF Closing
<1>5. Closing(Tail(w), 1)
  BY <1>4, RestClosing
<1> QED BY <1>1, <1>2, <1>3, <1>5

LEMMA RestSelfClosed ==
    ASSUME NEW w \in Seq(Instr), w # <<>>, SelfClosed(w)
    PROVE  SelfClosed(Tail(w))
<1> SUFFICES ASSUME NEW i \in 1..Len(Tail(w)), Tail(w)[i].do = "read"
             PROVE  Closing(Tail(w), i + 1)
  BY DEF SelfClosed
<1>1. i + 1 \in 1..Len(w) /\ w[i + 1].do = "read" /\ i + 1 \in Nat \ {0}
  BY Rest
<1>2. Closing(w, (i + 1) + 1)
  BY <1>1 DEF SelfClosed
<1> QED BY <1>1, <1>2, RestClosing

\* A step of the listing under way; m layers are open after it.
LEMMA RestClosed ==
    ASSUME NEW w \in Seq(Instr), w # <<>>, NEW n \in Nat, Closed(w, n), NEW m \in Nat,
           \/ Head(w).do = "read" /\ m = n + 1
           \/ Head(w).do = "parse" /\ m = n - 1
           \/ Head(w).do = "write" /\ m = n - 1
           \/ Head(w).do \in Calls \union {"slot", "spill"} /\ m = n
    PROVE  Closed(Tail(w), m) /\ m <= 1 /\ (Head(w).do \in Calls => m = 0)
<1>1. SelfClosed(Tail(w))
  BY RestSelfClosed DEF Closed
<1>2. Head(w) = w[1] /\ 1 \in 1..Len(w)
  BY Rest
<1>3. n <= 2 /\ (n = 2 => Head(w).do = "write")
  BY <1>2 DEF Closed
<1>4. n >= 1 /\ Head(w).do # "parse" => Head(w).do \notin Calls \union {"read"} /\ Closing(Tail(w), 1)
  BY ClosingHead DEF Closed
<1>5. CASE Head(w).do = "read" /\ m = n + 1
  <2>1. n = 0 /\ m = 1
    BY <1>4, <1>5
  <2>2. Closing(w, 1 + 1)
    BY <1>2, <1>5 DEF Closed, SelfClosed
  <2>3. Closing(Tail(w), 1)
    BY <2>2, RestClosing
  <2> QED BY <1>1, <1>5, <2>1, <2>3 DEF Closed, Calls
<1>6. CASE Head(w).do = "parse" /\ m = n - 1
  <2>1. m = 0
    BY <1>3, <1>6
  <2> QED BY <1>1, <1>6, <2>1 DEF Closed, Calls
<1>7. CASE Head(w).do = "write" /\ m = n - 1
  <2>1. m <= 1 /\ (m >= 1 => Closing(Tail(w), 1))
    BY <1>3, <1>4, <1>7
  <2> QED BY <1>1, <1>7, <2>1 DEF Closed, Calls
<1>8. CASE Head(w).do \in Calls \union {"slot", "spill"} /\ m = n
  <2>1. m <= 1 /\ (m >= 1 => Closing(Tail(w), 1) /\ Head(w).do \notin Calls)
    BY <1>3, <1>4, <1>8 DEF Calls
  <2> QED BY <1>1, <2>1 DEF Closed
<1> QED BY <1>5, <1>6, <1>7, <1>8

LEMMA JoinedClosed ==
    ASSUME NEW a \in Seq(Instr), NEW b \in Seq(Instr), SelfClosed(a), SelfClosed(b)
    PROVE  SelfClosed(a \o b)
<1> SUFFICES ASSUME NEW i \in 1..Len(a \o b), (a \o b)[i].do = "read"
             PROVE  Closing(a \o b, i + 1)
  BY DEF SelfClosed
<1>0. Len(a) \in Nat /\ Len(b) \in Nat /\ Len(a \o b) = Len(a) + Len(b)
  BY Joined
<1>1. CASE i <= Len(a)
  <2>1. i \in 1..Len(a) /\ a[i].do = "read"
    BY <1>0, <1>1, Joined
  <2>2. PICK j \in (i + 1)..Len(a) :
               a[j].do = "parse" /\ \A l \in (i + 1)..(j - 1) : a[l].do \notin Calls \union {"read"}
    BY <2>1 DEF SelfClosed, Closing
  <2>3. /\ j \in 1..Len(a) /\ j \in (i + 1)..Len(a \o b)
        /\ \A l \in (i + 1)..(j - 1) : l \in 1..Len(a)
    BY <1>0, <2>1, <2>2
  <2> QED BY <2>2, <2>3, Joined DEF Closing
<1>2. CASE i > Len(a)
  <2> DEFINE k == i - Len(a)
  <2>1. k \in 1..Len(b) /\ i = Len(a) + k
    BY <1>0, <1>2
  <2>2. b[k].do = "read"
    BY <2>1, Joined
  <2>3. PICK j \in (k + 1)..Len(b) :
               b[j].do = "parse" /\ \A l \in (k + 1)..(j - 1) : b[l].do \notin Calls \union {"read"}
    BY <2>1, <2>2 DEF SelfClosed, Closing
  <2>4. j \in 1..Len(b) /\ Len(a) + j \in (i + 1)..Len(a \o b)
    BY <1>0, <2>1, <2>3
  <2>5. (a \o b)[Len(a) + j].do = "parse"
    BY <2>3, <2>4, Joined
  <2>6. ASSUME NEW l \in (i + 1)..((Len(a) + j) - 1)
        PROVE  (a \o b)[l].do \notin Calls \union {"read"}
    <3>1. /\ l - Len(a) \in (k + 1)..(j - 1) /\ l - Len(a) \in 1..Len(b)
          /\ l = Len(a) + (l - Len(a))
      BY <1>0, <2>1, <2>4
    <3>2. (a \o b)[l] = b[l - Len(a)]
      BY <3>1, Joined
    <3> QED BY <2>3, <3>1, <3>2
  <2> QED BY <2>4, <2>5, <2>6 DEF Closing
<1> QED BY <1>1, <1>2

\* A layer that is written needs its parent open as well.
LEMMA PushedClosed ==
    ASSUME NEW w \in Seq(Instr), Closed(w, 1), NEW x \in Instr, x.do = "write"
    PROVE  Closed(<<x>> \o w, 2)
<1> DEFINE v == <<x>> \o w
<1>1. /\ v \in Seq(Instr) /\ Len(v) = Len(w) + 1 /\ v[1] = x /\ Len(w) \in Nat
      /\ \A j \in 2..Len(v) : v[j] = w[j - 1]
  OBVIOUS
<1> HIDE DEF v
<1>2. ASSUME NEW i \in Nat \ {0}, Closing(w, i)
      PROVE  Closing(v, i + 1)
  <2>1. PICK j \in i..Len(w) : /\ w[j].do = "parse"
                               /\ \A l \in i..(j - 1) : w[l].do \notin Calls \union {"read"}
    BY <1>2 DEF Closing
  <2>2. j + 1 \in (i + 1)..Len(v) /\ j + 1 \in 2..Len(v) /\ (j + 1) - 1 = j
    BY <1>1, <1>2
  <2>3. v[j + 1].do = "parse"
    BY <1>1, <2>1, <2>2
  <2>4. ASSUME NEW l \in (i + 1)..((j + 1) - 1) PROVE v[l].do \notin Calls \union {"read"}
    <3>1. l - 1 \in i..(j - 1) /\ l \in 2..Len(v)
      BY <1>1, <1>2, <2>2
    <3> QED BY <1>1, <2>1, <3>1
  <2> QED BY <2>2, <2>3, <2>4 DEF Closing
<1>3. Closing(v, 1)
  <2>1. Closing(v, 1 + 1)
    BY <1>2 DEF Closed
  <2>2. PICK j \in 2..Len(v) : /\ v[j].do = "parse"
                               /\ \A l \in 2..(j - 1) : v[l].do \notin Calls \union {"read"}
    BY <2>1 DEF Closing
  <2>3. v[1].do \notin Calls \union {"read"} /\ j \in 1..Len(v)
    BY <1>1 DEF Calls
  <2>4. \A l \in 1..(j - 1) : l = 1 \/ l \in 2..(j - 1)
    OBVIOUS
  <2> QED BY <2>2, <2>3, <2>4 DEF Closing
<1>4. SelfClosed(v)
  <2> SUFFICES ASSUME NEW i \in 1..Len(v), v[i].do = "read" PROVE Closing(v, i + 1)
    BY DEF SelfClosed
  <2>1. i # 1
    BY <1>1
  <2>2. i - 1 \in 1..Len(w) /\ i \in 2..Len(v) /\ (i - 1) + 1 = i
    BY <1>1, <2>1
  <2>3. w[i - 1].do = "read"
    BY <1>1, <2>2
  <2>4. Closing(w, i)
    BY <2>2, <2>3 DEF Closed, SelfClosed
  <2> QED BY <1>2, <2>2, <2>4
<1>5. v[1].do = "write"
  BY <1>1
<1> QED BY <1>3, <1>4, <1>5 DEF Closed, v

\* A listing lets go of what it opens, and what it needs it has opened.
LEMMA ListingStacked ==
    ASSUME NEW i \in Layers, NEW v \in Nat
    PROVE  Layered(listBlob(Key(v, i)), 0) /\ SelfClosed(listBlob(Key(v, i)))
<1> DEFINE w == listBlob(Key(v, i))
<1>0. i \in Nat
  BY Depth DEF Layers
<1>1. /\ w \in Seq(Instr) /\ Len(w) = 3 * i + 4
      /\ \A j \in 1..(2 * i + 1) : w[j].do \in {"table", "slot"}
      /\ w[2 * i + 2].do = "read"
      /\ \A j \in (2 * i + 3)..(3 * i + 2) : w[j].do = "spill"
      /\ w[3 * i + 3].do = "parse" /\ w[3 * i + 4].do = "put"
  BY ListingShape
<1> HIDE DEF w
<1>2. \A j \in 1..Len(w) : \/ j \in 1..(2 * i + 1) \/ j = 2 * i + 2
                           \/ j \in (2 * i + 3)..(3 * i + 2) \/ j = 3 * i + 3 \/ j = 3 * i + 4
  BY <1>0, <1>1
<1>3. ASSUME NEW j \in 1..Len(w)
      PROVE  /\ w[j].do \in Inner => j \in (2 * i + 3)..(3 * i + 3)
             /\ w[j].do # "write"
             /\ w[j].do = "read" => j = 2 * i + 2
  <2>1. CASE j \in 1..(2 * i + 1)
    BY <1>1, <2>1 DEF Inner
  <2>2. CASE j = 2 * i + 2
    BY <1>1, <2>2 DEF Inner
  <2>3. CASE j \in (2 * i + 3)..(3 * i + 2)
    <3>1. j \in (2 * i + 3)..(3 * i + 3)
      BY <1>0, <2>3
    <3> QED BY <1>1, <2>3, <3>1
  <2>4. CASE j = 3 * i + 3
    <3>1. j \in (2 * i + 3)..(3 * i + 3)
      BY <1>0, <2>4
    <3> QED BY <1>1, <2>4, <3>1
  <2>5. CASE j = 3 * i + 4
    BY <1>1, <2>5 DEF Inner
  <2> QED BY <1>2, <2>1, <2>2, <2>3, <2>4, <2>5
<1>4. Layered(w, 0)
  <2> SUFFICES ASSUME NEW j \in 1..Len(w), w[j].do \in Inner PROVE OpenBefore(w, j)
    BY <1>3 DEF Layered
  <2>1. j \in (2 * i + 3)..(3 * i + 3)
    BY <1>3
  <2>2. /\ 2 * i + 2 \in 1..(j - 1)
        /\ \A l \in ((2 * i + 2) + 1)..(j - 1) : l \in (2 * i + 3)..(3 * i + 2)
    BY <1>0, <2>1
  <2>3. \A l \in ((2 * i + 2) + 1)..(j - 1) : w[l].do \notin Shuts
    BY <1>1, <2>2 DEF Shuts, Calls
  <2> QED BY <1>1, <2>2, <2>3 DEF OpenBefore
<1>5. SelfClosed(w)
  <2> SUFFICES Closing(w, (2 * i + 2) + 1)
    BY <1>3 DEF SelfClosed
  <2>1. /\ 3 * i + 3 \in ((2 * i + 2) + 1)..Len(w)
        /\ \A l \in ((2 * i + 2) + 1)..((3 * i + 3) - 1) : l \in (2 * i + 3)..(3 * i + 2)
    BY <1>0, <1>1
  <2>2. \A l \in ((2 * i + 2) + 1)..((3 * i + 3) - 1) : w[l].do \notin Calls \union {"read"}
    BY <1>1, <2>1 DEF Calls
  <2> QED BY <1>1, <2>1, <2>2 DEF Closing
<1> QED BY <1>4, <1>5 DEF w

\* Looking tables up opens nothing.
LEMMA TablesStacked ==
    ASSUME NEW i \in Layers, NEW v \in Nat, NEW n \in 0..(MaxDepth + 1)
    PROVE  /\ Layered(<<Find(Key(v, i))>>, 0) /\ SelfClosed(<<Find(Key(v, i))>>)
           /\ Layered(<<Table(i)>>, 0) /\ SelfClosed(<<Table(i)>>)
           /\ Layered(resolve(n), 0) /\ SelfClosed(resolve(n))
<1>0. n \in Nat /\ MaxDepth \in Nat
  BY Depth
<1>1. ASSUME NEW w, NEW m \in Nat, Len(w) = m, \A j \in 1..m : w[j].do \in {"find", "table"}
      PROVE  Layered(w, 0) /\ SelfClosed(w)
  BY <1>1 DEF Layered, SelfClosed, Inner
<1>2. Layered(<<Find(Key(v, i))>>, 0) /\ SelfClosed(<<Find(Key(v, i))>>)
  <2>1. Len(<<Find(Key(v, i))>>) = 1 /\ <<Find(Key(v, i))>>[1].do = "find"
    BY DEF Find
  <2>2. \A j \in 1..1 : <<Find(Key(v, i))>>[j].do = "find"
    BY <2>1
  <2> QED BY <1>1, <2>1, <2>2
<1>3. Layered(<<Table(i)>>, 0) /\ SelfClosed(<<Table(i)>>)
  <2>1. Len(<<Table(i)>>) = 1 /\ <<Table(i)>>[1].do = "table"
    BY DEF Table
  <2>2. \A j \in 1..1 : <<Table(i)>>[j].do = "table"
    BY <2>1
  <2> QED BY <1>1, <2>1, <2>2
<1>4. Layered(resolve(n), 0) /\ SelfClosed(resolve(n))
  <2>1. \A j \in 1..n : resolve(n)[j].do = "table"
    BY <1>0 DEF resolve, Table
  <2>2. Len(resolve(n)) = n
    BY <1>0 DEF resolve
  <2> QED BY <1>0, <1>1, <2>1, <2>2
<1> QED BY <1>2, <1>3, <1>4

\* The bytes of an entry stay open.
LEMMA OpenStacked ==
    ASSUME NEW i \in Layers
    PROVE  Layered(openEntryRaw(i), 0)
<1> DEFINE a == <<Table(i), Slot>>
<1>0. i \in Nat
  BY Depth DEF Layers
<1>1. Table(i) \in Instr /\ Slot \in Instr /\ Table(i).do = "table" /\ Slot.do = "slot"
  BY Single, 0 \in Nat DEF Table, Slot
<1>2. a \in Seq(Instr) /\ Len(a) = 2 /\ \A j \in 1..2 : a[j].do \in {"table", "slot"}
  BY <1>1
<1>3. Layered(a, 0)
  <2> HIDE DEF a
  <2> QED BY <1>2 DEF Layered, Inner
<1>4. Layered(Bytes(i), 0)
  <2> SUFFICES ASSUME NEW j \in 1..(3 * i + 1)
               PROVE  /\ Bytes(i)[j].do \in Inner => OpenBefore(Bytes(i), j)
                      /\ Bytes(i)[j].do # "write"
    BY BytesType DEF Layered
  <2>1. j \in 1..(2 * i) \/ j = 2 * i + 1 \/ j \in (2 * i + 2)..(3 * i + 1)
    BY <1>0
  <2>2. CASE j \in (2 * i + 2)..(3 * i + 1)
    <3>1. /\ 2 * i + 1 \in 1..(j - 1)
          /\ \A l \in ((2 * i + 1) + 1)..(j - 1) : l \in (2 * i + 2)..(3 * i + 1)
      BY <1>0, <2>2
    <3>2. \A l \in ((2 * i + 1) + 1)..(j - 1) : Bytes(i)[l].do \notin Shuts
      BY <3>1, BytesType DEF Shuts, Calls
    <3>3. Bytes(i)[2 * i + 1].do = "read" /\ Bytes(i)[j].do = "spill"
      BY <2>2, BytesType
    <3> QED BY <3>1, <3>2, <3>3 DEF OpenBefore
  <2>3. CASE j \in 1..(2 * i)
    <3>1. Bytes(i)[j].do \in {"table", "slot"}
      BY <2>3, BytesType
    <3> QED BY <3>1 DEF Inner
  <2>4. CASE j = 2 * i + 1
    <3>1. Bytes(i)[j].do = "read"
      BY <2>4, BytesType
    <3> QED BY <3>1 DEF Inner
  <2> QED BY <2>1, <2>2, <2>3, <2>4
<1> HIDE DEF a
<1>5. openEntryRaw(i) = a \o Bytes(i)
  BY DEF openEntryRaw, a
<1> QED BY <1>2, <1>3, <1>4, <1>5, BytesType, JoinedLayered

-----------------------------------------------------------------------------
(* The ledger.                                                             *)

LEMMA Chunks == Chunk \in Nat \ {0} /\ MaxTempBytes \in Nat /\ MaxLayerBytes \in Nat
BY BoundAssumption

\* What one layer more or less does to the bytes of a stack.
LEMMA StackPush ==
    ASSUME NEW s \in Seq(Nat), NEW x \in Nat
    PROVE  /\ SumFunction(s) \in Nat
           /\ Append(s, x) \in Seq(Nat) /\ Len(Append(s, x)) = Len(s) + 1
           /\ SumFunction(Append(s, x)) = SumFunction(s) + x
<1> DEFINE t == Append(s, x)
           n == Len(s)
<1>1. /\ n \in Nat /\ t \in Seq(Nat) /\ Len(t) = n + 1 /\ t[n + 1] = x
      /\ DOMAIN s = 1..n /\ DOMAIN t = 1..(n + 1)
      /\ \A i \in 1..n : s[i] \in Nat /\ t[i] = s[i]
      /\ \A i \in 1..(n + 1) : t[i] \in Nat
  OBVIOUS
<1> HIDE DEF t, n
<1>2. IsFiniteSet(1..n) /\ IsFiniteSet(1..(n + 1))
  BY <1>1, FS_Interval
<1>3. /\ 1..(n + 1) \in SUBSET (1..(n + 1)) /\ n + 1 \in 1..(n + 1)
      /\ (1..(n + 1)) \ {n + 1} = 1..n /\ 1..n \in SUBSET (1..n)
  BY <1>1
<1>4. SumFunctionOnSet(t, 1..(n + 1)) = x + SumFunctionOnSet(t, 1..n)
  BY <1>1, <1>2, <1>3, SumSteps
<1>5. SumFunctionOnSet(t, 1..n) = SumFunctionOnSet(s, 1..n)
  BY <1>1, <1>2, SumSame
<1>6. SumFunctionOnSet(s, 1..n) \in Nat
  BY <1>1, <1>2, <1>3, SumSteps
<1>7. SumFunction(t) = x + SumFunctionOnSet(s, 1..n) /\ SumFunction(s) = SumFunctionOnSet(s, 1..n)
  BY <1>1, <1>4, <1>5 DEF SumFunction
<1> QED BY <1>1, <1>6, <1>7 DEF t, n

\* A stack is what is left of it and its top.
LEMMA LastTaken ==
    ASSUME NEW S, NEW s \in Seq(S), s # <<>>
    PROVE  /\ Front(s) \in Seq(S) /\ Last(s) \in S
           /\ Len(s) \in Nat \ {0} /\ Len(Front(s)) = Len(s) - 1 /\ Last(s) = s[Len(s)]
           /\ \A i \in 1..(Len(s) - 1) : Front(s)[i] = s[i]
           /\ s = Append(Front(s), Last(s))
<1>1. Len(s) \in Nat \ {0} /\ Len(s) \in 1..Len(s) /\ DOMAIN s = 1..Len(s)
  OBVIOUS
<1>2. s[Len(s)] \in S
  BY <1>1
<1>3. PICK n \in Nat \ {0} : n = Len(s)
  BY <1>1
<1>4. /\ SubSeq(s, 1, n - 1) \in Seq(S) /\ Len(SubSeq(s, 1, n - 1)) = n - 1
      /\ \A i \in 1..(n - 1) : SubSeq(s, 1, n - 1)[i] = s[i]
  BY <1>1, <1>3
<1>5. PICK r : r = SubSeq(s, 1, n - 1)
  OBVIOUS
<1>6. r \in Seq(S) /\ Len(r) = n - 1 /\ \A i \in 1..(n - 1) : r[i] = s[i]
  BY <1>4, <1>5
<1>7. PICK x \in S : x = s[n]
  BY <1>2, <1>3
<1>8. s = Append(r, x)
  <2>1. /\ Append(r, x) \in Seq(S) /\ Len(Append(r, x)) = n
        /\ Append(r, x)[n] = x /\ \A i \in 1..(n - 1) : Append(r, x)[i] = r[i]
    <3>1. Append(r, x) \in Seq(S) /\ Len(Append(r, x)) = Len(r) + 1
      BY <1>6
    <3>2. Append(r, x)[Len(r) + 1] = x /\ \A i \in 1..Len(r) : Append(r, x)[i] = r[i]
      BY <1>6
    <3>3. Len(r) = n - 1 /\ Len(r) + 1 = n
      BY <1>6
    <3> QED BY <3>1, <3>2, <3>3
  <2>2. PICK t \in Seq(S) : t = Append(r, x)
    BY <2>1
  <2>3. \A i \in 1..n : t[i] = s[i]
    <3> SUFFICES ASSUME NEW i \in 1..n PROVE t[i] = s[i]
      OBVIOUS
    <3>1. i = n \/ i \in 1..(n - 1)
      OBVIOUS
    <3> QED BY <1>6, <1>7, <2>1, <2>2, <3>1
  <2>4. Len(t) = Len(s) /\ \A i \in 1..Len(s) : t[i] = s[i]
    BY <1>3, <2>1, <2>2, <2>3
  <2> QED BY <2>2, <2>4
<1>9. Front(s) = r /\ Last(s) = x
  BY <1>3, <1>5, <1>7 DEF Front, Last
<1> QED BY <1>1, <1>3, <1>6, <1>7, <1>8, <1>9

LEMMA StackPop ==
    ASSUME NEW S \in SUBSET Nat, NEW s \in Seq(S), s # <<>>
    PROVE  /\ Front(s) \in Seq(S) /\ Last(s) \in S /\ Len(Front(s)) = Len(s) - 1
           /\ Last(s) = s[Len(s)] /\ Len(s) \in Nat \ {0}
           /\ \A i \in 1..(Len(s) - 1) : Front(s)[i] = s[i]
           /\ SumFunction(Front(s)) = SumFunction(s) - Last(s)
           /\ SumFunction(s) \in Nat /\ SumFunction(Front(s)) \in Nat
<1>1. /\ Front(s) \in Seq(S) /\ Last(s) \in S /\ Len(Front(s)) = Len(s) - 1
      /\ Last(s) = s[Len(s)] /\ Len(s) \in Nat \ {0}
      /\ \A i \in 1..(Len(s) - 1) : Front(s)[i] = s[i]
      /\ s = Append(Front(s), Last(s))
  BY LastTaken
<1>2. PICK r \in Seq(S) : r = Front(s)
  BY <1>1
<1>3. PICK x \in S : x = Last(s)
  BY <1>1
<1>4. r \in Seq(Nat) /\ x \in Nat
  <2>1. /\ Len(r) \in Nat /\ r = [i \in 1..Len(r) |-> r[i]]
        /\ \A i \in 1..Len(r) : r[i] \in S
    OBVIOUS
  <2>2. \A i \in 1..Len(r) : r[i] \in Nat
    BY <2>1
  <2> QED BY <2>1, <2>2
<1>5. /\ SumFunction(r) \in Nat /\ SumFunction(Append(r, x)) = SumFunction(r) + x
  BY <1>4, StackPush
<1>6. SumFunction(s) = SumFunction(r) + x
  BY <1>1, <1>2, <1>3, <1>5
<1>7. SumFunction(s) \in Nat /\ SumFunction(r) = SumFunction(s) - x
  BY <1>4, <1>5, <1>6
<1> QED BY <1>1, <1>2, <1>3, <1>5, <1>7

LEMMA NoBytes == SumFunction(<<>>) = 0
<1>1. DOMAIN <<>> = {} /\ IsFiniteSet({})
  BY FS_EmptySet
<1>2. SumFunctionOnSet(<<>>, {}) = 0
  BY <1>1, SumSteps
<1> QED BY <1>1, <1>2 DEF SumFunction

Sizes == 0..(MaxLayerBytes + 1)

\* The temp files of an operation fit what it has still to do; only the
\* stream of Open keeps some in the end.
Stacked(o) ==
    /\ o.open \in BOOLEAN
    /\ o.temps \in Seq(Sizes) /\ o.over \in 0..Chunk
    /\ o.over > 0 => o.at = "run" /\ o.work # <<>>
    /\ o.at = "idle" => o.temps = <<>>
    /\ o.at = "run" => Layered(o.work, Len(o.temps))
    /\ o.at = "run" /\ ~o.open => Closed(o.work, Len(o.temps))

StackInv == \A p \in Ops : Stacked(op[p])

\* All an operation has counted.
Account(o) == SumFunction(o.temps) + o.over

\* A step of p, in the ledger: it counts what p takes and gives back, and more
\* bytes are written only while they fit.
Books(p) ==
    /\ p \in DOMAIN op /\ op' = [op EXCEPT ![p] = op'[p]] /\ Stacked(op'[p])
    /\ used' = used - Account(op[p]) + Account(op'[p])
    /\ \/ SumFunction(op'[p].temps) <= SumFunction(op[p].temps)
       \/ used' <= MaxTempBytes

\* The instruction at hand finds its layers open.
LEMMA HeadStacked ==
    ASSUME OpInv, StackInv, NEW p \in Ops, NEW do, Running(p, do)
    PROVE  /\ p \in DOMAIN op /\ DOMAIN op[p] = Fields /\ Stacked(op[p])
           /\ op[p].at = "run" /\ op[p].over = 0
           /\ op[p].temps \in Seq(Sizes) /\ Len(op[p].temps) \in Nat
           /\ SumFunction(op[p].temps) \in Nat
           /\ do \in Inner => Len(op[p].temps) >= 1
           /\ do = "write" => Len(op[p].temps) >= 2
<1> DEFINE w == op[p].work
           n == Len(op[p].temps)
<1>1. /\ p \in DOMAIN op /\ DOMAIN op[p] = Fields /\ op[p].at = "run" /\ op[p].over = 0
      /\ w \in Seq(Instr) /\ w # <<>> /\ Head(w).do = do
  BY AtHead
<1>2. Stacked(op[p])
  BY DEF StackInv
<1>3. op[p].temps \in Seq(Sizes) /\ Layered(w, n)
  BY <1>1, <1>2 DEF Stacked
<1>4. n \in Nat /\ op[p].temps \in Seq(Nat)
  BY <1>3, Chunks DEF Sizes
<1>5. SumFunction(op[p].temps) \in Nat
  BY <1>4, 0 \in Nat, StackPush
<1>6. (do \in Inner => n >= 1) /\ (do = "write" => n >= 2)
  <2> HIDE DEF w, n
  <2>1. 1 \in 1..Len(w) /\ w[1].do = do
    BY <1>1, Rest
  <2>2. ~OpenBefore(w, 1)
    BY DEF OpenBefore
  <2> QED BY <1>3, <2>1, <2>2 DEF Layered
<1> QED BY <1>1, <1>2, <1>3, <1>4, <1>5, <1>6

\* An operation that goes on to the rest of its work.
LEMMA Proceeds ==
    ASSUME OpInv, StackInv, NEW p \in Ops, NEW do, Running(p, do),
           NEW o, o.open = op[p].open, o.over = 0, o.at = "run",
           o.work = Tail(op[p].work), o.temps \in Seq(Sizes),
           \/ do = "read" /\ Len(o.temps) = Len(op[p].temps) + 1
           \/ do \in {"parse", "write"} /\ Len(o.temps) = Len(op[p].temps) - 1
           \/ do \in Calls \union {"slot", "spill"} /\ Len(o.temps) = Len(op[p].temps)
    PROVE  Stacked(o)
<1> DEFINE w == op[p].work
           n == Len(op[p].temps)
           m == Len(o.temps)
<1>1. w \in Seq(Instr) /\ w # <<>> /\ Head(w).do = do
  BY AtHead
<1>2. /\ n \in Nat /\ Stacked(op[p]) /\ op[p].at = "run" /\ op[p].over = 0
      /\ do \in Inner => n >= 1
      /\ do = "write" => n >= 2
  BY HeadStacked
<1>3. m \in Nat
  OBVIOUS
<1>4. Layered(w, n) /\ (~op[p].open => Closed(w, n)) /\ op[p].open \in BOOLEAN
  BY <1>2 DEF Stacked
<1>5. \/ do = "read" /\ m = n + 1
      \/ do \in {"parse", "write"} /\ m = n - 1
      \/ do \in Calls \union {"slot", "spill"} /\ m = n
  OBVIOUS
<1> HIDE DEF w, n, m
<1>6. Layered(Tail(w), m)
  <2>1. \/ do = "read" /\ m >= 1
        \/ do \in Shuts
        \/ do # "read" /\ (n >= 1 => m >= 1)
    BY <1>2, <1>3, <1>5 DEF Shuts, Calls, Inner
  <2> QED BY <1>1, <1>2, <1>3, <1>4, <2>1, RestLayered
<1>7. ASSUME ~op[p].open PROVE Closed(Tail(w), m)
  <2>1. Closed(w, n)
    BY <1>4, <1>7
  <2> QED BY <1>1, <1>2, <1>3, <1>5, <2>1, RestClosed
<1>8. 0 \in 0..Chunk
  BY Chunks
<1> QED BY <1>4, <1>6, <1>7, <1>8 DEF Stacked, w, m

LEMMA StackBytes ==
    ASSUME NEW s \in Seq(Sizes)
    PROVE  s \in Seq(Nat) /\ SumFunction(s) \in Nat /\ Len(s) \in Nat
<1>1. /\ Len(s) \in Nat /\ s = [i \in 1..Len(s) |-> s[i]]
      /\ \A i \in 1..Len(s) : s[i] \in Sizes
  OBVIOUS
<1>2. \A i \in 1..Len(s) : s[i] \in Nat
  BY <1>1, Chunks DEF Sizes
<1>3. s \in Seq(Nat)
  BY <1>1, <1>2
<1> QED BY <1>1, <1>3, 0 \in Nat, StackPush

LEMMA Counted ==
    ASSUME NEW o, Stacked(o)
    PROVE  /\ o.temps \in Seq(Sizes) /\ o.over \in Nat /\ o.over \in 0..Chunk
           /\ SumFunction(o.temps) \in Nat /\ Account(o) \in Nat
<1>1. o.temps \in Seq(Sizes) /\ o.over \in 0..Chunk
  BY DEF Stacked
<1>2. o.over \in Nat /\ SumFunction(o.temps) \in Nat
  BY <1>1, Chunks, StackBytes
<1> QED BY <1>1, <1>2 DEF Account

\* Who is not running may keep any layers, or have none at all.
LEMMA RestedStacked ==
    ASSUME NEW o, o.temps \in Seq(Sizes)
    PROVE  /\ Stacked(Broken(o)) /\ Broken(o).temps = o.temps /\ Broken(o).over = 0
           /\ Stacked(Streaming(o)) /\ Streaming(o).temps = o.temps /\ Streaming(o).over = 0
           /\ Stacked(Idle) /\ Idle.temps = <<>> /\ Idle.over = 0
<1>1. 0 \in 0..Chunk /\ <<>> \in Seq(Sizes) /\ FALSE \in BOOLEAN
  BY Chunks
<1> QED BY <1>1 DEF Stacked, Broken, Streaming, Idle

\* A step that breaks off takes back what did not fit and nothing else.
LEMMA BreakBooks ==
    ASSUME OpInv, StackInv, NEW p \in Ops, used \in Int,
           op' = [op EXCEPT ![p] = Broken(op[p])], used' = used - op[p].over
    PROVE  Books(p)
<1>1. p \in DOMAIN op /\ Stacked(op[p])
  BY DEF OpInv, StackInv
<1>2. /\ op[p].temps \in Seq(Sizes) /\ op[p].over \in Nat
      /\ SumFunction(op[p].temps) \in Nat
  BY <1>1, Counted
<1>3. op'[p] = Broken(op[p])
  BY <1>1
<1>4. /\ Stacked(op'[p]) /\ op'[p].temps = op[p].temps /\ op'[p].over = 0
  BY <1>2, <1>3, RestedStacked
<1>5. used' = used - Account(op[p]) + Account(op'[p])
  BY <1>2, <1>4 DEF Account
<1>6. SumFunction(op'[p].temps) <= SumFunction(op[p].temps)
  BY <1>2, <1>4
<1> QED BY <1>1, <1>3, <1>4, <1>5, <1>6 DEF Books

LEMMA BreaksBooks ==
    ASSUME OpInv, StackInv, NEW p \in Ops, used \in Int,
           \/ Fails(p) \/ CloseStream(p) \/ Refuse(p)
           \/ Copied(p) /\ Last(op[p].temps) > MaxLayerBytes
    PROVE  Books(p)
<1>1. p \in DOMAIN op /\ Stacked(op[p])
  BY DEF OpInv, StackInv
<1>2. op' = [op EXCEPT ![p] = Broken(op[p])]
  BY DEF Fails, CloseStream, Refuse, Copied
<1>3. CASE Refuse(p)
  BY <1>2, <1>3, BreakBooks DEF Refuse
<1>4. CASE \/ Fails(p)
           \/ Copied(p) /\ Last(op[p].temps) > MaxLayerBytes
  <2>1. op[p].over = 0 /\ used' = used
    BY <1>4 DEF Fails, Copied, Running
  <2>2. used' = used - op[p].over
    BY <2>1
  <2> QED BY <1>2, <2>2, BreakBooks
<1>5. CASE CloseStream(p)
  <2>1. op[p].over = 0
    <3>1. op[p].at = "stream" /\ op[p].over \in Nat
      BY <1>1, <1>5, Counted DEF CloseStream
    <3> QED BY <1>1, <3>1 DEF Stacked
  <2>2. used' = used - op[p].over
    BY <1>5, <2>1 DEF CloseStream
  <2> QED BY <1>2, <2>2, BreakBooks
<1>6. \/ Fails(p) \/ CloseStream(p) \/ Refuse(p)
      \/ Copied(p) /\ Last(op[p].temps) > MaxLayerBytes
  OBVIOUS
<1> QED BY <1>3, <1>4, <1>5, <1>6

\* Whoever is answered without a stream has let everything go.
LEMMA EndsBooks ==
    ASSUME OpInv, StackInv, NEW p \in Ops, used \in Int, Answer(p) \/ End(p)
    PROVE  Books(p)
<1> DEFINE o == op[p]
<1>1. p \in DOMAIN op /\ Stacked(o) /\ o.temps \in Seq(Sizes) /\ o.over \in Nat
      /\ SumFunction(o.temps) \in Nat
  <2>1. p \in DOMAIN op /\ Stacked(o)
    BY DEF OpInv, StackInv
  <2> QED BY <2>1, Counted
<1>2. o.over = 0 /\ used' = used
  BY <1>1 DEF Answer, End, Stacked
<1>3. \/ op' = [op EXCEPT ![p] = Idle] /\ o.temps = <<>>
      \/ op' = [op EXCEPT ![p] = Streaming(o)]
  <2>1. CASE End(p)
    BY <2>1 DEF End
  <2>2. CASE Answer(p) /\ o.open
    BY <2>2 DEF Answer
  <2>3. CASE Answer(p) /\ ~o.open
    <3>1. Closed(o.work, Len(o.temps)) /\ o.work = <<>> /\ Len(o.work) = 0
      BY <1>1, <2>3 DEF Answer, Stacked
    <3>2. ~Closing(o.work, 1)
      BY <3>1 DEF Closing
    <3>3. Len(o.temps) \in Nat /\ ~(Len(o.temps) >= 1)
      BY <1>1, <3>1, <3>2 DEF Closed
    <3>4. o.temps = <<>>
      BY <1>1, <3>3
    <3> QED BY <2>3, <3>4 DEF Answer
  <2> QED BY <2>1, <2>2, <2>3
<1>4. PICK r \in {Idle, Streaming(o)} :
          op' = [op EXCEPT ![p] = r] /\ r.temps = o.temps /\ r.over = 0 /\ Stacked(r)
  BY <1>1, <1>3, RestedStacked
<1>5. op'[p] = r /\ op' = [op EXCEPT ![p] = op'[p]]
  BY <1>1, <1>4
<1>6. used' = used - Account(op[p]) + Account(op'[p])
  BY <1>1, <1>2, <1>4, <1>5 DEF Account
<1> QED BY <1>1, <1>4, <1>5, <1>6 DEF Books

\* A layer is given up on the way out.
LEMMA DropBooks ==
    ASSUME OpInv, StackInv, NEW p \in Ops, used \in Int, Drop(p)
    PROVE  Books(p)
<1> DEFINE o == op[p]
           r == op'[p]
<1>1. p \in DOMAIN op /\ Stacked(o) /\ DOMAIN o = Fields
  BY DEF OpInv, StackInv
<1>2. /\ o.temps \in Seq(Sizes) /\ o.over \in Nat /\ SumFunction(o.temps) \in Nat
      /\ o.open \in BOOLEAN
  BY <1>1, Counted DEF Stacked
<1>3. /\ o.at = "fail" /\ o.temps # <<>> /\ used' = used - Last(o.temps)
      /\ op' = [op EXCEPT ![p].temps = Front(o.temps)]
  BY DEF Drop, Release
<1>4. o.over = 0
  BY <1>1, <1>2, <1>3 DEF Stacked
<1>5. /\ op' = [op EXCEPT ![p] = r] /\ r.temps = Front(o.temps) /\ r.over = 0
      /\ r.at = "fail" /\ r.open = o.open
  BY <1>1, <1>3, <1>4 DEF Fields
<1>6. /\ Front(o.temps) \in Seq(Sizes) /\ Last(o.temps) \in Nat
      /\ SumFunction(Front(o.temps)) = SumFunction(o.temps) - Last(o.temps)
      /\ SumFunction(Front(o.temps)) \in Nat
  <2>1. Sizes \in SUBSET Nat
    BY Chunks DEF Sizes
  <2> QED BY <1>2, <1>3, <2>1, StackPop
<1> HIDE DEF o, r
<1>7. Stacked(r)
  <2>1. 0 \in 0..Chunk
    BY Chunks
  <2> QED BY <1>2, <1>5, <1>6, <2>1 DEF Stacked
<1>8. used' = used - Account(o) + Account(r) /\ SumFunction(r.temps) <= SumFunction(o.temps)
  BY <1>2, <1>3, <1>4, <1>5, <1>6 DEF Account
<1> QED BY <1>1, <1>5, <1>7, <1>8 DEF Books, o, r

\* A step that takes no bytes, in the ledger.
LEMMA GoesOn ==
    ASSUME OpInv, StackInv, NEW p \in Ops, NEW do, Running(p, do), used \in Int,
           NEW r, op' = [op EXCEPT ![p] = r], r.over = 0, Stacked(r),
           used' = used - SumFunction(op[p].temps) + SumFunction(r.temps),
           SumFunction(r.temps) <= SumFunction(op[p].temps)
    PROVE  Books(p)
<1>1. p \in DOMAIN op /\ op[p].over = 0 /\ SumFunction(op[p].temps) \in Nat
  BY HeadStacked
<1>2. op'[p] = r /\ op' = [op EXCEPT ![p] = op'[p]]
  BY <1>1
<1>3. SumFunction(r.temps) \in Nat
  BY Counted
<1>4. used' = used - Account(op[p]) + Account(op'[p])
  BY <1>1, <1>2, <1>3 DEF Account
<1> QED BY <1>1, <1>2, <1>4 DEF Books

\* A table is found, filed or a slot taken: no layer is touched.
LEMMA PlainBooks ==
    ASSUME OpInv, StackInv, NEW p \in Ops, used \in Int,
           Hit(p) \/ PutTable(p) \/ acquire(p)
    PROVE  Books(p)
<1> DEFINE o == op[p]
           r == op'[p]
<1>1. PICK do \in {"find", "put", "slot"} : Running(p, do)
  BY DEF Hit, PutTable, acquire
<1>2. /\ p \in DOMAIN op /\ DOMAIN o = Fields /\ o.at = "run" /\ o.over = 0
      /\ o.temps \in Seq(Sizes) /\ SumFunction(o.temps) \in Nat
  BY <1>1, HeadStacked
<1>3. used' = used
  BY DEF Hit, PutTable, acquire
<1>4. /\ op' = [op EXCEPT ![p] = r] /\ r.open = o.open /\ r.over = 0 /\ r.at = "run"
      /\ r.work = Tail(o.work) /\ r.temps = o.temps
  <2>1. CASE Hit(p)
    BY <1>2, <2>1 DEF Hit, Fields
  <2>2. CASE PutTable(p)
    BY <1>2, <2>2 DEF PutTable, Fields
  <2>3. CASE acquire(p)
    BY <1>2, <2>3 DEF acquire, Fields
  <2> QED BY <2>1, <2>2, <2>3
<1> HIDE DEF r
<1>5. Stacked(r)
  BY <1>1, <1>2, <1>4, Proceeds DEF Calls
<1>6. /\ used' = used - SumFunction(o.temps) + SumFunction(r.temps)
      /\ SumFunction(r.temps) <= SumFunction(o.temps)
  BY <1>2, <1>3, <1>4
<1> QED BY <1>1, <1>4, <1>5, <1>6, GoesOn

\* The archive on disk is a layer without a temp file.
LEMMA OpenBooks ==
    ASSUME OpInv, StackInv, NEW p \in Ops, used \in Int, OpenFile(p)
    PROVE  Books(p)
<1> DEFINE o == op[p]
           r == op'[p]
<1>1. Running(p, "read") /\ used' = used
  BY DEF OpenFile
<1>2. /\ p \in DOMAIN op /\ DOMAIN o = Fields /\ o.at = "run" /\ o.over = 0
      /\ o.temps \in Seq(Sizes) /\ SumFunction(o.temps) \in Nat /\ Len(o.temps) \in Nat
  BY <1>1, HeadStacked
<1>3. /\ op' = [op EXCEPT ![p] = r] /\ r.open = o.open /\ r.over = 0 /\ r.at = "run"
      /\ r.work = Tail(o.work) /\ r.temps = Append(o.temps, 0)
  BY <1>2 DEF OpenFile, Fields
<1> HIDE DEF o, r
<1>4. r.temps \in Seq(Sizes) /\ Len(r.temps) = Len(o.temps) + 1
  <2>1. 0 \in Sizes
    BY Chunks DEF Sizes
  <2> QED BY <1>2, <1>3, <2>1
<1>5. SumFunction(r.temps) = SumFunction(o.temps)
  <2>1. o.temps \in Seq(Nat) /\ 0 \in Nat
    BY <1>2, StackBytes
  <2>2. SumFunction(Append(o.temps, 0)) = SumFunction(o.temps) + 0
    BY <2>1, StackPush
  <2> QED BY <1>2, <1>3, <2>2
<1>6. Stacked(r)
  BY <1>1, <1>3, <1>4, Proceeds DEF o
<1>7. /\ used' = used - SumFunction(o.temps) + SumFunction(r.temps)
      /\ SumFunction(r.temps) <= SumFunction(o.temps)
  BY <1>1, <1>2, <1>5
<1> QED BY <1>1, <1>3, <1>6, <1>7, GoesOn DEF o

\* The top of the stack replaced.
LEMMA StackTop ==
    ASSUME NEW s \in Seq(Sizes), s # <<>>, NEW x \in Sizes
    PROVE  /\ Last(s) \in Nat /\ SumFunction(s) \in Nat /\ Len(s) \in Nat \ {0}
           /\ Front(s) \in Seq(Sizes) /\ Len(Front(s)) = Len(s) - 1
           /\ SumFunction(Front(s)) = SumFunction(s) - Last(s)
           /\ Append(Front(s), x) \in Seq(Sizes) /\ Len(Append(Front(s), x)) = Len(s)
           /\ SumFunction(Append(Front(s), x)) = SumFunction(s) - Last(s) + x
<1>0. Sizes \in SUBSET Nat
  BY Chunks DEF Sizes
<1>1. /\ Front(s) \in Seq(Sizes) /\ Last(s) \in Sizes /\ Len(Front(s)) = Len(s) - 1
      /\ SumFunction(Front(s)) = SumFunction(s) - Last(s) /\ Len(s) \in Nat \ {0}
      /\ SumFunction(s) \in Nat /\ SumFunction(Front(s)) \in Nat
  BY <1>0, StackPop
<1>2. PICK r \in Seq(Sizes) : r = Front(s)
  BY <1>1
<1>3. r \in Seq(Nat) /\ x \in Nat /\ Last(s) \in Nat
  BY <1>0, <1>1, StackBytes
<1>4. SumFunction(Append(r, x)) = SumFunction(r) + x
  BY <1>3, StackPush
<1>5. Append(r, x) \in Seq(Sizes) /\ Len(Append(r, x)) = Len(r) + 1
  OBVIOUS
<1>6. Len(Append(r, x)) = Len(s)
  BY <1>1, <1>2, <1>5
<1> QED BY <1>1, <1>2, <1>3, <1>4, <1>5, <1>6

\* The listing, or what a layer streamed out of its parent took, is let go.
LEMMA LetGoBooks ==
    ASSUME OpInv, StackInv, NEW p \in Ops, used \in Int, Stream(p) \/ ParseList(p)
    PROVE  Books(p)
<1> DEFINE o == op[p]
           r == op'[p]
           do == Head(o.work).do
<1>1. Running(p, do) /\ do \in {"spill", "parse"} /\ (ParseList(p) => do = "parse")
      /\ (Stream(p) => do = "spill")
  BY DEF Stream, ParseList, Running
<1>2. /\ p \in DOMAIN op /\ DOMAIN o = Fields /\ o.at = "run" /\ o.over = 0
      /\ o.temps \in Seq(Sizes) /\ SumFunction(o.temps) \in Nat /\ Len(o.temps) \in Nat
      /\ do \in Inner => Len(o.temps) >= 1
  BY <1>1, HeadStacked
<1>3. o.temps # <<>>
  BY <1>1, <1>2 DEF Inner
<1>4. 0 \in Sizes
  BY Chunks DEF Sizes
<1>5. /\ Last(o.temps) \in Nat
      /\ Front(o.temps) \in Seq(Sizes) /\ Len(Front(o.temps)) = Len(o.temps) - 1
      /\ SumFunction(Front(o.temps)) = SumFunction(o.temps) - Last(o.temps)
      /\ Append(Front(o.temps), 0) \in Seq(Sizes)
      /\ Len(Append(Front(o.temps), 0)) = Len(o.temps)
      /\ SumFunction(Append(Front(o.temps), 0)) = SumFunction(o.temps) - Last(o.temps) + 0
  BY <1>2, <1>3, <1>4, StackTop
<1>6. /\ op' = [op EXCEPT ![p] = r] /\ r.open = o.open /\ r.over = 0 /\ r.at = "run"
      /\ r.work = Tail(o.work)
      /\ \/ Stream(p) /\ r.temps = o.temps /\ used' = used
         \/ Stream(p) /\ r.temps = Append(Front(o.temps), 0) /\ used' = used - Last(o.temps)
         \/ ParseList(p) /\ r.temps = Front(o.temps) /\ used' = used - Last(o.temps)
  <2>1. CASE ParseList(p)
    BY <1>2, <2>1 DEF ParseList, Release, Fields
  <2>2. CASE Stream(p) /\ UNCHANGED used /\ op' = [op EXCEPT ![p].work = Tail(o.work)]
    BY <1>2, <2>2 DEF Fields
  <2>3. CASE /\ Stream(p) /\ used' = used - Last(o.temps)
             /\ op' = [op EXCEPT ![p].work = Tail(o.work), ![p].temps = Append(Front(o.temps), 0)]
    BY <1>2, <2>3 DEF Fields
  <2> QED BY <2>1, <2>2, <2>3 DEF Stream, Release
<1> HIDE DEF o, r, do
<1>7. /\ r.temps \in Seq(Sizes)
      /\ \/ do = "parse" /\ Len(r.temps) = Len(o.temps) - 1
         \/ do = "spill" /\ Len(r.temps) = Len(o.temps)
  BY <1>1, <1>2, <1>5, <1>6
<1>8. Stacked(r)
  BY <1>1, <1>6, <1>7, Proceeds DEF o
<1>9. /\ used' = used - SumFunction(o.temps) + SumFunction(r.temps)
      /\ SumFunction(r.temps) <= SumFunction(o.temps)
  <2>1. CASE r.temps = o.temps /\ used' = used
    BY <1>2, <2>1
  <2>2. CASE used' = used - Last(o.temps)
    <3>1. SumFunction(r.temps) = SumFunction(o.temps) - Last(o.temps)
      <4>1. CASE r.temps = Append(Front(o.temps), 0)
        <5>1. SumFunction(r.temps) = SumFunction(o.temps) - Last(o.temps) + 0
          BY <1>5, <4>1
        <5> QED BY <1>2, <1>5, <5>1
      <4>2. CASE r.temps = Front(o.temps)
        BY <1>5, <4>2
      <4>3. CASE r.temps = o.temps /\ used' = used
        <5>1. Last(o.temps) = 0
          BY <1>5, <2>2, <4>3
        <5> QED BY <1>2, <4>3, <5>1
      <4> QED BY <1>6, <4>1, <4>2, <4>3
    <3> QED BY <1>2, <1>5, <2>2, <3>1
  <2> QED BY <1>6, <2>1, <2>2
<1> QED BY <1>1, <1>6, <1>8, <1>9, GoesOn DEF o

\* A temp file is created on top of the layer it is filled from.
LEMMA CreateBooks ==
    ASSUME OpInv, StackInv, NEW p \in Ops, used \in Int, CreateTemp(p)
    PROVE  Books(p)
<1> DEFINE o == op[p]
           r == op'[p]
           w == o.work
           n == Len(o.temps)
<1>1. Running(p, "spill") /\ used' = used
  BY DEF CreateTemp
<1>2. /\ p \in DOMAIN op /\ DOMAIN o = Fields /\ o.at = "run" /\ o.over = 0
      /\ o.temps \in Seq(Sizes) /\ SumFunction(o.temps) \in Nat /\ n \in Nat
      /\ Stacked(o)
      /\ w \in Seq(Instr) /\ w # <<>> /\ Head(w).do = "spill"
  BY <1>1, HeadStacked, AtHead
<1>3. n >= 1
  BY <1>1, HeadStacked DEF Inner
<1>4. /\ op' = [op EXCEPT ![p] = r] /\ r.open = o.open /\ r.over = 0 /\ r.at = "run"
      /\ r.work = <<Write>> \o Tail(w) /\ r.temps = Append(o.temps, 0)
  BY <1>2 DEF CreateTemp, Fields
<1>5. Layered(w, n) /\ (~o.open => Closed(w, n)) /\ o.open \in BOOLEAN
  BY <1>2 DEF Stacked
<1> HIDE DEF r, w, n
<1>6. Tail(w) \in Seq(Instr) /\ 1 \in Nat /\ n + 1 \in Nat /\ n + 1 >= 2
  BY <1>2, <1>3, Rest
<1>7. Write \in Instr /\ Write.do = "write"
  BY Depth, Single, 0 \in Nat, 0 \in Layers DEF Write, Layers
<1>8. Layered(<<Write>> \o Tail(w), n + 1)
  <2>1. Layered(Tail(w), 1)
    BY <1>2, <1>3, <1>5, <1>6, RestLayered
  <2> QED BY <1>6, <1>7, <2>1, PushedLayered
<1>9. ASSUME ~o.open
      PROVE  Closed(<<Write>> \o Tail(w), n + 1)
  <2>1. Closed(w, n) /\ n <= 2 /\ n # 2
    <3>1. Head(w) = w[1]
      BY <1>2, Rest
    <3> QED BY <1>2, <1>5, <1>9, <3>1 DEF Closed
  <2>2. n = 1
    BY <1>2, <1>3, <2>1
  <2>3. Closed(Tail(w), 1)
    BY <1>2, <2>1, <2>2, RestClosed
  <2>4. n + 1 = 2
    BY <2>2
  <2>5. Closed(<<Write>> \o Tail(w), 2)
    BY <1>6, <1>7, <2>3, PushedClosed
  <2> QED BY <2>4, <2>5
<1>10. /\ r.temps \in Seq(Sizes) /\ Len(r.temps) = n + 1
  <2>1. 0 \in Sizes
    BY Chunks DEF Sizes
  <2> QED BY <1>2, <1>4, <2>1 DEF n
<1>11. SumFunction(r.temps) = SumFunction(o.temps)
  <2>1. o.temps \in Seq(Nat) /\ 0 \in Nat
    BY <1>2, StackBytes
  <2>2. SumFunction(Append(o.temps, 0)) = SumFunction(o.temps) + 0
    BY <2>1, StackPush
  <2> QED BY <1>2, <1>4, <2>2
<1>12. Stacked(r)
  <2>1. 0 \in 0..Chunk
    BY Chunks
  <2> QED BY <1>4, <1>5, <1>8, <1>9, <1>10, <2>1 DEF Stacked
<1>13. /\ used' = used - SumFunction(o.temps) + SumFunction(r.temps)
       /\ SumFunction(r.temps) <= SumFunction(o.temps)
  BY <1>1, <1>2, <1>11
<1> QED BY <1>1, <1>4, <1>12, <1>13, GoesOn

\* A chunk is counted, and written if it fits.
LEMMA ReserveBooks ==
    ASSUME OpInv, StackInv, NEW p \in Ops, used \in Int, reserve(p)
    PROVE  Books(p)
<1> DEFINE o == op[p]
           r == op'[p]
<1>1. Running(p, "write")
  BY DEF reserve
<1>2. PICK c \in 1..Chunk :
         /\ Last(o.temps) + c <= MaxLayerBytes + 1 /\ used' = used + c
         /\ op' = [op EXCEPT ![p] = IF used + c > MaxTempBytes THEN [o EXCEPT !.over = c]
                                    ELSE [o EXCEPT !.temps = Append(Front(o.temps), Last(o.temps) + c)]]
  BY Zenon DEF reserve
<1>3. /\ p \in DOMAIN op /\ DOMAIN o = Fields /\ o.at = "run" /\ o.over = 0
      /\ o.temps \in Seq(Sizes) /\ SumFunction(o.temps) \in Nat /\ Len(o.temps) \in Nat
      /\ Stacked(o) /\ Len(o.temps) >= 2 /\ o.work # <<>>
  BY <1>1, HeadStacked, AtHead
<1>4. c \in Nat /\ c \in 0..Chunk /\ 0 \in 0..Chunk /\ MaxTempBytes \in Nat
  BY Chunks
<1>5. o.temps # <<>>
  BY <1>3
<1>6. CASE used + c > MaxTempBytes
  <2>1. /\ op' = [op EXCEPT ![p] = r] /\ r.over = c /\ r.temps = o.temps /\ r.open = o.open
        /\ r.work = o.work /\ r.at = o.at
    BY <1>2, <1>3, <1>6 DEF Fields
  <2> HIDE DEF r, o
  <2>2. Stacked(r)
    BY <1>3, <1>4, <2>1 DEF Stacked
  <2>3. used' = used - Account(o) + Account(r)
    BY <1>2, <1>3, <1>4, <2>1 DEF Account
  <2>4. SumFunction(r.temps) <= SumFunction(o.temps)
    BY <1>3, <2>1
  <2> QED BY <1>3, <2>1, <2>2, <2>3, <2>4 DEF Books, r, o
<1>7. CASE ~(used + c > MaxTempBytes)
  <2> DEFINE x == Last(o.temps) + c
  <2>1. /\ op' = [op EXCEPT ![p] = r] /\ r.over = 0 /\ r.temps = Append(Front(o.temps), x)
        /\ r.open = o.open /\ r.work = o.work /\ r.at = o.at
    BY <1>2, <1>3, <1>7 DEF Fields
  <2>2. Last(o.temps) \in Nat
    <3>1. 0 \in Sizes
      BY Chunks DEF Sizes
    <3> QED BY <1>3, <1>5, <3>1, StackTop
  <2>3. x \in Sizes
    BY <1>2, <1>4, <2>2, Chunks DEF Sizes
  <2> HIDE DEF r, o, x
  <2>4. /\ r.temps \in Seq(Sizes) /\ Len(r.temps) = Len(o.temps)
        /\ SumFunction(r.temps) = SumFunction(o.temps) - Last(o.temps) + x
    BY <1>3, <1>5, <2>1, <2>3, StackTop
  <2>5. SumFunction(r.temps) = SumFunction(o.temps) + c
    BY <1>3, <1>4, <2>2, <2>4 DEF x
  <2>6. Stacked(r)
    BY <1>3, <1>4, <2>1, <2>4 DEF Stacked
  <2>7. used' = used - Account(o) + Account(r)
    BY <1>2, <1>3, <1>4, <2>1, <2>5 DEF Account
  <2>8. used' <= MaxTempBytes
    BY <1>2, <1>4, <1>7
  <2> QED BY <1>3, <2>1, <2>6, <2>7, <2>8 DEF Books, r, o
<1> QED BY <1>6, <1>7

\* The file is complete: the layer below it is let go.
LEMMA CopiedBooks ==
    ASSUME OpInv, StackInv, NEW p \in Ops, used \in Int,
           Copied(p), ~(Last(op[p].temps) > MaxLayerBytes)
    PROVE  Books(p)
<1> DEFINE o == op[p]
           r == op'[p]
           s == o.temps
<1>1. Running(p, "write") /\ used' = used - s[Len(s) - 1]
  BY DEF Copied, Release, Parent
<1>2. /\ p \in DOMAIN op /\ DOMAIN o = Fields /\ o.at = "run" /\ o.over = 0
      /\ s \in Seq(Sizes) /\ SumFunction(s) \in Nat /\ Len(s) \in Nat /\ Len(s) >= 2
  BY <1>1, HeadStacked
<1>3. /\ op' = [op EXCEPT ![p] = r] /\ r.open = o.open /\ r.over = 0 /\ r.at = "run"
      /\ r.work = Tail(o.work) /\ r.temps = Append(Front(Front(s)), Last(s))
  BY <1>2 DEF Copied, Fields
<1> HIDE DEF r, s, o
<1>4. Sizes \in SUBSET Nat /\ s # <<>>
  BY <1>2, Chunks DEF Sizes
<1>5. /\ Front(s) \in Seq(Sizes) /\ Last(s) \in Sizes /\ Len(Front(s)) = Len(s) - 1
      /\ \A i \in 1..(Len(s) - 1) : Front(s)[i] = s[i]
      /\ SumFunction(Front(s)) = SumFunction(s) - Last(s)
      /\ SumFunction(Front(s)) \in Nat
  BY <1>2, <1>4, StackPop
<1>6. PICK t \in Seq(Sizes) : t = Front(s)
  BY <1>5
<1>7. t # <<>> /\ Len(t) = Len(s) - 1 /\ t[Len(t)] = s[Len(s) - 1]
  BY <1>2, <1>5, <1>6
<1>8. /\ Front(t) \in Seq(Sizes) /\ Len(Front(t)) = Len(t) - 1 /\ Last(t) = t[Len(t)]
      /\ SumFunction(Front(t)) = SumFunction(t) - Last(t) /\ Last(t) \in Sizes
  BY <1>4, <1>7, StackPop
<1>9. /\ Append(Front(t), Last(s)) \in Seq(Sizes) /\ Len(Append(Front(t), Last(s))) = Len(t)
      /\ SumFunction(Append(Front(t), Last(s))) = SumFunction(t) - Last(t) + Last(s)
  BY <1>5, <1>7, StackTop
<1>10. r.temps \in Seq(Sizes) /\ Len(r.temps) = Len(s) - 1
  BY <1>3, <1>6, <1>7, <1>9
<1>11. SumFunction(r.temps) = SumFunction(s) - s[Len(s) - 1] /\ s[Len(s) - 1] \in Nat
  <2>1. Last(t) = s[Len(s) - 1] /\ Last(t) \in Nat /\ Last(s) \in Nat
    BY <1>4, <1>5, <1>7, <1>8
  <2>2. SumFunction(r.temps) = (SumFunction(s) - Last(s)) - Last(t) + Last(s)
    BY <1>3, <1>5, <1>6, <1>9
  <2> QED BY <1>2, <2>1, <2>2
<1>12. Stacked(r)
  BY <1>1, <1>2, <1>3, <1>10, Proceeds DEF s, o
<1>13. /\ used' = used - SumFunction(s) + SumFunction(r.temps)
       /\ SumFunction(r.temps) <= SumFunction(s)
  BY <1>1, <1>2, <1>11
<1> QED BY <1>1, <1>3, <1>12, <1>13, GoesOn DEF s, o

\* A call is replaced by what it is made of, which lets go of what it opens.
LEMMA ExpandsBooks ==
    ASSUME OpInv, StackInv, NEW p \in Ops, used \in Int, NEW do \in {"table", "find"},
           Running(p, do), NEW a \in Seq(Instr), Layered(a, 0), SelfClosed(a),
           Then(p, a), used' = used
    PROVE  Books(p)
<1> DEFINE o == op[p]
           r == op'[p]
           w == o.work
           n == Len(o.temps)
<1>1. /\ p \in DOMAIN op /\ DOMAIN o = Fields /\ o.at = "run" /\ o.over = 0
      /\ o.temps \in Seq(Sizes) /\ SumFunction(o.temps) \in Nat /\ n \in Nat
      /\ Stacked(o)
      /\ w \in Seq(Instr) /\ w # <<>> /\ Head(w).do = do
  BY HeadStacked, AtHead
<1>2. /\ op' = [op EXCEPT ![p] = r] /\ r.open = o.open /\ r.over = 0 /\ r.at = "run"
      /\ r.work = a \o Tail(w) /\ r.temps = o.temps
  BY <1>1 DEF Then, Fields
<1>3. Layered(w, n) /\ (~o.open => Closed(w, n)) /\ o.open \in BOOLEAN
  BY <1>1 DEF Stacked
<1> HIDE DEF r, w, n
<1>4. Tail(w) \in Seq(Instr) /\ 0 \in Nat /\ do \in Calls /\ do \in Shuts
  BY <1>1, Rest DEF Calls, Shuts
<1>5. Layered(a \o Tail(w), n)
  <2>1. Layered(Tail(w), 0)
    BY <1>1, <1>3, <1>4, RestLayered
  <2>2. Layered(a \o Tail(w), 0)
    BY <1>4, <2>1, JoinedLayered
  <2> QED BY <1>1, <2>2, MoreLayers
<1>6. ASSUME ~o.open
      PROVE  Closed(a \o Tail(w), n)
  <2>1. Closed(w, n)
    BY <1>3, <1>6
  <2>2. Closed(Tail(w), n) /\ n = 0
    BY <1>1, <1>4, <2>1, RestClosed
  <2>3. SelfClosed(a \o Tail(w))
    BY <1>4, <2>2, JoinedClosed DEF Closed
  <2> QED BY <2>2, <2>3 DEF Closed
<1>7. Stacked(r)
  <2>1. 0 \in 0..Chunk
    BY Chunks
  <2> QED BY <1>1, <1>2, <1>3, <1>5, <1>6, <2>1 DEF Stacked, n
<1>8. /\ used' = used - SumFunction(o.temps) + SumFunction(r.temps)
      /\ SumFunction(r.temps) <= SumFunction(o.temps)
  BY <1>1, <1>2
<1> QED BY <1>2, <1>7, <1>8, GoesOn

LEMMA KeyBooks ==
    ASSUME OpInv, StackInv, NEW p \in Ops, used \in Int, MakeKey(p) \/ Miss(p)
    PROVE  Books(p)
<1> DEFINE k == Head(op[p].work).key
<1>1. used' = used /\ ver \in Nat /\ 0 \in Nat
  BY DEF MakeKey, Miss, OpInv
<1>2. PICK do \in {"table", "find"} :
          /\ Running(p, do)
          /\ \/ Then(p, <<Find(Key(ver, k.layer))>>)
             \/ Then(p, listBlob(Key(0, k.layer)))
             \/ Then(p, listBlob(k))
  BY DEF MakeKey, Miss
<1>3. PICK v \in 0..ver, i \in Layers : k = Key(v, i)
  BY <1>2, HeadKey
<1>4. k.layer = i /\ v \in Nat
  BY <1>1, <1>3 DEF Key
<1>5. /\ <<Find(Key(ver, i))>> \in Seq(Instr) /\ listBlob(Key(0, i)) \in Seq(Instr)
      /\ listBlob(Key(v, i)) \in Seq(Instr)
  <2>1. Find(Key(ver, i)) \in Instr
    BY <1>1, Single
  <2>2. \A x \in Nat : listBlob(Key(x, i)) \in Seq(Instr)
    BY ListingShape
  <2> QED BY <1>1, <1>4, <2>1, <2>2
<1>6. 0 \in 0..(MaxDepth + 1)
  BY Depth
<1>7. /\ Layered(<<Find(Key(ver, i))>>, 0) /\ SelfClosed(<<Find(Key(ver, i))>>)
  BY <1>1, <1>6, TablesStacked
<1>8. /\ Layered(listBlob(Key(0, i)), 0) /\ SelfClosed(listBlob(Key(0, i)))
      /\ Layered(listBlob(Key(v, i)), 0) /\ SelfClosed(listBlob(Key(v, i)))
  BY <1>1, <1>4, ListingStacked
<1> QED BY <1>1, <1>2, <1>3, <1>4, <1>5, <1>7, <1>8, ExpandsBooks

LEMMA BeginBooks ==
    ASSUME OpInv, StackInv, NEW p \in Ops, used \in Int, NEW w, NEW open \in BOOLEAN,
           Layered(w, 0), open \/ SelfClosed(w), Begin(p, w, open)
    PROVE  Books(p)
<1> DEFINE o == op[p]
           r == op'[p]
<1>1. p \in DOMAIN op /\ Stacked(o)
  BY DEF OpInv, StackInv
<1>2. o.temps = <<>> /\ o.over = 0 /\ used' = used
  <2>1. o.at = "idle" /\ used' = used
    BY DEF Begin
  <2>2. o.over \in Nat
    BY <1>1, Counted
  <2> QED BY <1>1, <2>1, <2>2 DEF Stacked
<1>3. /\ op' = [op EXCEPT ![p] = r] /\ r.open = open /\ r.over = 0 /\ r.at = "run"
      /\ r.work = w /\ r.temps = <<>>
  BY <1>1 DEF Begin, Idle
<1> HIDE DEF o, r
<1>4. Stacked(r)
  <2>1. 0 \in 0..Chunk /\ <<>> \in Seq(Sizes) /\ Len(<<>>) = 0
    BY Chunks
  <2>2. ~open => Closed(w, 0)
    BY DEF Closed
  <2> QED BY <1>3, <2>1, <2>2 DEF Stacked
<1>5. used' = used - Account(o) + Account(r) /\ SumFunction(r.temps) <= SumFunction(o.temps)
  BY <1>2, <1>3, NoBytes DEF Account
<1> QED BY <1>1, <1>3, <1>4, <1>5 DEF Books, o, r

LEMMA CallBooks ==
    ASSUME OpInv, StackInv, NEW p \in Ops, used \in Int, NEW n \in 0..MaxDepth,
           Stat(p, n) \/ List(p, n) \/ Open(p, n)
    PROVE  Books(p)
<1>0. /\ MaxDepth \in Nat /\ n \in Layers /\ n \in 0..(MaxDepth + 1) /\ 0 \in Nat
      /\ n > 0 => n - 1 \in Layers
  BY Depth DEF Layers
<1>1. /\ Layered(resolve(n), 0) /\ SelfClosed(resolve(n)) /\ resolve(n) \in Seq(Instr)
      /\ \A i \in Layers : /\ Layered(<<Table(i)>>, 0) /\ SelfClosed(<<Table(i)>>)
                           /\ <<Table(i)>> \in Seq(Instr)
  <2>1. \A i \in Layers : Table(i) \in Instr
    BY <1>0, Single
  <2>2. resolve(n) \in Seq(Instr)
    BY <1>0, TablesSane DEF Sane
  <2>3. Layered(resolve(n), 0) /\ SelfClosed(resolve(n))
    BY <1>0, TablesStacked
  <2>4. \A i \in Layers : Layered(<<Table(i)>>, 0) /\ SelfClosed(<<Table(i)>>)
    BY <1>0, TablesStacked
  <2> QED BY <2>1, <2>2, <2>3, <2>4
<1>2. CASE Stat(p, n)
  BY <1>1, <1>2, BeginBooks DEF Stat
<1>3. CASE List(p, n)
  <2>1. PICK i \in Layers : Begin(p, resolve(n) \o <<Table(i)>>, FALSE)
    BY <1>0, <1>3 DEF List
  <2>2. Layered(resolve(n) \o <<Table(i)>>, 0) /\ SelfClosed(resolve(n) \o <<Table(i)>>)
    BY <1>1, JoinedLayered, JoinedClosed
  <2> QED BY <2>1, <2>2, BeginBooks
<1>4. CASE Open(p, n)
  <2>1. n - 1 \in Layers /\ Begin(p, resolve(n) \o openEntryRaw(n - 1), TRUE)
    BY <1>0, <1>4 DEF Open
  <2>2. Layered(openEntryRaw(n - 1), 0) /\ openEntryRaw(n - 1) \in Seq(Instr)
    BY <1>0, <2>1, OpenStacked, OpenSane DEF Sane
  <2>3. Layered(resolve(n) \o openEntryRaw(n - 1), 0)
    BY <1>1, <2>2, JoinedLayered
  <2> QED BY <2>1, <2>3, BeginBooks
<1> QED BY <1>2, <1>3, <1>4

\* Every step keeps the books of one operation or leaves them all alone.
LEMMA NextBooks ==
    ASSUME OpInv, StackInv, used \in Int, [Next]_vars
    PROVE  (\E p \in Ops : Books(p)) \/ UNCHANGED <<used, op>>
<1>1. CASE \E p \in Ops, n \in 0..MaxDepth : Stat(p, n) \/ List(p, n) \/ Open(p, n)
  BY <1>1, CallBooks
<1>2. CASE \E p \in Ops : Steps(p) \/ acquire(p) \/ Fails(p) \/ CloseStream(p)
  <2>1. PICK p \in Ops : Steps(p) \/ acquire(p) \/ Fails(p) \/ CloseStream(p)
    BY <1>2
  <2>2. CASE Answer(p) \/ End(p)
    BY <2>2, EndsBooks
  <2>3. CASE Fails(p) \/ CloseStream(p) \/ Refuse(p)
    BY <2>3, BreaksBooks
  <2>4. CASE Copied(p)
    BY <2>4, BreaksBooks, CopiedBooks
  <2>5. CASE Drop(p) \/ OpenFile(p) \/ CreateTemp(p) \/ reserve(p)
    BY <2>5, DropBooks, OpenBooks, CreateBooks, ReserveBooks
  <2>6. CASE Stream(p) \/ ParseList(p)
    BY <2>6, LetGoBooks
  <2>7. CASE MakeKey(p) \/ Miss(p)
    BY <2>7, KeyBooks
  <2>8. CASE Hit(p) \/ PutTable(p) \/ acquire(p)
    BY <2>8, PlainBooks
  <2>9. CASE RemoveTemp(p)
    BY <2>9 DEF RemoveTemp
  <2> QED BY <2>1, <2>2, <2>3, <2>4, <2>5, <2>6, <2>7, <2>8, <2>9 DEF Steps
<1>3. CASE Replace
  BY <1>3 DEF Replace
<1>4. CASE UNCHANGED vars
  BY <1>4 DEF vars
<1> QED BY <1>1, <1>2, <1>3, <1>4 DEF Next

\* All bytes in temp files, and all that are counted but did not fit.
Files == SumFunction([p \in Ops |-> TempBytes(p)])
Overs == SumFunction([p \in Ops |-> op[p].over])

LedgerInv ==
    StackInv /\ used = Files + Overs /\ Files <= MaxTempBytes

\* Either sum is that of a number for every operation.
LEMMA Totals ==
    ASSUME StackInv
    PROVE  /\ \A p \in Ops : TempBytes(p) \in Nat /\ op[p].over \in Nat
           /\ Files = SumFunctionOnSet([p \in Ops |-> TempBytes(p)], Ops) /\ Files \in Nat
           /\ Overs = SumFunctionOnSet([p \in Ops |-> op[p].over], Ops) /\ Overs \in Nat
<1>0. IsFiniteSet(Ops) /\ Ops \in SUBSET Ops
  BY BoundAssumption
<1>1. \A p \in Ops : TempBytes(p) \in Nat /\ op[p].over \in Nat
  BY Counted DEF StackInv, TempBytes
<1> DEFINE f == [p \in Ops |-> TempBytes(p)]
           g == [p \in Ops |-> op[p].over]
<1>2. /\ DOMAIN f = Ops /\ \A p \in Ops : f[p] \in Nat
      /\ DOMAIN g = Ops /\ \A p \in Ops : g[p] \in Nat
  BY <1>1
<1>3. Files = SumFunctionOnSet(f, Ops) /\ Overs = SumFunctionOnSet(g, Ops)
  BY DEF Files, Overs, SumFunction
<1> HIDE DEF f, g
<1>4. SumFunctionOnSet(f, Ops) \in Nat /\ SumFunctionOnSet(g, Ops) \in Nat
  BY <1>0, <1>2, SumSteps
<1> QED BY <1>1, <1>3, <1>4 DEF f, g

LEMMA BooksLedger ==
    ASSUME OpInv, LedgerInv, NEW p \in Ops, Books(p)
    PROVE  LedgerInv'
<1>0. IsFiniteSet(Ops) /\ DOMAIN op = Ops
  BY BoundAssumption DEF OpInv
<1>1. /\ op' = [op EXCEPT ![p] = op'[p]] /\ Stacked(op'[p]) /\ Stacked(op[p])
      /\ used' = used - Account(op[p]) + Account(op'[p])
      /\ \/ SumFunction(op'[p].temps) <= SumFunction(op[p].temps)
         \/ used' <= MaxTempBytes
  BY DEF Books, LedgerInv, StackInv
<1>2. \A q \in Ops : q # p => op'[q] = op[q]
  BY <1>0, <1>1
<1>3. StackInv'
  BY <1>1, <1>2 DEF StackInv, LedgerInv
<1> DEFINE f == [q \in Ops |-> TempBytes(q)]
           g == [q \in Ops |-> op[q].over]
           h == [q \in Ops |-> SumFunction(op'[q].temps)]
           k == [q \in Ops |-> op'[q].over]
<1>4. /\ \A q \in Ops : f[q] \in Nat /\ g[q] \in Nat
      /\ Files = SumFunctionOnSet(f, Ops) /\ Files \in Nat
      /\ Overs = SumFunctionOnSet(g, Ops) /\ Overs \in Nat
  BY Totals DEF LedgerInv
<1>5. /\ \A q \in Ops : h[q] \in Nat /\ k[q] \in Nat
      /\ Files' = SumFunctionOnSet(h, Ops) /\ Overs' = SumFunctionOnSet(k, Ops)
  <2>1. \A q \in Ops : h[q] \in Nat /\ k[q] \in Nat
    BY <1>3, Counted DEF StackInv
  <2>2. h = [q \in Ops |-> TempBytes(q)]' /\ k = [q \in Ops |-> op[q].over]'
    BY DEF TempBytes
  <2>3. Files' = SumFunction(h) /\ Overs' = SumFunction(k)
    BY <2>2 DEF Files, Overs
  <2>4. DOMAIN h = Ops /\ DOMAIN k = Ops
    OBVIOUS
  <2> HIDE DEF h, k
  <2> QED BY <2>1, <2>3, <2>4 DEF SumFunction
<1>6. /\ f[p] = SumFunction(op[p].temps) /\ g[p] = op[p].over
      /\ h[p] = SumFunction(op'[p].temps) /\ k[p] = op'[p].over
      /\ \A q \in Ops \ {p} : h[q] = f[q] /\ k[q] = g[q]
  BY <1>2 DEF TempBytes
<1> HIDE DEF f, g, h, k
<1>7. Files' = Files - f[p] + h[p] /\ Overs' = Overs - g[p] + k[p]
  <2>3. \A q \in Ops : h[q] \in Nat /\ f[q] \in Nat
    BY <1>4, <1>5
  <2>6. \A q \in Ops : k[q] \in Nat /\ g[q] \in Nat
    BY <1>4, <1>5
  <2>4. \A q \in Ops \ {p} : h[q] = f[q]
    BY <1>6
  <2>5. \A q \in Ops \ {p} : k[q] = g[q]
    BY <1>6
  <2>1. SumFunctionOnSet(h, Ops) = SumFunctionOnSet(f, Ops) - f[p] + h[p]
    BY <1>0, <2>3, <2>4, SumChange
  <2>2. SumFunctionOnSet(k, Ops) = SumFunctionOnSet(g, Ops) - g[p] + k[p]
    <3>1. ASSUME NEW v, NEW w, \A q \in Ops : v[q] \in Nat /\ w[q] \in Nat,
                 \A q \in Ops \ {p} : v[q] = w[q]
          PROVE  SumFunctionOnSet(v, Ops) = SumFunctionOnSet(w, Ops) - w[p] + v[p]
      BY <1>0, <3>1, SumChange
    <3> QED BY <2>5, <2>6, <3>1
  <2> QED BY <1>4, <1>5, <2>1, <2>2
<1>8. f[p] \in Nat /\ g[p] \in Nat /\ h[p] \in Nat /\ k[p] \in Nat
  BY <1>4, <1>5
<1>9. used' = used - (f[p] + g[p]) + (h[p] + k[p]) /\ used = Files + Overs
      /\ Files <= MaxTempBytes /\ MaxTempBytes \in Nat
  BY <1>1, <1>6, Chunks DEF Account, LedgerInv
<1>10. used' = Files' + Overs'
  BY <1>4, <1>7, <1>8, <1>9
<1>11. Overs' \in Nat /\ Files' \in Nat
  BY <1>0, <1>5, SumSteps
<1>12. Files' <= MaxTempBytes
  <2>1. CASE h[p] <= f[p]
    BY <1>4, <1>7, <1>8, <1>9, <2>1
  <2>2. CASE used' <= MaxTempBytes
    <3>1. ASSUME NEW a \in Nat, NEW b \in Nat, a + b <= MaxTempBytes
          PROVE  a <= MaxTempBytes
      BY <1>9, <3>1
    <3> QED BY <1>10, <1>11, <2>2, <3>1
  <2> QED BY <1>1, <1>6, <2>1, <2>2
<1> QED BY <1>3, <1>10, <1>12 DEF LedgerInv

LEMMA LedgerInit ==
    ASSUME Init
    PROVE  LedgerInv
<1>1. \A p \in Ops : op[p] = Idle
  BY DEF Init
<1>2. Idle.temps = <<>> /\ Idle.over = 0 /\ Stacked(Idle)
  <2>1. <<>> \in Seq(Sizes)
    OBVIOUS
  <2>2. PICK o : o = [temps |-> <<>>, held |-> FALSE]
    OBVIOUS
  <2>3. o.temps \in Seq(Sizes)
    BY <2>1, <2>2
  <2> QED BY <2>3, RestedStacked
<1>3. StackInv
  BY <1>1, <1>2 DEF StackInv
<1> DEFINE f == [p \in Ops |-> TempBytes(p)]
           g == [p \in Ops |-> op[p].over]
<1>4. \A p \in Ops : f[p] = 0 /\ g[p] = 0
  BY <1>1, <1>2, NoBytes DEF TempBytes
<1>5. /\ Files = SumFunctionOnSet(f, Ops) /\ Files \in Nat
      /\ Overs = SumFunctionOnSet(g, Ops) /\ Overs \in Nat
  BY <1>3, Totals
<1> HIDE DEF f, g
<1>6. IsFiniteSet(Ops) /\ Cardinality(Ops) \in Nat /\ 0 \in Nat
  BY BoundAssumption, FS_CardinalityType
<1>7. Files <= 0 * Cardinality(Ops) /\ Overs <= 0 * Cardinality(Ops)
  <2>1. \A p \in Ops : f[p] \in 0..0 /\ g[p] \in 0..0
    BY <1>4
  <2> QED BY <1>5, <1>6, <2>1, SumBound
<1>8. Files = 0 /\ Overs = 0
  BY <1>5, <1>6, <1>7
<1> QED BY <1>3, <1>8, Chunks DEF Init, LedgerInv

LEMMA LedgerStep ==
    ASSUME OpInv, LedgerInv, [Next]_vars
    PROVE  LedgerInv'
<1>1. used \in Int
  BY Totals DEF LedgerInv
<1>2. CASE \E p \in Ops : Books(p)
  BY <1>2, BooksLedger
<1>3. CASE UNCHANGED <<used, op>>
  BY <1>3 DEF LedgerInv, StackInv, Files, Overs, TempBytes
<1> QED BY <1>1, <1>2, <1>3, NextBooks DEF LedgerInv

LEMMA LedgerInvariant == Spec => []LedgerInv
<1>1. ResolverInv /\ LedgerInv /\ [Next]_vars => LedgerInv'
  BY LedgerStep DEF ResolverInv
<1> QED BY <1>1, LedgerInit, ResolverInvariant, PTL DEF Spec

-----------------------------------------------------------------------------
(* The form of the state.                                                  *)

States == {"idle", "run", "fail", "stream"}

Shaped(o, now) ==
    /\ o = [f \in Fields |-> o[f]]
    /\ o.at \in States /\ o.seen \in 0..now

\* The versions are those the archive has had.
ShapeInv ==
    /\ ver \in 1..MaxVersion
    /\ op = [p \in Ops |-> op[p]]
    /\ \A p \in Ops : Shaped(op[p], ver)

\* A step of p that keeps the form.
Shapes(p) == op' = [op EXCEPT ![p] = op'[p]] /\ Shaped(op'[p], ver) /\ ver' = ver

LEMMA ShapesBy ==
    ASSUME ShapeInv, NEW p \in Ops, NEW r, op' = [op EXCEPT ![p] = r],
           r = [f \in Fields |-> r[f]], r.at \in States, r.seen \in 0..ver, ver' = ver
    PROVE  Shapes(p)
<1>1. DOMAIN op = Ops
  BY DEF ShapeInv
<1>2. op'[p] = r
  BY <1>1
<1> QED BY <1>2 DEF Shapes, Shaped

LEMMA RestShapes ==
    ASSUME ShapeInv, NEW p \in Ops, Answer(p) \/ Fails(p) \/ End(p) \/ CloseStream(p) \/ Refuse(p)
    PROVE  Shapes(p)
<1>1. PICK r \in {Idle, Broken(op[p]), Streaming(op[p])} :
          op' = [op EXCEPT ![p] = r] /\ ver' = ver
  BY DEF Answer, Fails, End, CloseStream, Refuse
<1>2. 0 \in 0..ver
  BY Depth DEF ShapeInv
<1>3. r = [f \in Fields |-> r[f]] /\ r.at \in States /\ r.seen = 0
  <2>1. /\ Idle = [f \in Fields |-> Idle[f]]
        /\ Idle.at \in States /\ Idle.seen = 0
    BY DEF Idle, Fields, States
  <2>2. /\ Broken(op[p]) = [f \in Fields |-> Broken(op[p])[f]]
        /\ Broken(op[p]).at \in States /\ Broken(op[p]).seen = 0
    BY DEF Broken, Idle, Fields, States
  <2>3. /\ Streaming(op[p]) = [f \in Fields |-> Streaming(op[p])[f]]
        /\ Streaming(op[p]).at \in States /\ Streaming(op[p]).seen = 0
    BY DEF Streaming, Idle, Fields, States
  <2> QED BY <1>1, <2>1, <2>2, <2>3
<1> QED BY <1>1, <1>2, <1>3, ShapesBy

LEMMA CallShapes ==
    ASSUME ShapeInv, NEW p \in Ops, NEW n, Stat(p, n) \/ List(p, n) \/ Open(p, n)
    PROVE  Shapes(p)
<1>1. PICK w, open : Begin(p, w, open)
  BY DEF Stat, List, Open
<1> DEFINE r == [Idle EXCEPT !.at = "run", !.open = open, !.work = w, !.began = ver]
<1>2. op' = [op EXCEPT ![p] = r] /\ ver' = ver
  BY <1>1 DEF Begin
<1>3. 0 \in 0..ver
  BY Depth DEF ShapeInv
<1>4. r = [f \in Fields |-> r[f]] /\ r.at \in States /\ r.seen = 0
  BY DEF Idle, Fields, States
<1> HIDE DEF r
<1> QED BY <1>2, <1>3, <1>4, ShapesBy

\* Whatever a step changes of an operation, its form is kept.
LEMMA StepShapes ==
    ASSUME ShapeInv, NEW p \in Ops,
           \/ Drop(p) \/ MakeKey(p) \/ Hit(p) \/ Miss(p) \/ PutTable(p) \/ acquire(p)
           \/ OpenFile(p) \/ Stream(p) \/ CreateTemp(p) \/ reserve(p) \/ ParseList(p)
           \/ Copied(p)
    PROVE  Shapes(p)
<1> DEFINE o == op[p]
<1>1. /\ p \in DOMAIN op /\ DOMAIN o = Fields /\ o.at \in States /\ o.seen \in 0..ver
      /\ 0 \in 0..ver /\ ver \in 0..ver
  BY Depth DEF ShapeInv, Shaped
<1>2. ver' = ver
  BY DEF Drop, MakeKey, Hit, Miss, PutTable, acquire, OpenFile, Stream, CreateTemp, reserve,
         ParseList, Copied
<1>3. ASSUME NEW r, op' = [op EXCEPT ![p] = r], r = [f \in Fields |-> r[f]],
             r.at = o.at, r.seen \in {o.seen, 0, ver}
      PROVE  Shapes(p)
  BY <1>1, <1>2, <1>3, ShapesBy
<1>4. CASE Drop(p)
  <2> DEFINE r == [o EXCEPT !.temps = Front(o.temps)]
  <2>2. op' = [op EXCEPT ![p] = r]
    BY <1>4 DEF Drop
  <2>3. r = [f \in Fields |-> r[f]] /\ r.at = o.at /\ r.seen = o.seen
    BY <1>1 DEF Fields
  <2> HIDE DEF r
  <2> QED BY <1>3, <2>2, <2>3
<1>5. CASE MakeKey(p) \/ Miss(p)
  <2>1. PICK w : op' = [op EXCEPT ![p] = [o EXCEPT !.work = w]]
    BY <1>5 DEF MakeKey, Miss, Then
  <2> DEFINE r == [o EXCEPT !.work = w]
  <2>2. op' = [op EXCEPT ![p] = r]
    BY <2>1
  <2>3. r = [f \in Fields |-> r[f]] /\ r.at = o.at /\ r.seen = o.seen
    BY <1>1 DEF Fields
  <2> HIDE DEF r
  <2> QED BY <1>3, <2>2, <2>3
<1>6. CASE Hit(p)
  <2>1. PICK x : op' = [op EXCEPT ![p] = [o EXCEPT !.work = Tail(o.work), !.fresh = x]]
    BY <1>6 DEF Hit
  <2> DEFINE r == [o EXCEPT !.work = Tail(o.work), !.fresh = x]
  <2>2. op' = [op EXCEPT ![p] = r]
    BY <2>1
  <2>3. r = [f \in Fields |-> r[f]] /\ r.at = o.at /\ r.seen = o.seen
    BY <1>1 DEF Fields
  <2> HIDE DEF r
  <2> QED BY <1>3, <2>2, <2>3
<1>7. CASE PutTable(p)
  <2>1. PICK x : op' = [op EXCEPT ![p] = [o EXCEPT !.work = Tail(o.work), !.seen = 0, !.fresh = x]]
    BY <1>7 DEF PutTable
  <2> DEFINE r == [o EXCEPT !.work = Tail(o.work), !.seen = 0, !.fresh = x]
  <2>2. op' = [op EXCEPT ![p] = r]
    BY <2>1
  <2>3. r = [f \in Fields |-> r[f]] /\ r.at = o.at /\ r.seen = 0
    BY <1>1 DEF Fields
  <2> HIDE DEF r
  <2> QED BY <1>3, <2>2, <2>3
<1>8. CASE acquire(p)
  <2> DEFINE r == [o EXCEPT !.work = Tail(o.work), !.held = TRUE]
  <2>2. op' = [op EXCEPT ![p] = r]
    BY <1>8 DEF acquire
  <2>3. r = [f \in Fields |-> r[f]] /\ r.at = o.at /\ r.seen = o.seen
    BY <1>1 DEF Fields
  <2> HIDE DEF r
  <2> QED BY <1>3, <2>2, <2>3
<1>9. CASE OpenFile(p)
  <2> DEFINE r == [o EXCEPT !.work = Tail(o.work), !.seen = ver, !.temps = Append(o.temps, 0)]
  <2>2. op' = [op EXCEPT ![p] = r]
    BY <1>9 DEF OpenFile
  <2>3. r = [f \in Fields |-> r[f]] /\ r.at = o.at /\ r.seen = ver
    BY <1>1 DEF Fields
  <2> HIDE DEF r
  <2> QED BY <1>3, <2>2, <2>3
<1>10. CASE CreateTemp(p) \/ ParseList(p)
  <2>1. PICK w, t : op' = [op EXCEPT ![p] = [o EXCEPT !.work = w, !.temps = t]]
    BY <1>10 DEF CreateTemp, ParseList
  <2> DEFINE r == [o EXCEPT !.work = w, !.temps = t]
  <2>2. op' = [op EXCEPT ![p] = r]
    BY <2>1
  <2>3. r = [f \in Fields |-> r[f]] /\ r.at = o.at /\ r.seen = o.seen
    BY <1>1 DEF Fields
  <2> HIDE DEF r
  <2> QED BY <1>3, <2>2, <2>3
<1>11. CASE /\ Stream(p)
           /\ op' = [op EXCEPT ![p].work = Tail(o.work)]
  <2> DEFINE r == [o EXCEPT !.work = Tail(o.work)]
  <2>2. op' = [op EXCEPT ![p] = r]
    BY <1>11 DEF Stream
  <2>3. r = [f \in Fields |-> r[f]] /\ r.at = o.at /\ r.seen = o.seen
    BY <1>1 DEF Fields
  <2> HIDE DEF r
  <2> QED BY <1>3, <2>2, <2>3
<1>12. CASE /\ Stream(p)
           /\ op' = [op EXCEPT ![p].work = Tail(o.work),
                               ![p].temps = Append(Front(o.temps), 0)]
  <2> DEFINE r == [o EXCEPT !.work = Tail(o.work), !.temps = Append(Front(o.temps), 0)]
  <2>2. op' = [op EXCEPT ![p] = r]
    BY <1>12 DEF Stream
  <2>3. r = [f \in Fields |-> r[f]] /\ r.at = o.at /\ r.seen = o.seen
    BY <1>1 DEF Fields
  <2> HIDE DEF r
  <2> QED BY <1>3, <2>2, <2>3
<1>13. CASE reserve(p)
  <2>1. PICK c \in 1..Chunk :
         op' = [op EXCEPT ![p] = IF used + c > MaxTempBytes THEN [o EXCEPT !.over = c]
                                 ELSE [o EXCEPT !.temps = Append(Front(o.temps), Last(o.temps) + c)]]
    BY <1>13, Zenon DEF reserve
  <2>2. CASE used + c > MaxTempBytes
    <3> DEFINE r == [o EXCEPT !.over = c]
    <3>2. op' = [op EXCEPT ![p] = r]
      BY <2>1, <2>2
    <3>3. r = [f \in Fields |-> r[f]] /\ r.at = o.at /\ r.seen = o.seen
      BY <1>1 DEF Fields
    <3> HIDE DEF r
    <3> QED BY <1>3, <3>2, <3>3
  <2>3. CASE ~(used + c > MaxTempBytes)
    <3> DEFINE r == [o EXCEPT !.temps = Append(Front(o.temps), Last(o.temps) + c)]
    <3>2. op' = [op EXCEPT ![p] = r]
      BY <2>1, <2>3
    <3>3. r = [f \in Fields |-> r[f]] /\ r.at = o.at /\ r.seen = o.seen
      BY <1>1 DEF Fields
    <3> HIDE DEF r
    <3> QED BY <1>3, <3>2, <3>3
  <2> QED BY <2>2, <2>3
<1>14. CASE Copied(p)
  <2>1. CASE Last(o.temps) > MaxLayerBytes
    <3>1. op' = [op EXCEPT ![p] = Broken(o)]
      BY <1>14, <2>1 DEF Copied
    <3>2. /\ Broken(o) = [f \in Fields |-> Broken(o)[f]]
          /\ Broken(o).at \in States /\ Broken(o).seen = 0
      BY DEF Broken, Idle, Fields, States
    <3> QED BY <1>1, <1>2, <3>1, <3>2, ShapesBy
  <2>2. CASE ~(Last(o.temps) > MaxLayerBytes)
    <3>1. PICK t : op' = [op EXCEPT ![p] = [o EXCEPT !.work = Tail(o.work), !.temps = t]]
      BY <1>14, <2>2 DEF Copied
    <3> DEFINE r == [o EXCEPT !.work = Tail(o.work), !.temps = t]
    <3>2. op' = [op EXCEPT ![p] = r]
      BY <3>1
    <3>3. r = [f \in Fields |-> r[f]] /\ r.at = o.at /\ r.seen = o.seen
      BY <1>1 DEF Fields
    <3> HIDE DEF r
    <3> QED BY <1>3, <3>2, <3>3
  <2> QED BY <2>1, <2>2
<1>15. Stream(p) => \/ op' = [op EXCEPT ![p].work = Tail(o.work)]
                     \/ op' = [op EXCEPT ![p].work = Tail(o.work),
                                         ![p].temps = Append(Front(o.temps), 0)]
  BY DEF Stream
<1> QED BY <1>4, <1>5, <1>6, <1>7, <1>8, <1>9, <1>10, <1>11, <1>12, <1>13, <1>14, <1>15

LEMMA ShapeStep ==
    ASSUME ShapeInv, [Next]_vars
    PROVE  ShapeInv'
<1>1. CASE \E p \in Ops : Shapes(p)
  <2>1. PICK p \in Ops : Shapes(p)
    BY <1>1
  <2>2. DOMAIN op = Ops
    BY DEF ShapeInv
  <2>3. op' = [q \in Ops |-> op'[q]] /\ \A q \in Ops : q # p => op'[q] = op[q]
    BY <2>1, <2>2 DEF Shapes
  <2> QED BY <2>1, <2>3 DEF Shapes, ShapeInv
<1>2. CASE Replace
  <2>1. /\ ver' = ver + 1 /\ ver < MaxVersion /\ op' = op /\ ver \in 1..MaxVersion
        /\ MaxVersion \in Nat
    BY <1>2, Depth DEF Replace, ShapeInv
  <2>2. ver' \in 1..MaxVersion /\ \A x \in 0..ver : x \in 0..ver'
    BY <2>1
  <2> QED BY <2>1, <2>2 DEF ShapeInv, Shaped
<1>3. CASE UNCHANGED vars
  BY <1>3 DEF vars, ShapeInv, Shaped
<1>4. CASE \E p \in Ops : RemoveTemp(p)
  BY <1>4 DEF RemoveTemp, ShapeInv, Shaped
<1>5. CASE \E p \in Ops : Steps(p) \/ acquire(p) \/ Fails(p) \/ CloseStream(p)
  BY <1>1, <1>5, <1>4, RestShapes, StepShapes DEF Steps
<1>6. CASE \E p \in Ops, n \in 0..MaxDepth : Stat(p, n) \/ List(p, n) \/ Open(p, n)
  BY <1>1, <1>6, CallShapes
<1> QED BY <1>2, <1>3, <1>5, <1>6 DEF Next

-----------------------------------------------------------------------------
(* The cache of tables.                                                    *)

LEMMA LeastOf ==
    ASSUME NEW n \in Nat, NEW M, M \subseteq 0..n, M # {}
    PROVE  \E m \in M : \A l \in 0..(m - 1) : l \notin M
<1> DEFINE Below(m) == 0..(m - 1)
           Bad == {Below(m) : m \in M}
<1>1. IsFiniteSet(0..n) /\ Bad \subseteq SUBSET (0..n) /\ Bad # {}
  <2>1. IsFiniteSet(0..n)
    BY 0 \in Nat, FS_Interval
  <2>2. \A m \in 0..n : 0..(m - 1) \subseteq 0..n
    OBVIOUS
  <2> QED BY <2>1, <2>2
<1> HIDE DEF Bad
<1>2. PICK T \in Bad : \A U \in SUBSET T : U \in Bad => U = T
  <2>1. PICK N : N = 0..n
    OBVIOUS
  <2>2. IsFiniteSet(N) /\ Bad \subseteq SUBSET N /\ Bad # {}
    BY <1>1, <2>1
  <2> QED BY <2>2, SmallestSet
<1>3. PICK m \in M : T = Below(m)
  BY <1>2 DEF Bad
<1>4. ASSUME NEW l \in 0..(m - 1), l \in M
      PROVE  FALSE
  <2>1. m \in Nat /\ l \in Nat /\ l < m /\ l \in Below(m) /\ l \notin Below(l)
    BY <1>4
  <2>2. Below(l) \in SUBSET T /\ Below(l) \in Bad
    BY <1>3, <1>4, <2>1 DEF Bad
  <2>3. Below(l) = T
    BY <1>2, <2>2
  <2> QED BY <1>3, <2>1, <2>3
<1> QED BY <1>4

\* A sequence without the element at one place.
LEMMA TakenOut ==
    ASSUME NEW S, NEW s \in Seq(S), NEW i \in 1..Len(s)
    PROVE  /\ RemoveAt(s, i) \in Seq(S) /\ Len(RemoveAt(s, i)) = Len(s) - 1
           /\ \A j \in 1..(i - 1) : RemoveAt(s, i)[j] = s[j]
           /\ \A j \in i..(Len(s) - 1) : RemoveAt(s, i)[j] = s[j + 1]
<1> DEFINE n == Len(s)
           a == SubSeq(s, 1, i - 1)
           b == SubSeq(s, i + 1, n)
<1>1. n \in Nat /\ i \in Nat /\ 1 <= i /\ i <= n
  OBVIOUS
<1>2. /\ a \in Seq(S) /\ Len(a) = i - 1
      /\ \A j \in 1..(i - 1) : a[j] = s[j]
  BY <1>1
<1>3. /\ b \in Seq(S) /\ Len(b) = n - i
      /\ \A j \in 1..(n - i) : b[j] = s[j + i]
  BY <1>1
<1> HIDE DEF a, b, n
<1>4. /\ a \o b \in Seq(S) /\ Len(a \o b) = n - 1
      /\ \A j \in 1..(i - 1) : (a \o b)[j] = a[j]
      /\ \A j \in 1..(n - i) : (a \o b)[(i - 1) + j] = b[j]
  <2>1. /\ a \o b \in Seq(S) /\ Len(a \o b) = Len(a) + Len(b)
        /\ \A j \in 1..Len(a) : (a \o b)[j] = a[j]
        /\ \A j \in 1..Len(b) : (a \o b)[Len(a) + j] = b[j]
    <3>1. a \in Seq(S) /\ b \in Seq(S)
      BY <1>2, <1>3
    <3> QED BY ONLY <3>1, Joined
  <2>2. (i - 1) + (n - i) = n - 1
    BY <1>1
  <2> QED BY <1>2, <1>3, <2>1, <2>2
<1>5. ASSUME NEW j \in i..(n - 1)
      PROVE  (a \o b)[j] = s[j + 1]
  <2>1. PICK l \in 1..(n - i) : l = j - i + 1
    BY <1>1
  <2>2. (i - 1) + l = j /\ l + i = j + 1
    BY <1>1, <2>1
  <2> QED BY <1>3, <1>4, <2>2
<1>6. RemoveAt(s, i) = a \o b
  BY DEF RemoveAt, a, b, n
<1> QED BY <1>2, <1>4, <1>5, <1>6 DEF n

\* What is touched is taken from its place and comes last.
LEMMA FoundAt ==
    ASSUME NEW S, NEW s \in Seq(S), IsInjective(s), NEW i \in 1..Len(s)
    PROVE  RemoveFirst(s, s[i]) = RemoveAt(s, i)
<1>1. {j \in 1..Len(s) : s[j] = s[i]} = {i}
  BY DEF IsInjective
<1>2. i \in Nat
  OBVIOUS
<1>3. Min({i}) = i
  BY <1>2 DEF Min
<1>4. SelectInSeq(s, LAMBDA v : v = s[i]) = i
  BY <1>1, <1>3 DEF SelectInSeq
<1> QED BY <1>4 DEF RemoveFirst

Keys == [ver : 1..MaxVersion, layer : Layers]

\* The keys are those of the tables, each once.
Listed(keys, D) == keys \in Seq(Keys) /\ IsInjective(keys) /\ D = ToSet(keys)

LEMMA Places ==
    ASSUME NEW keys, NEW D, Listed(keys, D)
    PROVE  /\ Len(keys) \in Nat /\ DOMAIN keys = 1..Len(keys)
           /\ \A i \in 1..Len(keys) : keys[i] \in Keys /\ keys[i] \in D
           /\ \A i, j \in 1..Len(keys) : keys[i] = keys[j] => i = j
           /\ \A k \in D : \E i \in 1..Len(keys) : k = keys[i]
           /\ IsFiniteSet(D) /\ D \subseteq Keys
<1>1. /\ Len(keys) \in Nat /\ DOMAIN keys = 1..Len(keys)
      /\ \A i \in 1..Len(keys) : keys[i] \in Keys
      /\ \A i, j \in 1..Len(keys) : keys[i] = keys[j] => i = j
  BY DEF Listed, IsInjective
<1>2. D = {keys[i] : i \in 1..Len(keys)}
  BY <1>1 DEF Listed, ToSet
<1>3. IsFiniteSet(1..Len(keys))
  BY <1>1, 1 \in Nat, FS_Interval
<1>4. IsFiniteSet({keys[i] : i \in 1..Len(keys)})
  <2>1. PICK N : N = 1..Len(keys)
    OBVIOUS
  <2> DEFINE f == [i \in N |-> keys[i]]
  <2>2. IsFiniteSet(N) /\ f \in [N -> D]
    BY <1>2, <1>3, <2>1
  <2>3. \A k \in D : \E i \in N : f[i] = k
    BY <1>2, <2>1
  <2> HIDE DEF f
  <2>4. IsFiniteSet(D)
    BY <2>2, <2>3, FS_Surjection DEF Surjection
  <2> QED BY <1>2, <2>4
<1> QED BY <1>1, <1>2, <1>4

LEMMA ListedBy ==
    ASSUME NEW keys \in Seq(Keys), NEW D,
           \A i, j \in 1..Len(keys) : keys[i] = keys[j] => i = j,
           \A i \in 1..Len(keys) : keys[i] \in D,
           \A k \in D : \E i \in 1..Len(keys) : k = keys[i]
    PROVE  Listed(keys, D)
<1>1. DOMAIN keys = 1..Len(keys)
  OBVIOUS
<1> QED BY <1>1 DEF Listed, IsInjective, ToSet

LEMMA TouchedListed ==
    ASSUME NEW keys, NEW D, Listed(keys, D), NEW k \in Keys
    PROVE  /\ Listed(Touched(keys, k), D \union {k})
           /\ Len(Touched(keys, k)) \in Nat \ {0}
           /\ k \in D => Len(Touched(keys, k)) = Len(keys)
<1> DEFINE n == Len(keys)
           r == RemoveFirst(keys, k)
<1>1. /\ n \in Nat /\ keys \in Seq(Keys)
      /\ \A i \in 1..n : keys[i] \in Keys /\ keys[i] \in D
      /\ \A i, j \in 1..n : keys[i] = keys[j] => i = j
      /\ \A x \in D : \E i \in 1..n : x = keys[i]
  BY Places DEF Listed
<1>2. /\ r \in Seq(Keys)
      /\ \A i, j \in 1..Len(r) : r[i] = r[j] => i = j
      /\ \A i \in 1..Len(r) : r[i] \in D \ {k}
      /\ \A x \in D \ {k} : \E i \in 1..Len(r) : x = r[i]
      /\ k \in D => Len(r) = n - 1
  <2>1. CASE k \notin D
    <3>1. r = keys
      BY <1>1, <2>1 DEF RemoveFirst
    <3> QED BY <1>1, <2>1, <3>1
  <2>2. CASE k \in D
    <3>1. PICK i \in 1..n : k = keys[i]
      BY <1>1, <2>2
    <3>2. r = RemoveAt(keys, i)
      BY <1>1, <3>1, FoundAt DEF Listed
    <3>3. /\ r \in Seq(Keys) /\ Len(r) = n - 1
          /\ \A j \in 1..(i - 1) : r[j] = keys[j]
          /\ \A j \in i..(n - 1) : r[j] = keys[j + 1]
      <4>1. i \in 1..Len(keys) /\ keys \in Seq(Keys)
        BY <1>1
      <4> HIDE DEF r
      <4> QED BY <3>2, <4>1, TakenOut
    <3> HIDE DEF n, r
    <3>4. ASSUME NEW j \in 1..(n - 1)
          PROVE  \E l \in 1..n : l # i /\ r[j] = keys[l] /\ l = (IF j < i THEN j ELSE j + 1)
      <4>1. j \in 1..(i - 1) \/ j \in i..(n - 1)
        BY <1>1
      <4>2. CASE j \in 1..(i - 1)
        BY <1>1, <3>3, <4>2
      <4>3. CASE j \in i..(n - 1)
        <5>1. j + 1 \in 1..n /\ j + 1 # i /\ ~(j < i)
          BY <1>1, <4>3
        <5> QED BY <3>3, <4>3, <5>1
      <4> QED BY <4>1, <4>2, <4>3
    <3>5. \A j \in 1..(n - 1) : r[j] \in D \ {k}
      BY <1>1, <3>1, <3>4
    <3>6. ASSUME NEW j \in 1..(n - 1), NEW m \in 1..(n - 1), r[j] = r[m]
          PROVE  j = m
      <4>1. (IF j < i THEN j ELSE j + 1) = (IF m < i THEN m ELSE m + 1)
        BY <1>1, <3>4, <3>6
      <4> QED BY <1>1, <4>1
    <3>7. ASSUME NEW x \in D \ {k}
          PROVE  \E j \in 1..(n - 1) : x = r[j]
      <4>1. PICK l \in 1..n : x = keys[l] /\ l # i
        BY <1>1, <3>1, <3>7
      <4>2. CASE l < i
        <5>1. l \in 1..(i - 1) /\ l \in 1..(n - 1)
          BY <1>1, <4>2
        <5> QED BY <3>3, <4>1, <5>1
      <4>3. CASE ~(l < i)
        <5>1. l - 1 \in i..(n - 1) /\ l - 1 \in 1..(n - 1) /\ (l - 1) + 1 = l
          BY <1>1, <4>1, <4>3
        <5> QED BY <3>3, <4>1, <5>1
      <4> QED BY <4>2, <4>3
    <3> QED BY <3>3, <3>5, <3>6, <3>7
  <2> QED BY <2>1, <2>2
<1> DEFINE t == Append(r, k)
           m == Len(r)
<1> HIDE DEF r, n
<1>3. /\ t \in Seq(Keys) /\ Len(t) = m + 1 /\ m \in Nat /\ t[m + 1] = k
      /\ \A i \in 1..m : t[i] = r[i]
  BY <1>2
<1> HIDE DEF t, m
<1>4. \A i \in 1..(m + 1) : i = m + 1 \/ i \in 1..m
  BY <1>3
<1>5. \A i, j \in 1..Len(t) : t[i] = t[j] => i = j
  BY <1>2, <1>3, <1>4 DEF m
<1>6. \A i \in 1..Len(t) : t[i] \in D \union {k}
  BY <1>2, <1>3, <1>4 DEF m
<1>7. ASSUME NEW x \in D \union {k}
      PROVE  \E i \in 1..Len(t) : x = t[i]
  <2>1. CASE x = k
    BY <1>3, <2>1
  <2>2. CASE x # k
    <3>1. PICK i \in 1..m : x = r[i]
      BY <1>2, <2>2 DEF m
    <3>2. i \in 1..Len(t)
      BY <1>3
    <3> QED BY <1>3, <3>1, <3>2
  <2> QED BY <2>1, <2>2
<1>8. Listed(t, D \union {k})
  BY <1>3, <1>5, <1>6, <1>7, ListedBy
<1>9. t = Touched(keys, k)
  BY DEF t, r, Touched
<1>10. Len(t) \in Nat \ {0} /\ (k \in D => Len(t) = n)
  BY <1>1, <1>2, <1>3 DEF m
<1> QED BY <1>8, <1>9, <1>10 DEF n

\* The byte count is the sum over the tables.
Exact(c) ==
    /\ Listed(c.keys, DOMAIN c.vals)
    /\ \A k \in DOMAIN c.vals : c.vals[k] \in 1..MaxVersion
    /\ c.bytes = SumFunction([k \in DOMAIN c.vals |-> Size(c.vals, k)])

LEMMA SizeType ==
    ASSUME NEW vals, NEW k \in Keys, vals[k] \in 1..MaxVersion
    PROVE  Size(vals, k) \in Nat
<1>1. k.layer \in 0..MaxDepth
  BY DEF Keys, Layers
<1>2. TableSize[vals[k]] \in [0..MaxDepth -> Nat \ {0}]
  BY BoundAssumption
<1>3. TableSize[vals[k]][k.layer] \in Nat \ {0}
  BY <1>1, <1>2
<1> QED BY <1>3 DEF Size

LEMMA Weighed ==
    ASSUME NEW c, Exact(c)
    PROVE  /\ IsFiniteSet(DOMAIN c.vals)
           /\ \A k \in DOMAIN c.vals : k \in Keys /\ Size(c.vals, k) \in Nat
           /\ c.bytes = SumFunctionOnSet([k \in DOMAIN c.vals |-> Size(c.vals, k)], DOMAIN c.vals)
           /\ c.bytes \in Nat
<1> DEFINE D == DOMAIN c.vals
           w == [k \in D |-> Size(c.vals, k)]
<1>1. IsFiniteSet(D) /\ D \subseteq Keys
  BY Places DEF Exact
<1>2. \A k \in D : k \in Keys /\ Size(c.vals, k) \in Nat
  BY <1>1, SizeType DEF Exact
<1>3. DOMAIN w = D /\ \A k \in D : w[k] \in Nat
  BY <1>2
<1>4. c.bytes = SumFunctionOnSet(w, D)
  BY DEF Exact, SumFunction
<1> HIDE DEF D, w
<1>5. SumFunctionOnSet(w, D) \in Nat
  BY <1>1, <1>3, D \in SUBSET D, SumSteps
<1> QED BY <1>1, <1>2, <1>4, <1>5 DEF D, w

LEMMA StoredExact ==
    ASSUME Exact(cache), NEW k \in Keys, NEW v \in 1..MaxVersion
    PROVE  Exact(Stored(k, v)) /\ Len(Stored(k, v).keys) \in Nat \ {0}
<1> DEFINE c == Stored(k, v)
           D == DOMAIN cache.vals
           E == D \union {k}
           R == D \ {k}
           old == IF k \in D THEN Size(cache.vals, k) ELSE 0
           vals == [x \in E |-> IF x = k THEN v ELSE cache.vals[x]]
           w == [x \in D |-> Size(cache.vals, x)]
           u == [x \in E |-> Size(vals, x)]
<1>1. /\ c.keys = Touched(cache.keys, k) /\ c.vals = vals
      /\ c.bytes = cache.bytes + TableSize[v][k.layer] - old
  BY DEF Stored
<1>2. /\ Listed(cache.keys, D) /\ \A x \in D : cache.vals[x] \in 1..MaxVersion
  BY DEF Exact
<1>3. /\ IsFiniteSet(D) /\ \A x \in D : x \in Keys /\ Size(cache.vals, x) \in Nat
      /\ cache.bytes = SumFunctionOnSet(w, D) /\ cache.bytes \in Nat
  BY Weighed
<1>4. DOMAIN vals = E /\ vals[k] = v /\ \A x \in R : vals[x] = cache.vals[x]
  OBVIOUS
<1>5. \A x \in E : vals[x] \in 1..MaxVersion /\ x \in Keys
  BY <1>2, <1>3
<1>6. /\ Listed(c.keys, E) /\ Len(c.keys) \in Nat \ {0}
  BY <1>1, <1>2, TouchedListed
<1> HIDE DEF vals, c
<1>7. /\ \A x \in E : u[x] \in Nat /\ u[x] = Size(vals, x)
      /\ u[k] = TableSize[v][k.layer]
      /\ \A x \in R : u[x] = w[x]
  <2>1. \A x \in E : Size(vals, x) \in Nat
    BY <1>5, SizeType
  <2>2. Size(vals, k) = TableSize[v][k.layer]
    BY <1>4 DEF Size
  <2>3. \A x \in R : Size(vals, x) = Size(cache.vals, x)
    BY <1>4 DEF Size
  <2> QED BY <2>1, <2>2, <2>3
<1>8. /\ \A x \in D : w[x] \in Nat /\ w[x] = Size(cache.vals, x)
  BY <1>3
<1>9. /\ IsFiniteSet(E) /\ IsFiniteSet(R) /\ k \in E /\ E \ {k} = R /\ E \in SUBSET E
      /\ R \in SUBSET D /\ D \in SUBSET D
  BY <1>3, FS_AddElement, FS_Subset
<1> HIDE DEF u, w
<1>10. SumFunctionOnSet(u, E) = u[k] + SumFunctionOnSet(u, R)
  <2>1. \A x \in E : u[x] \in Nat
    BY <1>7
  <2> HIDE DEF E, R
  <2> QED BY <1>9, <2>1, SumSteps
<1>11. SumFunctionOnSet(u, R) = SumFunctionOnSet(w, R)
  <2>1. \A x \in R : u[x] = w[x] /\ w[x] \in Nat
    BY <1>7, <1>8
  <2> HIDE DEF R
  <2> QED BY <1>9, <2>1, SumSame
<1>12. SumFunctionOnSet(w, R) = cache.bytes - old /\ SumFunctionOnSet(w, R) \in Nat /\ old \in Nat
  <2>0. SumFunctionOnSet(w, R) \in Nat
    <3>1. \A x \in D : w[x] \in Nat
      BY <1>8
    <3> HIDE DEF D, R
    <3> QED BY <1>3, <1>9, <3>1, SumSteps
  <2>1. CASE k \in D
    <3>1. SumFunctionOnSet(w, D) = w[k] + SumFunctionOnSet(w, R)
      <4>1. \A x \in D : w[x] \in Nat
        BY <1>8
      <4> HIDE DEF D
      <4> QED BY <1>3, <1>9, <2>1, <4>1, SumSteps
    <3>2. old = w[k] /\ w[k] \in Nat
      BY <1>8, <2>1
    <3> HIDE DEF old, D, R
    <3> QED BY <1>3, <2>0, <3>1, <3>2
  <2>2. CASE k \notin D
    <3>1. R = D /\ old = 0
      BY <2>2
    <3> HIDE DEF old, D, R
    <3> QED BY <1>3, <2>0, <3>1
  <2> QED BY <2>1, <2>2
<1> HIDE DEF old
<1>13. c.bytes = SumFunctionOnSet(u, E)
  <2>1. u[k] \in Nat /\ u[k] = TableSize[v][k.layer]
    BY <1>7
  <2> HIDE DEF E, R, D
  <2> QED BY <1>1, <1>3, <1>10, <1>11, <1>12, <2>1
<1>14. c.bytes = SumFunction([x \in DOMAIN c.vals |-> Size(c.vals, x)])
  BY <1>1, <1>4, <1>13 DEF SumFunction, u
<1>15. Exact(c)
  BY <1>1, <1>4, <1>5, <1>6, <1>14 DEF Exact
<1> QED BY <1>6, <1>15 DEF c

\* What is left when the n oldest go.
LEMMA WithoutOldest ==
    ASSUME NEW c, Exact(c), NEW n \in 0..(Len(c.keys) - 1),
           NEW old, old = {c.keys[j] : j \in 1..n}
    PROVE  /\ Listed(SubSeq(c.keys, n + 1, Len(c.keys)), DOMAIN c.vals \ old)
           /\ Len(SubSeq(c.keys, n + 1, Len(c.keys))) = Len(c.keys) - n
           /\ BytesWithout(c, n) = SumFunctionOnSet([k \in DOMAIN c.vals |-> Size(c.vals, k)],
                                                    DOMAIN c.vals \ old)
           /\ BytesWithout(c, n) \in Nat
<1> DEFINE D == DOMAIN c.vals
           w == [k \in D |-> Size(c.vals, k)]
           keys == c.keys
           L == Len(keys)
           r == SubSeq(keys, n + 1, L)
           J == 1..n
           x == [j \in J |-> Size(c.vals, keys[j])]
<1>1. /\ L \in Nat /\ keys \in Seq(Keys) /\ Listed(keys, D)
      /\ \A i \in 1..L : keys[i] \in Keys /\ keys[i] \in D
      /\ \A i, j \in 1..L : keys[i] = keys[j] => i = j
      /\ \A k \in D : \E i \in 1..L : k = keys[i]
  BY Places DEF Exact, Listed
<1>2. n \in Nat /\ n < L /\ J \subseteq 1..L /\ IsFiniteSet(J)
  <2>1. n \in Nat /\ n < L
    BY <1>1
  <2>2. IsFiniteSet(1..n)
    BY <2>1, 1 \in Nat, FS_Interval
  <2> QED BY <1>1, <2>1, <2>2
<1>3. /\ IsFiniteSet(D) /\ \A k \in D : w[k] \in Nat /\ w[k] = Size(c.vals, k)
      /\ c.bytes = SumFunctionOnSet(w, D) /\ c.bytes \in Nat
  BY Weighed
<1>4. old \in SUBSET D
  <2>1. ASSUME NEW k \in old
        PROVE  k \in D
    <3>1. PICK j \in 1..n : k = keys[j]
      OBVIOUS
    <3>2. j \in 1..L
      BY <1>2
    <3> QED BY <1>1, <3>1, <3>2
  <2> QED BY <2>1
<1>5. /\ r \in Seq(Keys) /\ Len(r) = L - n
      /\ \A i \in 1..(L - n) : r[i] = keys[i + n]
  BY <1>1, <1>2
<1> HIDE DEF L, r, keys
<1>6. Listed(r, D \ old)
  <2>1. ASSUME NEW i \in 1..(L - n)
        PROVE  i + n \in 1..L /\ i + n \notin J
    BY <1>1, <1>2
  <2>2. ASSUME NEW i \in 1..Len(r)
        PROVE  r[i] \in D \ old
    <3>1. r[i] = keys[i + n] /\ i + n \in 1..L /\ i + n \notin J
      BY <1>5, <2>1
    <3>2. \A j \in J : keys[j] # keys[i + n]
      BY <1>1, <1>2, <3>1
    <3>3. keys[i + n] \notin old
      BY <3>2 DEF keys
    <3> QED BY <1>1, <3>1, <3>3
  <2>3. ASSUME NEW i \in 1..Len(r), NEW j \in 1..Len(r), r[i] = r[j]
        PROVE  i = j
    <3>2. /\ r[i] = keys[i + n] /\ i + n \in 1..L
          /\ r[j] = keys[j + n] /\ j + n \in 1..L
      BY <1>5, <2>1
    <3>1. i + n = j + n
      BY <1>1, <2>3, <3>2
    <3> QED BY <1>1, <1>2, <1>5, <3>1
  <2>4. ASSUME NEW k \in D \ old
        PROVE  \E i \in 1..Len(r) : k = r[i]
    <3>1. PICK i \in 1..L : k = keys[i]
      BY <1>1
    <3>2. i \notin J
      BY <3>1 DEF keys
    <3>3. i - n \in 1..(L - n) /\ (i - n) + n = i
      BY <1>1, <1>2, <3>2
    <3> QED BY <1>5, <3>1, <3>3
  <2> QED BY <1>5, <2>2, <2>3, <2>4, ListedBy
<1>7. SumFunctionOnSet(x, J) = SumFunctionOnSet(w, old)
  <2>1. \A j \in J : x[j] \in Nat /\ x[j] = w[keys[j]]
    BY <1>1, <1>2, <1>3
  <2>2. \A i, j \in J : keys[i] = keys[j] => i = j
    BY <1>1, <1>2
  <2>3. old = {keys[j] : j \in J}
    BY DEF keys
  <2> HIDE DEF x, w, J
  <2>4. IsFiniteSet(J)
    BY <1>2
  <2>5. SumFunctionOnSet(x, J) = SumFunctionOnSet(w, {keys[j] : j \in J})
    BY ONLY <2>1, <2>2, <2>4, SumRenamed
  <2> QED BY <2>3, <2>5
<1>8. BytesWithout(c, n) = c.bytes - SumFunctionOnSet(x, J)
  BY DEF BytesWithout, SumFunction, keys
<1> HIDE DEF w, x, J, D
<1>9. /\ SumFunctionOnSet(w, D) = SumFunctionOnSet(w, old) + SumFunctionOnSet(w, D \ old)
      /\ SumFunctionOnSet(w, old) \in Nat /\ SumFunctionOnSet(w, D \ old) \in Nat
  <2>1. \A k \in D : w[k] \in Nat
    BY <1>3
  <2>2. SumFunctionOnSet(w, D) = SumFunctionOnSet(w, old) + SumFunctionOnSet(w, D \ old)
    BY <1>3, <1>4, <2>1, SumParts
  <2>3. \A T \in SUBSET D : SumFunctionOnSet(w, T) \in Nat
    BY <1>3, <2>1, SumSteps
  <2> QED BY <1>4, <2>2, <2>3
<1>10. BytesWithout(c, n) = SumFunctionOnSet(w, D \ old)
  BY <1>3, <1>7, <1>8, <1>9
<1> QED BY <1>5, <1>6, <1>9, <1>10 DEF D, w, r, L, keys

LEMMA EvictedExact ==
    ASSUME NEW c, Exact(c), Len(c.keys) \in Nat \ {0}
    PROVE  /\ Exact(Evicted(c))
           /\ Len(Evicted(c).keys) \in Nat \ {0} /\ Len(Evicted(c).keys) <= CacheSlots
           /\ Len(Evicted(c).keys) > 1 => Evicted(c).bytes <= MaxCacheBytes
<1> DEFINE L == Len(c.keys)
           Fits(n) == \/ n = L - 1
                      \/ L - n <= CacheSlots /\ BytesWithout(c, n) <= MaxCacheBytes
           n == CHOOSE m \in 0..(L - 1) : Fits(m) /\ \A l \in 0..(m - 1) : ~Fits(l)
           old == {c.keys[j] : j \in 1..n}
           e == Evicted(c)
           D == DOMAIN c.vals
           w == [k \in D |-> Size(c.vals, k)]
<1>0. L \in Nat /\ L >= 1 /\ L - 1 \in Nat /\ CacheSlots \in Nat \ {0}
  BY BoundAssumption
<1>1. n \in 0..(L - 1) /\ Fits(n)
  <2> DEFINE M == {m \in 0..(L - 1) : Fits(m)}
  <2>1. L - 1 \in 0..(L - 1)
    BY <1>0
  <2>2. M \subseteq 0..(L - 1) /\ M # {}
    BY <2>1
  <2> HIDE DEF Fits
  <2>3. \A l \in 0..(L - 1) : l \notin M => ~Fits(l)
    OBVIOUS
  <2> HIDE DEF M
  <2>4. PICK m \in M : \A l \in 0..(m - 1) : l \notin M
    BY <1>0, <2>2, LeastOf
  <2>5. m \in 0..(L - 1) /\ Fits(m) /\ \A l \in 0..(m - 1) : ~Fits(l)
    <3>1. m \in 0..(L - 1) /\ Fits(m)
      BY <2>4 DEF M
    <3>2. \A l \in 0..(m - 1) : l \in 0..(L - 1)
      BY <1>0, <3>1
    <3> QED BY <2>3, <2>4, <3>1, <3>2
  <2> QED BY <2>5
<1>2. /\ e.keys = SubSeq(c.keys, n + 1, L) /\ e.vals = [k \in D \ old |-> c.vals[k]]
      /\ e.bytes = BytesWithout(c, n)
  BY DEF Evicted
<1> HIDE DEF n, e, old, w
<1>3. /\ Listed(e.keys, D \ old) /\ Len(e.keys) = L - n
      /\ e.bytes = SumFunctionOnSet(w, D \ old) /\ e.bytes \in Nat
  <2>1. /\ Listed(SubSeq(c.keys, n + 1, L), D \ old) /\ Len(SubSeq(c.keys, n + 1, L)) = L - n
        /\ BytesWithout(c, n) = SumFunctionOnSet(w, D \ old) /\ BytesWithout(c, n) \in Nat
    BY <1>1, WithoutOldest DEF old, w
  <2> QED BY <1>2, <2>1
<1>4. DOMAIN e.vals = D \ old /\ \A k \in D \ old : e.vals[k] = c.vals[k]
  BY <1>2
<1>5. \A k \in D \ old : e.vals[k] \in 1..MaxVersion
  BY <1>4 DEF Exact
<1>6. /\ IsFiniteSet(D) /\ \A k \in D : w[k] \in Nat /\ w[k] = Size(c.vals, k)
  BY Weighed DEF w
<1> DEFINE u == [k \in D \ old |-> Size(e.vals, k)]
<1>7. SumFunctionOnSet(u, D \ old) = SumFunctionOnSet(w, D \ old)
  <2>1. IsFiniteSet(D \ old)
    BY <1>6, FS_Subset
  <2>2. \A k \in D \ old : w[k] \in Nat /\ u[k] = w[k]
    BY <1>4, <1>6 DEF Size
  <2> HIDE DEF u
  <2> QED BY <2>1, <2>2, SumSame
<1>8. e.bytes = SumFunction([k \in DOMAIN e.vals |-> Size(e.vals, k)])
  BY <1>3, <1>4, <1>7 DEF SumFunction
<1>9. Exact(e)
  BY <1>3, <1>4, <1>5, <1>8 DEF Exact
<1>10. /\ L - n \in Nat \ {0} /\ L - n <= CacheSlots
       /\ L - n > 1 => BytesWithout(c, n) <= MaxCacheBytes
  BY <1>0, <1>1
<1> QED BY <1>2, <1>3, <1>9, <1>10 DEF e

CacheInv ==
    /\ DOMAIN cache = {"keys", "vals", "bytes"} /\ Exact(cache)
    /\ Len(cache.keys) <= CacheSlots
    /\ Len(cache.keys) > 1 => cache.bytes <= MaxCacheBytes


LEMMA HitCache ==
    ASSUME CacheInv, NEW p \in Ops, Hit(p)
    PROVE  CacheInv'
<1> DEFINE k == Head(op[p].work).key
           D == DOMAIN cache.vals
<1>1. k \in D /\ cache' = [cache EXCEPT !.keys = Touched(cache.keys, k)]
  BY DEF Hit
<1>2. /\ DOMAIN cache' = {"keys", "vals", "bytes"}
      /\ cache'.keys = Touched(cache.keys, k) /\ cache'.vals = cache.vals
      /\ cache'.bytes = cache.bytes
  BY <1>1 DEF CacheInv
<1>3. Listed(cache.keys, D) /\ k \in Keys /\ D \union {k} = D
  BY <1>1, Weighed DEF CacheInv, Exact
<1> HIDE DEF k
<1>4. Listed(Touched(cache.keys, k), D) /\ Len(Touched(cache.keys, k)) = Len(cache.keys)
  BY <1>1, <1>3, TouchedListed
<1>5. Exact(cache')
  BY <1>2, <1>4 DEF CacheInv, Exact
<1> QED BY <1>2, <1>4, <1>5 DEF CacheInv

LEMMA PutCache ==
    ASSUME OpInv, ShapeInv, CacheInv, NEW p \in Ops, PutTable(p)
    PROVE  CacheInv'
<1> DEFINE k == Head(op[p].work).key
           v == op[p].seen
           c == Stored(k, v)
<1>1. Running(p, "put") /\ cache' = IF k.ver = 0 THEN cache ELSE Evicted(c)
  BY DEF PutTable
<1>2. CASE k.ver = 0
  BY <1>1, <1>2 DEF CacheInv, Exact
<1>3. CASE k.ver # 0
  <2>1. PICK x \in 0..ver, i \in Layers : k = Key(x, i) /\ v >= x
    BY <1>1, HeadKey
  <2>2. k.ver = x /\ k = [ver |-> x, layer |-> i]
    BY <2>1 DEF Key
  <2>3. ver \in 1..MaxVersion /\ v \in 0..ver /\ MaxVersion \in Nat
    BY Depth DEF ShapeInv, Shaped
  <2> HIDE DEF k, v
  <2>4. x \in 1..MaxVersion /\ v \in 1..MaxVersion
    BY <1>3, <2>1, <2>2, <2>3
  <2>5. k \in Keys
    BY <2>2, <2>4 DEF Keys
  <2>6. Exact(c) /\ Len(c.keys) \in Nat \ {0}
    BY <2>4, <2>5, StoredExact DEF CacheInv
  <2> HIDE DEF c
  <2>7. cache' = Evicted(c) /\ DOMAIN Evicted(c) = {"keys", "vals", "bytes"}
    BY <1>1, <1>3, EvictedKeeps
  <2> QED BY <2>6, <2>7, EvictedExact DEF CacheInv
<1> QED BY <1>2, <1>3

LEMMA CacheStep ==
    ASSUME OpInv, ShapeInv, CacheInv, [Next]_vars
    PROVE  CacheInv'
<1>1. CASE UNCHANGED cache
  BY <1>1 DEF CacheInv
<1>2. CASE \E p \in Ops : Hit(p) \/ PutTable(p)
  BY <1>2, HitCache, PutCache
<1> QED BY <1>1, <1>2 DEF Next, Steps, vars, Begin, Stat, List, Open, Answer, Drop, RemoveTemp, End, MakeKey,
          Miss, OpenFile, Stream, CreateTemp, reserve, Refuse, Copied, ParseList, acquire, Fails,
          CloseStream, Replace

LEMMA CacheInit ==
    ASSUME Init
    PROVE  CacheInv /\ ShapeInv
<1>1. /\ DOMAIN cache = {"keys", "vals", "bytes"} /\ cache.keys = <<>>
      /\ DOMAIN cache.vals = {} /\ cache.bytes = 0
  BY DEF Init, NoTables
<1>2. Listed(<<>>, {})
  BY DEF Listed, IsInjective, ToSet
<1> DEFINE w == [k \in DOMAIN cache.vals |-> Size(cache.vals, k)]
<1>3. SumFunction(w) = 0
  <2>1. DOMAIN w = {}
    BY <1>1
  <2>2. IsFiniteSet({}) /\ \A k \in {} : w[k] \in Nat
    BY FS_EmptySet
  <2> HIDE DEF w
  <2>3. SumFunctionOnSet(w, {}) = 0
    BY <2>2, SumSteps
  <2> QED BY <2>1, <2>3 DEF SumFunction
<1>4. CacheInv
  BY <1>1, <1>2, <1>3, BoundAssumption DEF CacheInv, Exact
<1>5. /\ Idle = [f \in Fields |-> Idle[f]]
      /\ Idle.at \in States /\ Idle.seen = 0
  BY DEF Idle, Fields, States
<1>6. ShapeInv
  BY <1>5, Depth DEF Init, ShapeInv, Shaped
<1> QED BY <1>4, <1>6

LEMMA CacheInvariant == Spec => [](ResolverInv /\ ShapeInv /\ CacheInv)
<1>1. ResolverInv /\ ShapeInv /\ CacheInv /\ [Next]_vars => ShapeInv' /\ CacheInv'
  BY ShapeStep, CacheStep DEF ResolverInv
<1>2. Init => ShapeInv /\ CacheInv
  BY CacheInit
<1> QED BY <1>1, <1>2, ResolverInvariant, PTL DEF Spec

\* What is still to be done has its type.
LEMMA WorkType ==
    ASSUME NEW w \in Seq(Instr), NEW b, NEW now \in 0..MaxVersion, Dated(w, b, now)
    PROVE  w \in Seq(Instruction)
<1>1. /\ Len(w) \in Nat /\ w = [j \in 1..Len(w) |-> w[j]]
      /\ \A j \in 1..Len(w) : w[j] \in Instr
  OBVIOUS
<1>2. ASSUME NEW j \in 1..Len(w)
      PROVE  w[j] \in Instruction
  <2>1. /\ w[j].key.ver \in Nat /\ w[j].key.ver <= now
        /\ w[j].key \in [ver : Nat, layer : Layers]
        /\ w[j] \in [do : Code, key : [ver : Nat, layer : Layers]]
    BY <1>1 DEF Instr, Dated
  <2>2. w[j].key.ver \in 0..MaxVersion
    BY <2>1, Depth
  <2>3. w[j].key \in [ver : 0..MaxVersion, layer : Layers]
    BY <2>1, <2>2
  <2> QED BY <2>1, <2>3 DEF Instruction, Code
<1> QED BY <1>1, <1>2

LEMMA OperationType ==
    ASSUME OpInv, ShapeInv, StackInv, NEW p \in Ops
    PROVE  op[p] \in Operation
<1> DEFINE o == op[p]
<1>1. /\ o = [f \in Fields |-> o[f]] /\ o.at \in States /\ o.seen \in 0..ver
      /\ ver \in 1..MaxVersion /\ MaxVersion \in Nat
  BY Depth DEF ShapeInv, Shaped
<1>2. /\ o.held \in BOOLEAN /\ o.began \in 0..ver /\ o.fresh = TRUE
      /\ o.work \in Seq(Instr) /\ Dated(o.work, o.began, ver)
  BY DEF OpInv, Good
<1>3. /\ o.open \in BOOLEAN /\ o.temps \in Seq(Sizes) /\ o.over \in 0..Chunk
  BY DEF StackInv, Stacked
<1>4. o.seen \in 0..MaxVersion /\ o.began \in 0..MaxVersion /\ ver \in 0..MaxVersion
  BY <1>1, <1>2
<1>5. o.work \in Seq(Instruction)
  BY <1>2, <1>4, WorkType
<1>6. o.fresh \in BOOLEAN
  BY <1>2
<1>7. o.temps \in Seq(0..(MaxLayerBytes + 1))
  BY <1>3 DEF Sizes
<1> HIDE DEF o
<1>8. o \in Operation
  BY <1>1, <1>2, <1>3, <1>4, <1>5, <1>6, <1>7 DEF Operation, Fields, States
<1> QED BY <1>8 DEF o

\* Never more tokens than the channel takes.
LEMMA TokensBounded ==
    ASSUME sem \in 0..MaxConcurrent, TokenInv, OpInv, TablesInv, [Next]_vars
    PROVE  sem' \in 0..MaxConcurrent
<1>0. IsFiniteSet(Holders) /\ sem = Cardinality(Holders) /\ MaxConcurrent \in Nat /\ sem \in Nat
  BY Depth, BoundAssumption, FS_Subset DEF TokenInv, Holders
<1>1. CASE \E p \in Ops : Moves(p)
  <2>1. PICK p \in Ops : Tokens(p)
    BY <1>1 DEF Moves
  <2>2. CASE op[p].held /\ sem' = sem - 1
    <3>1. p \in Holders
      BY <2>2 DEF Holders
    <3>2. sem # 0
      BY <1>0, <3>1, FS_EmptySet
    <3> QED BY <1>0, <2>2, <3>2
  <2> QED BY <1>0, <2>1, <2>2 DEF Tokens
<1>2. CASE UNCHANGED sem
  BY <1>2
<1> QED BY <1>1, <1>2, NextMoves

LEMMA UsedBounded ==
    ASSUME LedgerInv
    PROVE  used \in 0..(MaxTempBytes + Chunk * Cardinality(Ops))
<1> DEFINE g == [p \in Ops |-> op[p].over]
           n == Cardinality(Ops)
<1>1. /\ IsFiniteSet(Ops) /\ n \in Nat /\ Chunk \in Nat /\ MaxTempBytes \in Nat
  BY BoundAssumption, FS_CardinalityType
<1>2. /\ Files \in Nat /\ Overs \in Nat /\ Overs = SumFunctionOnSet(g, Ops)
      /\ Files <= MaxTempBytes /\ used = Files + Overs
  BY Totals DEF LedgerInv
<1>3. \A p \in Ops : g[p] \in 0..Chunk
  BY Counted DEF LedgerInv, StackInv
<1> HIDE DEF g
<1>4. Overs <= Chunk * n
  BY <1>1, <1>2, <1>3, SumBound
<1>5. PICK m \in Nat : m = Chunk * n
  BY <1>1
<1> HIDE DEF n
<1>6. used \in 0..(MaxTempBytes + m)
  BY <1>1, <1>2, <1>4, <1>5
<1> QED BY <1>5, <1>6 DEF n

-----------------------------------------------------------------------------
(* The theorems.                                                           *)

\* The tokens in the channel are exactly the operations that hold a slot, and
\* no byte of an archive is read without one, however operations nest, fail,
\* are closed and meet.
THEOREM SlotsAreHeld == Spec => []SlotsMatchOperations
<1>1. ResolverInv => SlotsMatchOperations
  BY DEF ResolverInv, OpInv, TokenInv, Good, Holders, SlotsMatchOperations
<1> QED BY <1>1, ResolverInvariant, PTL

\* No operation is answered from a table that was read before it began.
THEOREM AnswersAreFresh == Spec => []NoStaleAnswers
<1>1. ResolverInv => NoStaleAnswers
  BY DEF ResolverInv, OpInv, Good, NoStaleAnswers
<1> QED BY <1>1, ResolverInvariant, PTL

\* The slots implement a pool of MaxConcurrent, one for an operation with all
\* its nested opens.
THEOREM OperationsImplementPool == Spec => OperationsShareSlots
<1>1. Init => Slots!Init
  BY ResolverInit DEF Slots!Init, Holders
<1>2. ResolverInv /\ [Next]_vars => [Slots!Next]_Holders
  BY TokenStep
<1> QED BY <1>1, <1>2, ResolverInvariant, PTL
        DEF Spec, OperationsShareSlots, Slots!Spec, Holders

\* The ledger counts the temp files that operations and open streams use, to
\* the byte, and these never take more than the budget, whichever way an
\* operation ends and whatever depth it has reached.  It no longer counts a
\* file that is about to be removed, or that could not be.
THEOREM LedgerIsExact == Spec => []LedgerMatchesTemps
<1>1. LedgerInv => LedgerMatchesTemps
  BY DEF LedgerInv, LedgerMatchesTemps, Files, Overs
<1> QED BY <1>1, LedgerInvariant, PTL

\* The byte count of the cache is the sum over its tables, none is listed
\* twice, and its bounds hold, however listings of the same table interleave.
THEOREM CacheStaysExact == Spec => []CacheIsExact
<1>1. CacheInv => CacheIsExact
  BY DEF CacheInv, CacheIsExact, Exact, Listed
<1> QED BY <1>1, CacheInvariant, PTL

-----------------------------------------------------------------------------
(* Temp files given back and not yet removed.                              *)

DiskInv ==
    /\ going \in [Ops -> Sizes]
    /\ litter \in 0..MaxLitter

\* A cleanup gives back no more than the bytes of one temp file.
LEMMA ReleaseSizes ==
    ASSUME OpInv, StackInv, NEW p \in Ops,
           Drop(p) \/ Stream(p) \/ Copied(p) \/ ParseList(p)
    PROVE  Last(op[p].temps) \in Sizes /\ (Copied(p) => Parent(p) \in Sizes)
<1> DEFINE s == op[p].temps
<1>1. s \in Seq(Sizes) /\ Len(s) \in Nat /\ Sizes \in SUBSET Nat
  BY Chunks DEF StackInv, Stacked, Sizes
<1>2. s # <<>>
  <2>1. CASE Drop(p)
    BY <2>1 DEF Drop
  <2>2. CASE Stream(p) \/ ParseList(p)
    BY <2>2, HeadStacked DEF Stream, ParseList, Inner
  <2>3. CASE Copied(p)
    BY <2>3, HeadStacked DEF Copied
  <2> QED BY <2>1, <2>2, <2>3
<1>3. Last(s) \in Sizes
  BY <1>1, <1>2, StackPop
<1>4. ASSUME Copied(p) PROVE Parent(p) \in Sizes
  <2>1. Len(s) >= 2
    BY <1>4, HeadStacked DEF Copied
  <2> QED BY <1>1, <1>4, <2>1 DEF Parent
<1> QED BY <1>3, <1>4

LEMMA DiskStep ==
    ASSUME OpInv, StackInv, DiskInv, [Next]_vars
    PROVE  DiskInv'
<1>1. CASE UNCHANGED disk
  BY <1>1 DEF disk, DiskInv
<1>2. CASE \E p \in Ops : RemoveTemp(p)
  <2>1. PICK p \in Ops : RemoveTemp(p)
    BY <1>2
  <2>2. litter' \in 0..MaxLitter
    <3>1. litter \in Nat /\ going[p] \in Nat /\ MaxLitter \in Nat
      BY Chunks, BoundAssumption DEF DiskInv, Sizes
    <3> QED BY <2>1, <3>1 DEF RemoveTemp
  <2>3. going' \in [Ops -> Sizes]
    BY <2>1, Chunks DEF RemoveTemp, DiskInv, Sizes
  <2> QED BY <2>2, <2>3 DEF DiskInv
<1>3. CASE \E p \in Ops : Drop(p) \/ Stream(p) \/ Copied(p) \/ ParseList(p)
  <2>1. PICK p \in Ops : Drop(p) \/ Stream(p) \/ Copied(p) \/ ParseList(p)
    BY <1>3
  <2>2. \/ UNCHANGED disk
        \/ Release(p, Last(op[p].temps))
        \/ Copied(p) /\ Release(p, Parent(p))
    BY <2>1 DEF Drop, Stream, Copied, ParseList
  <2>3. CASE Release(p, Last(op[p].temps))
    <3>1. Last(op[p].temps) \in Sizes
      BY <2>1, <2>3, ReleaseSizes
    <3> QED BY <2>3, <3>1 DEF Release, DiskInv
  <2>4. CASE Copied(p) /\ Release(p, Parent(p))
    <3>1. Parent(p) \in Sizes
      BY <2>1, <2>4, ReleaseSizes
    <3> QED BY <2>4, <3>1 DEF Release, DiskInv
  <2> QED BY <1>1, <2>2, <2>3, <2>4
<1> QED BY <1>1, <1>2, <1>3 DEF Next, Steps, vars, Begin, Stat, List, Open, Answer, End, MakeKey,
          Hit, Miss, PutTable, OpenFile, CreateTemp, reserve, Refuse, acquire, Fails,
          CloseStream, Replace

LEMMA DiskInit ==
    ASSUME Init
    PROVE  DiskInv
<1>1. 0 \in Sizes /\ 0 \in 0..MaxLitter
  BY Chunks, BoundAssumption DEF Sizes
<1> QED BY <1>1 DEF Init, DiskInv

\* Every state has its type: the channel holds no more than MaxConcurrent
\* tokens and the ledger is past its budget by no more than a chunk of each.
THEOREM TypeCorrect == Spec => []TypeOK
<1> DEFINE SemInv == sem \in 0..MaxConcurrent
<1>1. Init => SemInv
  BY Depth DEF Init
<1>2. ResolverInv /\ SemInv /\ [Next]_vars => SemInv'
  BY TokensBounded DEF ResolverInv
<1>3. Init => DiskInv
  BY DiskInit
<1>4. ResolverInv /\ LedgerInv /\ DiskInv /\ [Next]_vars => DiskInv'
  BY DiskStep DEF ResolverInv, LedgerInv
<1>5. ResolverInv /\ ShapeInv /\ CacheInv /\ LedgerInv /\ SemInv /\ DiskInv => TypeOK
  <2> SUFFICES ASSUME ResolverInv, ShapeInv, CacheInv, LedgerInv, SemInv, DiskInv
               PROVE  TypeOK
    OBVIOUS
  <2>1. op \in [Ops -> Operation]
    BY OperationType DEF ResolverInv, ShapeInv, LedgerInv
  <2>2. /\ cache.keys \in Seq([ver : 1..MaxVersion, layer : Layers])
        /\ DOMAIN cache.vals = ToSet(cache.keys)
        /\ \A k \in DOMAIN cache.vals : cache.vals[k] \in 1..MaxVersion
    BY DEF CacheInv, Exact, Listed, Keys
  <2>3. used \in 0..(MaxTempBytes + Chunk * Cardinality(Ops))
    BY UsedBounded
  <2> QED BY <2>1, <2>2, <2>3 DEF TypeOK, ShapeInv, DiskInv, Sizes
<1> QED BY <1>1, <1>2, <1>3, <1>4, <1>5, CacheInvariant, LedgerInvariant, PTL DEF Spec
=============================================================================
