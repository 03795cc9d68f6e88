------------------------ MODULE CountConsumerProofs ------------------------
(***************************************************************************)
(* Proofs about CountConsumer on the RabbitMQ bus, for any events, topics, *)
(* subscriptions and batch sizes, and any number of faults: what the bus   *)
(* promises (at least once), what deduplication makes of it (at most once, *)
(* and not silently dropped), and what the counters are in the end; then   *)
(* the same for the page views, which extend the model with GetDetail.     *)
(***************************************************************************)
EXTENDS PageViews, TLAPS, FiniteSetTheorems, SequenceTheorems, NaturalsInduction,
        WellFoundedInduction

-----------------------------------------------------------------------------
(***************************************************************************)
(* Sums over finite sets.  SumFunctionOnSet is a fold, and a fold is a     *)
(* recursive function: its equation has to be derived first.  Induction is *)
(* by a smallest counterexample.                                           *)
(***************************************************************************)

\* A set of naturals has a least member.
LEMMA LeastNat ==
    ASSUME NEW T, T \subseteq Nat, T # {}
    PROVE  \E x \in T : \A y \in T : x <= y
  <1> DEFINE R == OpToRel(<, Nat)
  <1>1. IsWellFoundedOn(R, Nat)
    BY NatLessThanWellFounded
  <1>2. \A x, y \in Nat : y < x => <<y, x>> \in R
    BY DEF OpToRel
  <1> HIDE DEF R
  <1>3. PICK x \in T : \A y \in T : ~(<<y, x>> \in R)
    BY <1>1, WFMin
  <1>4. \A y \in T : ~(y < x)
    BY <1>2, <1>3
  <1>5. \A y \in T : x <= y
    BY <1>4
  <1>6. QED
    BY <1>5

\* A nonempty set of finite sets has a member none of whose proper subsets is in it.
LEMMA SmallestSet ==
    ASSUME NEW U, IsFiniteSet(U), NEW G \in SUBSET (SUBSET U), G # {}
    PROVE  \E A \in G : \A B \in SUBSET A : B # A => B \notin G
  <1>1. \A A \in G : IsFiniteSet(A) /\ Cardinality(A) \in Nat
    BY FS_Subset, FS_CardinalityType
  <1> DEFINE T == {Cardinality(A) : A \in G}
  <1>2. T \subseteq Nat /\ T # {}
    BY <1>1
  <1>3. PICK n \in T : \A m \in T : n <= m
    <2> HIDE DEF T
    <2> QED
      BY <1>2, LeastNat
  <1>4. PICK A \in G : n = Cardinality(A)
    BY <1>3
  <1>5. ASSUME NEW B \in SUBSET A, B # A, B \in G
        PROVE  FALSE
    <2>1. Cardinality(B) <= Cardinality(A) /\ Cardinality(B) # Cardinality(A)
      BY <1>1, <1>4, <1>5, FS_Subset
    <2>2. Cardinality(A) <= Cardinality(B)
      BY <1>3, <1>4, <1>5
    <2>3. QED
      BY <1>1, <1>4, <1>5, <2>1, <2>2
  <1>6. QED
    BY <1>4, <1>5

\* The element the fold takes next, and the equation of its recursive function.
Taken(s) == CHOOSE x \in s : TRUE
Body(f, g, s) == IF s = {} THEN 0 ELSE f[Taken(s)] + g[s \ {Taken(s)}]
Solves(g, f, D) == g = [s \in D |-> Body(f, g, s)]
Iter(f, S) == CHOOSE g : Solves(g, f, SUBSET S)

\* A nonempty set has the element that is taken from it.
LEMMA TakenIn == ASSUME NEW s, s # {} PROVE Taken(s) \in s
  BY DEF Taken

\* The sum is the value of the recursive function.
LEMMA SumIsIter ==
    ASSUME NEW f, NEW S
    PROVE  SumFunctionOnSet(f, S) = Iter(f, S)[S]
  BY DEF SumFunctionOnSet, FoldFunctionOnSet, MapThenFoldSet, Iter, Solves, Body, Taken

\* Such a function exists: one for the sets of up to k elements gives one for k + 1.
LEMMA SolutionExists ==
    ASSUME NEW f, NEW S, IsFiniteSet(S)
    PROVE  \E g : Solves(g, f, SUBSET S)
  <1> DEFINE Sub(k) == {s \in SUBSET S : Cardinality(s) <= k}
             Bad == {k \in Nat : ~\E g : Solves(g, f, Sub(k))}
  <1>1. \A s \in SUBSET S : IsFiniteSet(s) /\ Cardinality(s) \in Nat
    BY FS_Subset, FS_CardinalityType
  <1>2. Bad = {}
    <2>1. SUFFICES ASSUME Bad # {} PROVE FALSE
      OBVIOUS
    <2>2. PICK k \in Bad : \A j \in Bad : k <= j
      <3>1. Bad \subseteq Nat
        OBVIOUS
      <3> HIDE DEF Bad
      <3>2. QED
        BY <2>1, <3>1, LeastNat
    <2>3. k \in Nat /\ ~\E g : Solves(g, f, Sub(k))
      OBVIOUS
    <2>4. CASE k = 0
      <3>1. \A s \in Sub(k) : s = {}
        BY <1>1, <2>4, FS_EmptySet
      <3> DEFINE g == [s \in Sub(k) |-> 0]
      <3>2. g = [s \in Sub(k) |-> Body(f, g, s)]
        BY <3>1 DEF Body
      <3>3. QED
        BY <2>3, <3>2 DEF Solves
    <2>5. CASE k # 0
      <3>1. k - 1 \in Nat /\ k - 1 \notin Bad
        <4>1. k - 1 \in Nat /\ ~(k <= k - 1)
          BY <2>3, <2>5
        <4> HIDE DEF Bad
        <4>2. QED
          BY <2>2, <4>1
      <3>2. PICK g : Solves(g, f, Sub(k - 1))
        BY <3>1
      <3>3. \A s \in Sub(k - 1) : g[s] = Body(f, g, s)
        BY <3>2 DEF Solves
      <3> DEFINE h == [s \in Sub(k) |-> Body(f, g, s)]
      <3>4. ASSUME NEW s \in Sub(k)
            PROVE  Body(f, g, s) = Body(f, h, s)
        <4>1. CASE s = {}
          BY <4>1 DEF Body
        <4>2. CASE s # {}
          <5>1. PICK u : u = s \ {Taken(s)}
            OBVIOUS
          <5>2. Taken(s) \in s
            BY <4>2, TakenIn
          <5>3. u \in SUBSET S /\ Cardinality(u) = Cardinality(s) - 1
            BY <1>1, <5>1, <5>2, FS_RemoveElement
          <5>4. u \in Sub(k - 1) /\ u \in Sub(k)
            BY <1>1, <2>3, <5>3
          <5>5. h[u] = g[u]
            BY <3>3, <5>4
          <5> HIDE DEF h
          <5>6. QED
            BY <4>2, <5>1, <5>5 DEF Body
        <4>3. QED
          BY <4>1, <4>2
      <3>5. h = [s \in Sub(k) |-> Body(f, h, s)]
        BY <3>4
      <3>6. QED
        BY <2>3, <3>5 DEF Solves
    <2>6. QED
      BY <2>4, <2>5
  <1>3. Cardinality(S) \in Nat
    BY FS_CardinalityType
  <1>4. Sub(Cardinality(S)) = SUBSET S
    BY <1>1, FS_Subset
  <1>5. QED
    BY <1>2, <1>3, <1>4

\* Two of them agree where both are defined.
LEMMA SolutionsAgree ==
    ASSUME NEW f, NEW S, IsFiniteSet(S), NEW T \in SUBSET S, NEW g, NEW h,
           Solves(g, f, SUBSET S), Solves(h, f, SUBSET T)
    PROVE  g[T] = h[T]
  <1> DEFINE G == {s \in SUBSET T : g[s] # h[s]}
  <1>1. SUFFICES ASSUME G # {} PROVE FALSE
    OBVIOUS
  <1>2. \A s \in SUBSET T : g[s] = Body(f, g, s) /\ h[s] = Body(f, h, s)
    BY DEF Solves
  <1>3. PICK A \in G : \A B \in SUBSET A : B # A => B \notin G
    <2>1. G \in SUBSET (SUBSET S)
      OBVIOUS
    <2> HIDE DEF G
    <2>2. QED
      BY <1>1, <2>1, SmallestSet
  <1>4. CASE A = {}
    BY <1>2, <1>4 DEF Body
  <1>5. CASE A # {}
    <2>1. PICK u : u = A \ {Taken(A)}
      OBVIOUS
    <2>2. u \in SUBSET A /\ u # A
      BY <1>5, <2>1, TakenIn
    <2>3. g[u] = h[u]
      BY <1>3, <2>2
    <2>4. QED
      BY <1>2, <1>5, <2>1, <2>3 DEF Body
  <1>6. QED
    BY <1>4, <1>5

\* The sum over a finite set, one element at a time.
LEMMA SumEquation ==
    ASSUME NEW f, NEW S, IsFiniteSet(S)
    PROVE  /\ SumFunctionOnSet(f, {}) = 0
           /\ S # {} => SumFunctionOnSet(f, S) = f[Taken(S)] + SumFunctionOnSet(f, S \ {Taken(S)})
  <1>1. ASSUME NEW A, IsFiniteSet(A) PROVE Solves(Iter(f, A), f, SUBSET A)
    BY <1>1, SolutionExists DEF Iter
  <1>2. ASSUME NEW A, IsFiniteSet(A) PROVE SumFunctionOnSet(f, A) = Body(f, Iter(f, A), A)
    <2>1. PICK g : g = Iter(f, A)
      OBVIOUS
    <2>2. g = [s \in SUBSET A |-> Body(f, g, s)]
      BY <1>1, <1>2, <2>1 DEF Solves
    <2>3. g[A] = Body(f, g, A)
      BY <2>2
    <2>4. QED
      BY <2>1, <2>3, SumIsIter
  <1>3. SumFunctionOnSet(f, {}) = 0
    BY <1>2, FS_EmptySet DEF Body
  <1>4. ASSUME S # {}
        PROVE  SumFunctionOnSet(f, S) = f[Taken(S)] + SumFunctionOnSet(f, S \ {Taken(S)})
    <2>1. PICK T : T = S \ {Taken(S)}
      OBVIOUS
    <2>2. T \in SUBSET S /\ IsFiniteSet(T)
      BY <2>1, FS_Subset
    <2>3. Iter(f, S)[T] = Iter(f, T)[T]
      <3>1. PICK g, h : g = Iter(f, S) /\ h = Iter(f, T)
        OBVIOUS
      <3>2. Solves(g, f, SUBSET S) /\ Solves(h, f, SUBSET T)
        BY <1>1, <2>2, <3>1
      <3>3. g[T] = h[T]
        BY <2>2, <3>2, SolutionsAgree
      <3>4. QED
        BY <3>1, <3>3
    <2>4. SumFunctionOnSet(f, S) = f[Taken(S)] + Iter(f, S)[T]
      BY <1>2, <1>4, <2>1 DEF Body
    <2>5. QED
      BY <2>1, <2>3, <2>4, SumIsIter
  <1>5. QED
    BY <1>3, <1>4

\* The sum is an integer, and any element may be taken first.
LEMMA SumRemove ==
    ASSUME NEW S, IsFiniteSet(S), NEW f, \A x \in S : f[x] \in Int
    PROVE  /\ SumFunctionOnSet(f, S) \in Int
           /\ \A x \in S : SumFunctionOnSet(f, S) = f[x] + SumFunctionOnSet(f, S \ {x})
  <1> DEFINE Good(A) == /\ SumFunctionOnSet(f, A) \in Int
                        /\ \A x \in A : SumFunctionOnSet(f, A) = f[x] + SumFunctionOnSet(f, A \ {x})
             G == {A \in SUBSET S : ~Good(A)}
  <1>1. SUFFICES ASSUME G # {} PROVE FALSE
    OBVIOUS
  <1>2. PICK A \in G : \A B \in SUBSET A : B # A => B \notin G
    <2>1. G \in SUBSET (SUBSET S)
      OBVIOUS
    <2> HIDE DEF G
    <2>2. QED
      BY <1>1, <2>1, SmallestSet
  <1>3. A \in SUBSET S /\ IsFiniteSet(A) /\ ~Good(A)
    BY FS_Subset
  <1>4. \A B \in SUBSET A : B # A => Good(B)
    BY <1>2, <1>3
  <1>5. CASE A = {}
    <2>1. SumFunctionOnSet(f, A) = 0
      BY <1>3, <1>5, SumEquation
    <2>2. QED
      BY <1>3, <1>5, <2>1
  <1>6. CASE A # {}
    <2>1. PICK p : p = Taken(A)
      OBVIOUS
    <2>2. p \in A
      BY <1>6, <2>1, TakenIn
    <2>3. SumFunctionOnSet(f, A) = f[p] + SumFunctionOnSet(f, A \ {p})
      BY <1>3, <1>6, <2>1, SumEquation
    <2>4. ASSUME NEW x \in A
          PROVE  /\ SumFunctionOnSet(f, A \ {x}) \in Int
                 /\ \A y \in A \ {x} : SumFunctionOnSet(f, A \ {x}) = f[y] + SumFunctionOnSet(f, (A \ {x}) \ {y})
      <3>1. A \ {x} \in SUBSET A /\ A \ {x} # A
        OBVIOUS
      <3>2. QED
        BY <1>4, <3>1
    <2>5. SumFunctionOnSet(f, A) \in Int
      BY <1>3, <2>2, <2>3, <2>4
    <2>6. ASSUME NEW x \in A
          PROVE  SumFunctionOnSet(f, A) = f[x] + SumFunctionOnSet(f, A \ {x})
      <3>1. CASE x = p
        BY <2>3, <3>1
      <3>2. CASE x # p
        <4>1. PICK C : C = (A \ {p}) \ {x}
          OBVIOUS
        <4>2. C = (A \ {x}) \ {p}
          BY <4>1
        <4>3. SumFunctionOnSet(f, A \ {p}) = f[x] + SumFunctionOnSet(f, C)
          BY <2>2, <2>4, <3>2, <4>1
        <4>4. SumFunctionOnSet(f, A \ {x}) = f[p] + SumFunctionOnSet(f, C)
          BY <2>2, <2>4, <3>2, <4>2
        <4>5. f[x] \in Int /\ f[p] \in Int
          BY <1>3, <2>2
        <4>6. SumFunctionOnSet(f, C) \in Int
          <5>1. C \in SUBSET A /\ C # A
            BY <4>1, <2>2
          <5>2. QED
            BY <1>4, <5>1
        <4>7. QED
          BY <2>3, <4>3, <4>4, <4>5, <4>6
      <3>3. QED
        BY <3>1, <3>2
    <2>7. QED
      BY <1>3, <2>5, <2>6
  <1>7. QED
    BY <1>5, <1>6

\* Sums are additive; nonnegative terms have a nonnegative sum; terms that are 0 do
\* not count.
LEMMA SumAdds ==
    ASSUME NEW S, IsFiniteSet(S), NEW f, NEW g, NEW h,
           \A x \in S : f[x] \in Int /\ g[x] \in Int /\ h[x] = f[x] + g[x]
    PROVE  SumFunctionOnSet(h, S) = SumFunctionOnSet(f, S) + SumFunctionOnSet(g, S)
  <1> DEFINE Good(A) == SumFunctionOnSet(h, A) = SumFunctionOnSet(f, A) + SumFunctionOnSet(g, A)
             G == {A \in SUBSET S : ~Good(A)}
  <1>1. SUFFICES ASSUME G # {} PROVE FALSE
    OBVIOUS
  <1>2. PICK A \in G : \A B \in SUBSET A : B # A => B \notin G
    <2>1. G \in SUBSET (SUBSET S)
      OBVIOUS
    <2> HIDE DEF G
    <2>2. QED
      BY <1>1, <2>1, SmallestSet
  <1>3. A \in SUBSET S /\ IsFiniteSet(A) /\ ~Good(A)
    BY FS_Subset
  <1>4. CASE A = {}
    <2>1. SumFunctionOnSet(h, A) = 0 /\ SumFunctionOnSet(f, A) = 0 /\ SumFunctionOnSet(g, A) = 0
      BY <1>3, <1>4, SumEquation
    <2>2. QED
      BY <1>3, <2>1
  <1>5. ASSUME NEW x \in A PROVE FALSE
    <2>1. PICK B : B = A \ {x}
      OBVIOUS
    <2>2. B \in SUBSET A /\ B # A /\ B \in SUBSET S /\ IsFiniteSet(B)
      BY <1>3, <2>1, FS_Subset
    <2>3. SumFunctionOnSet(h, B) = SumFunctionOnSet(f, B) + SumFunctionOnSet(g, B)
      BY <1>2, <2>2
    <2>4. \A y \in A : f[y] \in Int /\ g[y] \in Int /\ h[y] \in Int
      BY <1>3
    <2>5. /\ SumFunctionOnSet(f, A) = f[x] + SumFunctionOnSet(f, B)
          /\ SumFunctionOnSet(g, A) = g[x] + SumFunctionOnSet(g, B)
          /\ SumFunctionOnSet(h, A) = h[x] + SumFunctionOnSet(h, B)
      BY <1>3, <2>1, <2>4, SumRemove
    <2>6. SumFunctionOnSet(f, B) \in Int /\ SumFunctionOnSet(g, B) \in Int
      BY <2>2, <2>4, SumRemove
    <2>7. f[x] \in Int /\ g[x] \in Int /\ h[x] = f[x] + g[x]
      BY <1>3
    <2>8. QED
      BY <1>3, <2>3, <2>5, <2>6, <2>7
  <1>6. QED
    BY <1>4, <1>5

\* Terms that are not negative have a sum that is not.
LEMMA SumNat ==
    ASSUME NEW S, IsFiniteSet(S), NEW f, \A x \in S : f[x] \in Nat
    PROVE  SumFunctionOnSet(f, S) \in Nat
  <1> DEFINE G == {A \in SUBSET S : SumFunctionOnSet(f, A) \notin Nat}
  <1>1. SUFFICES ASSUME G # {} PROVE FALSE
    OBVIOUS
  <1>2. PICK A \in G : \A B \in SUBSET A : B # A => B \notin G
    <2>1. G \in SUBSET (SUBSET S)
      OBVIOUS
    <2> HIDE DEF G
    <2>2. QED
      BY <1>1, <2>1, SmallestSet
  <1>3. A \in SUBSET S /\ IsFiniteSet(A) /\ SumFunctionOnSet(f, A) \notin Nat
    BY FS_Subset
  <1>4. CASE A = {}
    <2>1. SumFunctionOnSet(f, A) = 0
      BY <1>3, <1>4, SumEquation
    <2>2. QED
      BY <1>3, <2>1
  <1>5. ASSUME NEW x \in A PROVE FALSE
    <2>1. PICK B : B = A \ {x}
      OBVIOUS
    <2>2. B \in SUBSET A /\ B # A /\ B \in SUBSET S
      BY <1>3, <2>1
    <2>3. SumFunctionOnSet(f, B) \in Nat
      BY <1>2, <2>2
    <2>4. \A y \in A : f[y] \in Int
      BY <1>3
    <2>5. SumFunctionOnSet(f, A) = f[x] + SumFunctionOnSet(f, B)
      BY <1>3, <2>1, <2>4, SumRemove
    <2>6. QED
      BY <1>3, <2>3, <2>5
  <1>6. QED
    BY <1>4, <1>5

\* Terms that are 0 do not count.
LEMMA SumSupport ==
    ASSUME NEW S, IsFiniteSet(S), NEW T \in SUBSET S, NEW f,
           \A x \in T : f[x] \in Int, \A x \in S \ T : f[x] = 0
    PROVE  SumFunctionOnSet(f, S) = SumFunctionOnSet(f, T)
  <1> DEFINE G == {A \in SUBSET S : SumFunctionOnSet(f, A) # SumFunctionOnSet(f, A \cap T)}
  <1>0. S \cap T = T
    OBVIOUS
  <1>1. SUFFICES ASSUME G # {} PROVE FALSE
    BY <1>0
  <1>2. PICK A \in G : \A B \in SUBSET A : B # A => B \notin G
    <2>1. G \in SUBSET (SUBSET S)
      OBVIOUS
    <2> HIDE DEF G
    <2>2. QED
      BY <1>1, <2>1, SmallestSet
  <1>3. A \in SUBSET S /\ IsFiniteSet(A) /\ SumFunctionOnSet(f, A) # SumFunctionOnSet(f, A \cap T)
    BY FS_Subset
  <1>4. \A y \in S : f[y] \in Int
    OBVIOUS
  <1>5. PICK x \in A : x \notin T
    <2>1. A # A \cap T
      BY <1>3
    <2>2. QED
      BY <2>1
  <1>6. PICK B : B = A \ {x}
    OBVIOUS
  <1>7. B \in SUBSET A /\ B # A /\ B \in SUBSET S /\ B \cap T = A \cap T /\ IsFiniteSet(B)
    BY <1>3, <1>5, <1>6, FS_Subset
  <1>8. SumFunctionOnSet(f, B) = SumFunctionOnSet(f, A \cap T)
    BY <1>2, <1>7
  <1>9. SumFunctionOnSet(f, A) = f[x] + SumFunctionOnSet(f, B) /\ f[x] = 0
    BY <1>3, <1>4, <1>5, <1>6, SumRemove
  <1>10. SumFunctionOnSet(f, B) \in Int
    BY <1>4, <1>7, SumRemove
  <1>11. QED
    BY <1>3, <1>8, <1>9, <1>10

\* The sum depends on the terms only.
LEMMA SumSame ==
    ASSUME NEW S, IsFiniteSet(S), NEW f, NEW g, \A x \in S : f[x] \in Int /\ g[x] = f[x]
    PROVE  SumFunctionOnSet(g, S) = SumFunctionOnSet(f, S)
  <1>1. PICK z : z = [x \in S |-> 0]
    OBVIOUS
  <1>2. SumFunctionOnSet(z, S) = 0
    <2>1. {} \in SUBSET S /\ \A x \in S \ {} : z[x] = 0
      BY <1>1
    <2>2. SumFunctionOnSet(z, S) = SumFunctionOnSet(z, {})
      BY <2>1, SumSupport
    <2>3. QED
      BY <2>2, SumEquation
  <1>3. \A x \in S : f[x] \in Int /\ z[x] \in Int /\ g[x] = f[x] + z[x]
    BY <1>1
  <1>4. SumFunctionOnSet(g, S) = SumFunctionOnSet(f, S) + SumFunctionOnSet(z, S)
    BY <1>3, SumAdds
  <1>5. SumFunctionOnSet(f, S) \in Int
    BY SumRemove
  <1>6. QED
    BY <1>2, <1>4, <1>5

\* A sum of ones counts.
LEMMA SumOnes ==
    ASSUME NEW S, IsFiniteSet(S), NEW f, \A x \in S : f[x] = 1
    PROVE  SumFunctionOnSet(f, S) = Cardinality(S)
  <1> DEFINE G == {A \in SUBSET S : SumFunctionOnSet(f, A) # Cardinality(A)}
  <1>1. SUFFICES ASSUME G # {} PROVE FALSE
    OBVIOUS
  <1>2. PICK A \in G : \A B \in SUBSET A : B # A => B \notin G
    <2>1. G \in SUBSET (SUBSET S)
      OBVIOUS
    <2> HIDE DEF G
    <2>2. QED
      BY <1>1, <2>1, SmallestSet
  <1>3. A \in SUBSET S /\ IsFiniteSet(A) /\ SumFunctionOnSet(f, A) # Cardinality(A)
    BY FS_Subset
  <1>4. CASE A = {}
    BY <1>3, <1>4, SumEquation, FS_EmptySet
  <1>5. ASSUME NEW x \in A PROVE FALSE
    <2>1. PICK B : B = A \ {x}
      OBVIOUS
    <2>2. B \in SUBSET A /\ B # A /\ B \in SUBSET S
      BY <1>3, <2>1
    <2>3. SumFunctionOnSet(f, B) = Cardinality(B)
      BY <1>2, <2>2
    <2>4. \A y \in A : f[y] \in Int
      BY <1>3
    <2>5. SumFunctionOnSet(f, A) = f[x] + SumFunctionOnSet(f, B) /\ f[x] = 1
      BY <1>3, <2>1, <2>4, SumRemove
    <2>6. Cardinality(B) = Cardinality(A) - 1 /\ Cardinality(A) \in Nat
      BY <1>3, <2>1, FS_RemoveElement, FS_CardinalityType
    <2>7. QED
      BY <1>3, <2>3, <2>5, <2>6
  <1>6. QED
    BY <1>4, <1>5

-----------------------------------------------------------------------------
(***************************************************************************)
(* Types, and what a handler is doing.                                     *)
(***************************************************************************)

Handling == {"dedup", "send", "ack"}

\* A subscription holds an event exactly while its handler runs; the handler
\* begins with the first delta and only sends deltas the event has.
HandInv ==
    \A s \in Subs :
        /\ hand[s] \in Events <=> sub[s] \in Handling
        /\ sub[s] # "send" => next[s] = 1
        /\ sub[s] = "send" => next[s] <= Len(DeltasOf[hand[s]])

CountData ==
    /\ seen \subseteq Events
    /\ next \in [Subs -> 1..2]
    /\ eventCh \in Seq(DeltaIds)
    /\ batch \in [DeltaIds -> Nat]
    /\ applied \in [DeltaIds -> Nat]
    /\ lost \subseteq DeltaIds
    /\ unguarded \subseteq Events

BaseInv == BusTypeOK /\ CountData /\ HandInv

\* What the assumptions say of the constants.
LEMMA CountConstants ==
    /\ TopicOf \in [Events -> Topics] /\ SubTopic \in [Subs -> Topics]
    /\ IsFiniteSet(Subs) /\ MaxRetries \in Nat /\ MaxFaults \in Nat /\ NoEvent \notin Events
    /\ \A e \in Events : Len(DeltasOf[e]) \in 1..2 /\ 1 <= Len(DeltasOf[e])
  <1>1. \A n \in 1..2 : 1 <= n
    OBVIOUS
  <1>2. \A e \in Events : Len(DeltasOf[e]) \in 1..2
    BY CountAssumption
  <1>3. QED
    BY <1>1, <1>2, RabbitMQAssumption

\* Deltas are pairs.
LEMMA DeltaPairs ==
    /\ \A e \in Events : \A i \in 1..2 :
          i <= Len(DeltasOf[e]) => <<e, i>> \in DeltaIds
    /\ \A d \in DeltaIds : d[1] \in Events /\ d[2] \in 1..2 /\ d[2] <= Len(DeltasOf[d[1]])
    /\ \A d \in DeltaIds : \A e, i : d[1] = e /\ d[2] = i => d = <<e, i>>
  BY DEF DeltaIds

\* Append, and Tail, of a sequence of deltas.
LEMMA RangeOfAppend ==
    ASSUME NEW S, NEW q \in Seq(S), NEW x \in S
    PROVE  Append(q, x) \in Seq(S) /\ Range(Append(q, x)) = Range(q) \cup {x}
  <1>1. /\ Append(q, x) \in Seq(S) /\ DOMAIN Append(q, x) = 1..Len(q) + 1
        /\ \A i \in 1..Len(q) : Append(q, x)[i] = q[i]
        /\ Append(q, x)[Len(q) + 1] = x
        /\ DOMAIN q = 1..Len(q) /\ Len(q) \in Nat
    OBVIOUS
  <1>2. Range(Append(q, x)) \subseteq Range(q) \cup {x}
    BY <1>1 DEF Range
  <1>3. Range(q) \subseteq Range(Append(q, x))
    BY <1>1 DEF Range
  <1>4. x \in Range(Append(q, x))
    BY <1>1 DEF Range
  <1>5. QED
    BY <1>1, <1>2, <1>3, <1>4

\* The range of a nonempty sequence is its first element and the range of its tail.
LEMMA RangeOfTail ==
    ASSUME NEW S, NEW q \in Seq(S), q # <<>>
    PROVE  Tail(q) \in Seq(S) /\ Head(q) \in S /\ Range(q) = Range(Tail(q)) \cup {Head(q)}
  <1>1. /\ Tail(q) \in Seq(S) /\ DOMAIN Tail(q) = 1..Len(q) - 1 /\ Head(q) \in S
        /\ \A i \in 1..Len(q) - 1 : Tail(q)[i] = q[i + 1]
        /\ Head(q) = q[1]
        /\ DOMAIN q = 1..Len(q) /\ Len(q) \in Nat \ {0}
    OBVIOUS
  <1>2. Range(Tail(q)) \subseteq Range(q) /\ Head(q) \in Range(q)
    BY <1>1 DEF Range
  <1>3. ASSUME NEW i \in 1..Len(q)
        PROVE  q[i] \in Range(Tail(q)) \cup {Head(q)}
    <2>1. CASE i = 1
      BY <1>1, <2>1
    <2>2. CASE i # 1
      <3>1. i - 1 \in 1..Len(q) - 1 /\ Tail(q)[i - 1] = q[i]
        BY <1>1, <2>2
      <3>2. QED
        BY <1>1, <3>1 DEF Range
    <2>3. QED
      BY <2>1, <2>2
  <1>4. Range(q) \subseteq Range(Tail(q)) \cup {Head(q)}
    BY <1>1, <1>3 DEF Range
  <1>5. QED
    BY <1>1, <1>2, <1>4

\* The broker puts back what it has not been told is done.
LEMMA RequeueGrows ==
    ASSUME BusTypeOK, Requeue
    PROVE  /\ queue' \in [Events -> Nat]
           /\ \A e \in Events : queue'[e] >= queue[e] /\ (Unacked(e) # {} => queue'[e] > 0)
  <1>1. ASSUME NEW e \in Events
        PROVE  /\ queue[e] \in Nat /\ queue'[e] = queue[e] + Cardinality(Unacked(e))
               /\ Cardinality(Unacked(e)) \in Nat
               /\ Unacked(e) # {} => Cardinality(Unacked(e)) # 0
    <2>1. IsFiniteSet(Unacked(e))
      BY CountConstants, FS_Subset DEF Unacked
    <2>2. QED
      BY <1>1, <2>1, FS_CardinalityType, FS_EmptySet DEF BusTypeOK, Requeue
  <1>2. queue' \in [Events -> Nat]
    BY <1>1 DEF Requeue
  <1>3. QED
    BY <1>1, <1>2

\* The publisher does not touch what a handler holds.
LEMMA PublishTypes ==
    ASSUME BusTypeOK, NEW e \in Events, PublishStep(e)
    PROVE  BusTypeOK' /\ UNCHANGED <<sub, hand>>
  <1>0. MaxRetries \in Nat /\ MaxFaults \in Nat /\ SubTopic \in [Subs -> Topics]
    BY CountConstants
  <1> USE <1>0
  <1>1. /\ UNCHANGED <<bound, sub, tries, draining, hand, cancelled, got, elsewhere>>
        /\ pub' \in [Events -> {"idle", "try", "backoff", "done", "failed"}]
        /\ pubTries' \in [Events -> 0..MaxRetries]
    BY DEF PublishStep, PublishSent, PublishUnconfirmed, PublishError, PublishReopen,
           PublishReturns, PublishRetry, BusTypeOK
  <1>2. queue' \in [Events -> Nat] /\ accepted' \subseteq Events
    <2>1. CASE PublishUnconfirmed(e)
      BY <2>1, RequeueGrows DEF PublishUnconfirmed, LoseConnection, BusTypeOK
    <2>2. CASE ~PublishUnconfirmed(e)
      BY <2>2 DEF PublishStep, PublishSent, PublishError, PublishReopen, BusTypeOK
    <2>3. QED
      BY <2>1, <2>2
  <1>3. connected' \in BOOLEAN /\ faults' \in 0..MaxFaults /\ session' \in [Subs -> BOOLEAN]
    <2>1. CASE PublishUnconfirmed(e)
      <3>1. /\ faults < MaxFaults /\ faults' = faults + 1 /\ connected' = FALSE
            /\ session' = [s \in Subs |-> FALSE]
        BY <2>1 DEF PublishUnconfirmed, LoseConnection, Fault
      <3>2. faults' \in 0..MaxFaults
        BY <3>1 DEF BusTypeOK
      <3>3. session' \in [Subs -> BOOLEAN]
        BY <3>1
      <3>4. QED
        BY <3>1, <3>2, <3>3
    <2>2. CASE ~PublishUnconfirmed(e)
      BY <2>2 DEF PublishStep, PublishSent, PublishError, PublishReopen, BusTypeOK
    <2>3. QED
      BY <2>1, <2>2
  <1>4. QED
    BY <1>1, <1>2, <1>3 DEF BusTypeOK

\* A subscription that is not in its handler comes and goes.
Comings(s) ==
    SubscribeOnce(s) \/ MsgsClosed(s) \/ BeginDrain(s) \/ EndDrain(s) \/ Redial(s)

\* A subscription that comes or goes keeps the types and leaves queues and handlers alone.
LEMMA ComingTypes ==
    ASSUME BusTypeOK, NEW s \in Subs, Comings(s)
    PROVE  /\ BusTypeOK'
           /\ sub[s] \notin Handling /\ sub'[s] \notin Handling
           /\ UNCHANGED <<queue, faults, pub, pubTries, hand, cancelled, accepted, got, elsewhere>>
           /\ \A t \in Subs : t # s => sub'[t] = sub[t] /\ session'[t] = session[t]
  <1>0. MaxRetries \in Nat /\ MaxFaults \in Nat /\ SubTopic \in [Subs -> Topics]
    BY CountConstants
  <1> USE <1>0
  <1>1. UNCHANGED <<queue, faults, pub, pubTries, hand, cancelled, accepted, got, elsewhere>>
    BY DEF Comings, SubscribeOnce, MsgsClosed, BeginDrain, EndDrain, Redial
  <1>2. sub[s] \in {"start", "consume", "backoff"}
    BY DEF Comings, SubscribeOnce, MsgsClosed, BeginDrain, EndDrain, Redial
  <1>3. \/ UNCHANGED sub
        \/ \E x \in {"start", "consume", "backoff", "returned"} : sub' = [sub EXCEPT ![s] = x]
    BY DEF Comings, SubscribeOnce, MsgsClosed, BeginDrain, EndDrain, Redial, SubReturns, SubGoto,
           NextAttempt
  <1>4. \/ UNCHANGED session
        \/ \E b \in BOOLEAN : session' = [session EXCEPT ![s] = b]
    BY DEF Comings, SubscribeOnce, MsgsClosed, BeginDrain, EndDrain, Redial, SubReturns,
           NextAttempt
  <1>5. tries' \in [Subs -> 0..MaxRetries]
    BY DEF Comings, SubscribeOnce, MsgsClosed, BeginDrain, EndDrain, Redial, SubReturns,
           NextAttempt, BusTypeOK
  <1>6. draining' \subseteq Subs
    BY DEF Comings, SubscribeOnce, MsgsClosed, BeginDrain, EndDrain, Redial, SubReturns,
           NextAttempt, BusTypeOK
  <1>7. bound' \subseteq Topics /\ connected' \in BOOLEAN
    <2>1. bound' = bound \/ bound' = bound \cup {SubTopic[s]}
      BY DEF Comings, SubscribeOnce, MsgsClosed, BeginDrain, EndDrain, Redial
    <2>2. connected' = connected \/ connected' = TRUE
      BY DEF Comings, SubscribeOnce, MsgsClosed, BeginDrain, EndDrain, Redial
    <2>3. QED
      BY <2>1, <2>2 DEF BusTypeOK
  <1>8. sub' \in [Subs -> SubStates] /\ session' \in [Subs -> BOOLEAN]
    BY <1>3, <1>4 DEF BusTypeOK, SubStates
  <1>9. /\ sub'[s] \notin Handling /\ sub[s] \notin Handling
        /\ \A t \in Subs : t # s => sub'[t] = sub[t] /\ session'[t] = session[t]
    BY <1>2, <1>3, <1>4 DEF BusTypeOK, Handling
  <1>10. QED
    BY <1>1, <1>5, <1>6, <1>7, <1>8, <1>9 DEF BusTypeOK

\* Deliveries, acknowledgements and the connection.
LEMMA BusTypes ==
    ASSUME BaseInv, BusStep
    PROVE  /\ BusTypeOK'
           /\ \A s \in Subs : /\ hand'[s] \in Events <=> sub'[s] \in Handling
                              /\ sub'[s] = "send" <=> sub[s] = "send"
                              /\ sub[s] = "send" => hand'[s] = hand[s]
  <1> USE CountConstants
  <1>0. /\ BusTypeOK /\ HandInv /\ NoEvent \notin Events
        /\ sub \in [Subs -> SubStates] /\ hand \in [Subs -> Events \cup {NoEvent}]
        /\ queue \in [Events -> Nat] /\ got \in [Subs -> SUBSET Events]
    BY DEF BaseInv, BusTypeOK
  <1>1. CASE \E e \in Events : PublishStep(e)
    BY <1>0, <1>1, PublishTypes DEF HandInv
  <1>2. CASE \E e \in Events : DeliverElsewhere(e)
    <2>1. PICK e \in Events : DeliverElsewhere(e)
      BY <1>2
    <2>2. queue[e] \in Nat /\ queue[e] > 0 /\ queue' = [queue EXCEPT ![e] = @ - 1]
      BY <1>0, <2>1 DEF DeliverElsewhere
    <2>3. queue' \in [Events -> Nat] /\ elsewhere' \subseteq Events
      BY <1>0, <2>1, <2>2 DEF DeliverElsewhere, BusTypeOK
    <2>4. UNCHANGED <<bound, connected, faults, pub, pubTries, sub, tries, session,
                      draining, hand, cancelled, accepted, got>>
      BY <2>1 DEF DeliverElsewhere
    <2>5. QED
      BY <1>0, <2>3, <2>4 DEF BusTypeOK, HandInv
  <1>3. ASSUME NEW s \in Subs, Comings(s)
        PROVE  /\ BusTypeOK'
               /\ \A t \in Subs : /\ hand'[t] \in Events <=> sub'[t] \in Handling
                                  /\ sub'[t] = "send" <=> sub[t] = "send"
                                  /\ sub[t] = "send" => hand'[t] = hand[t]
    BY <1>0, <1>3, ComingTypes DEF HandInv, Handling
  <1>4. ASSUME NEW s \in Subs, NEW e \in Events, Deliver(s, e)
        PROVE  /\ BusTypeOK'
               /\ \A t \in Subs : /\ hand'[t] \in Events <=> sub'[t] \in Handling
                                  /\ sub'[t] = "send" <=> sub[t] = "send"
                                  /\ sub[t] = "send" => hand'[t] = hand[t]
    <2>1. /\ queue[e] \in Nat /\ queue[e] > 0 /\ queue' = [queue EXCEPT ![e] = @ - 1]
          /\ hand' = [hand EXCEPT ![s] = e] /\ sub' = [sub EXCEPT ![s] = "dedup"]
          /\ sub[s] = "consume"
      BY <1>0, <1>4 DEF Deliver, SubGoto
    <2>2. queue' \in [Events -> Nat]
      BY <1>0, <2>1
    <2>3. hand' \in [Subs -> Events \cup {NoEvent}] /\ sub' \in [Subs -> SubStates]
      BY <1>0, <2>1 DEF SubStates
    <2>4. UNCHANGED <<bound, connected, faults, pub, pubTries, tries, session,
                      draining, cancelled, accepted, got, elsewhere>>
      BY <1>4 DEF Deliver
    <2>5. BusTypeOK'
      BY <1>0, <2>2, <2>3, <2>4 DEF BusTypeOK
    <2>6. QED
      BY <1>0, <2>1, <2>5 DEF HandInv, Handling
  <1>5. ASSUME NEW s \in Subs, Ack(s)
        PROVE  /\ BusTypeOK'
               /\ \A t \in Subs : /\ hand'[t] \in Events <=> sub'[t] \in Handling
                                  /\ sub'[t] = "send" <=> sub[t] = "send"
                                  /\ sub[t] = "send" => hand'[t] = hand[t]
    <2>1. /\ got' = [got EXCEPT ![s] = @ \cup {hand[s]}]
          /\ hand' = [hand EXCEPT ![s] = NoEvent] /\ sub' = [sub EXCEPT ![s] = "consume"]
          /\ sub[s] = "ack"
      BY <1>5 DEF Ack, SubGoto
    <2>2. hand[s] \in Events
      BY <1>0, <2>1 DEF HandInv, Handling
    <2>3. got' \in [Subs -> SUBSET Events]
      BY <1>0, <2>1, <2>2
    <2>4. hand' \in [Subs -> Events \cup {NoEvent}] /\ sub' \in [Subs -> SubStates]
      BY <1>0, <2>1 DEF SubStates
    <2>5. UNCHANGED <<queue, bound, connected, faults, pub, pubTries, tries, session,
                      draining, cancelled, accepted, elsewhere>>
      BY <1>5 DEF Ack
    <2>6. BusTypeOK'
      BY <1>0, <2>3, <2>4, <2>5 DEF BusTypeOK
    <2>7. QED
      BY <1>0, <2>1, <2>6 DEF HandInv, Handling
  <1>6. CASE ConnectionLost
    <2>1. /\ UNCHANGED <<bound, pub, pubTries, sub, tries, draining, hand, cancelled,
                         accepted, got, elsewhere>>
          /\ Requeue /\ connected' = FALSE /\ session' = [s \in Subs |-> FALSE]
          /\ faults < MaxFaults /\ faults' = faults + 1
      BY <1>6 DEF ConnectionLost, LoseConnection, Fault
    <2>2. queue' \in [Events -> Nat]
      BY <1>0, <2>1, RequeueGrows
    <2>3. faults' \in 0..MaxFaults
      BY <1>0, <2>1 DEF BusTypeOK
    <2>4. session' \in [Subs -> BOOLEAN] /\ connected' \in BOOLEAN
      BY <2>1
    <2>5. BusTypeOK'
      BY <1>0, <2>1, <2>2, <2>3, <2>4 DEF BusTypeOK
    <2>6. QED
      BY <1>0, <2>1, <2>5 DEF HandInv
  <1>7. CASE Cancel
    <2>1. /\ UNCHANGED <<queue, bound, connected, faults, pub, pubTries, sub, tries,
                         session, draining, hand, accepted, got, elsewhere>>
          /\ cancelled' = TRUE
      BY <1>7 DEF Cancel
    <2>2. QED
      BY <1>0, <2>1 DEF BusTypeOK, HandInv
  <1>8. QED
    BY <1>1, <1>2, <1>3, <1>4, <1>5, <1>6, <1>7 DEF BusStep, SubscribeStep, Comings

\* What a step of the handler of s leaves alone, and where it goes.
LEMMA HandlerEffect ==
    ASSUME BaseInv, NEW s \in Subs, HandlerStep(s)
    PROVE  /\ UNCHANGED <<queue, bound, connected, pub, pubTries, tries, session, draining,
                          hand, cancelled, accepted, got, elsewhere, batch, applied>>
           /\ faults' \in 0..MaxFaults
           /\ sub[s] \in {"dedup", "send"} /\ hand[s] \in Events
           /\ \E x \in {"send", "ack"} : sub' = [sub EXCEPT ![s] = x]
           /\ \/ /\ sub[s] = "dedup" /\ UNCHANGED <<next, eventCh, lost>>
                 /\ next[s] = 1
              \/ /\ sub[s] = "send" /\ UNCHANGED <<seen, unguarded>>
                 /\ <<hand[s], next[s]>> \in DeltaIds
                 /\ \/ /\ next[s] = Len(DeltasOf[hand[s]])
                       /\ next' = [next EXCEPT ![s] = 1] /\ sub'[s] = "ack"
                    \/ /\ next[s] = 1 /\ Len(DeltasOf[hand[s]]) = 2
                       /\ next' = [next EXCEPT ![s] = 2] /\ sub'[s] = "send"
                 /\ \/ eventCh' = Append(eventCh, <<hand[s], next[s]>>) /\ lost' = lost
                    \/ lost' = lost \cup {<<hand[s], next[s]>>} /\ eventCh' = eventCh
  <1>0. MaxFaults \in Nat /\ \A e \in Events : Len(DeltasOf[e]) \in 1..2
    BY CountConstants
  <1>1. /\ UNCHANGED busRest /\ UNCHANGED <<batch, applied>>
        /\ sub[s] \in {"dedup", "send"} /\ (Fault \/ UNCHANGED faults)
    BY DEF HandlerStep, DedupSeen, DedupFails, Send, SendCtxDone
  <1>2. /\ UNCHANGED <<queue, bound, connected, pub, pubTries, tries, session, draining,
                       hand, cancelled, accepted, got, elsewhere, batch, applied>>
        /\ hand[s] \in Events
    BY <1>1 DEF busRest, BaseInv, HandInv, Handling
  <1>3. faults' \in 0..MaxFaults
    BY <1>0, <1>1 DEF Fault, BaseInv, BusTypeOK
  <1>4. sub \in [Subs -> SubStates] /\ next \in [Subs -> 1..2]
    BY DEF BaseInv, BusTypeOK, CountData
  <1>5. CASE sub[s] = "dedup"
    <2>1. UNCHANGED <<next, eventCh, lost>> /\ next[s] = 1
      BY <1>5 DEF HandlerStep, DedupSeen, DedupFails, Send, SendCtxDone, BaseInv, HandInv
    <2>2. \E x \in {"send", "ack"} : sub' = [sub EXCEPT ![s] = x]
      BY <1>5 DEF HandlerStep, DedupSeen, DedupFails, Send, SendCtxDone, SubGoto
    <2>3. QED
      BY <1>1, <1>2, <1>3, <1>5, <2>1, <2>2
  <1>6. CASE sub[s] = "send"
    <2>1. /\ (Send(s) \/ SendCtxDone(s)) /\ Advance(s)
          /\ UNCHANGED <<seen, unguarded>>
          /\ \/ eventCh' = Append(eventCh, <<hand[s], next[s]>>) /\ lost' = lost
             \/ lost' = lost \cup {<<hand[s], next[s]>>} /\ eventCh' = eventCh
      BY <1>6 DEF HandlerStep, DedupSeen, DedupFails, Send, SendCtxDone
    <2>2. Advance(s)
      BY <1>6 DEF HandlerStep, DedupSeen, DedupFails, Send, SendCtxDone
    <2>3. /\ next[s] \in 1..2 /\ next[s] <= Len(DeltasOf[hand[s]])
          /\ Len(DeltasOf[hand[s]]) \in 1..2
      BY <1>0, <1>2, <1>4, <1>6 DEF BaseInv, HandInv
    <2>4. <<hand[s], next[s]>> \in DeltaIds
      BY <1>2, <2>3, DeltaPairs
    <2>5. CASE next[s] = Len(DeltasOf[hand[s]])
      <3>1. next' = [next EXCEPT ![s] = 1] /\ sub' = [sub EXCEPT ![s] = "ack"]
        BY <2>2, <2>5 DEF Advance, SubGoto
      <3>2. sub'[s] = "ack"
        BY <1>4, <3>1
      <3>3. QED
        BY <1>1, <1>2, <1>3, <1>6, <2>1, <2>4, <2>5, <3>1, <3>2
    <2>6. CASE next[s] # Len(DeltasOf[hand[s]])
      <3>1. next' = [next EXCEPT ![s] = next[s] + 1] /\ sub' = [sub EXCEPT ![s] = "send"]
        BY <2>2, <2>6 DEF Advance, SubGoto
      <3>2. sub'[s] = "send" /\ next[s] = 1 /\ Len(DeltasOf[hand[s]]) = 2
        <4>0. \A n, m \in 1..2 : n <= m /\ n # m => n = 1 /\ m = 2
          OBVIOUS
        <4>1. next[s] = 1 /\ Len(DeltasOf[hand[s]]) = 2
          BY <2>3, <2>6, <4>0
        <4>2. QED
          BY <1>4, <3>1, <4>1
      <3>3. next' = [next EXCEPT ![s] = 2]
        BY <3>1, <3>2
      <3>4. QED
        BY <1>1, <1>2, <1>3, <1>6, <2>1, <2>4, <3>1, <3>2, <3>3
    <2>7. QED
      BY <2>5, <2>6
  <1>7. QED
    BY <1>1, <1>5, <1>6

\* The deltas of a set R leave the batch, into the counters or lost.
Settled(R) ==
    /\ batch' = [d \in DeltaIds |-> IF d \in R THEN 0 ELSE batch[d]]
    /\ \/ /\ applied' = [d \in DeltaIds |-> IF d \in R THEN applied[d] + batch[d] ELSE applied[d]]
          /\ lost' = lost
       \/ applied' = applied /\ lost' = lost \cup R

\* What a step of flushLoop does to the deltas.
LEMMA LoopEffect ==
    ASSUME BaseInv, LoopStep
    PROVE  /\ UNCHANGED <<queue, bound, connected, pub, pubTries, tries, session, draining, sub,
                          hand, cancelled, accepted, got, elsewhere, seen, next, unguarded>>
           /\ faults' \in 0..MaxFaults
           /\ \/ UNCHANGED <<eventCh, batch, applied, lost>>
              \/ TakeDelta /\ UNCHANGED <<applied, lost>>
              \/ /\ eventCh' = eventCh
                 /\ \E R \in SUBSET {d \in DeltaIds : batch[d] > 0} : Settled(R)
  <1>1. CASE LoopRecv \/ LoopTick \/ LoopCtxDone \/ LoopDrain \/ Flushed
    <2>1. /\ UNCHANGED busVars /\ UNCHANGED <<seen, next, unguarded, applied, lost>>
          /\ UNCHANGED <<eventCh, batch>> \/ TakeDelta
      BY <1>1 DEF LoopRecv, LoopTick, LoopCtxDone, LoopDrain, Flushed
    <2>2. UNCHANGED <<queue, bound, connected, pub, pubTries, tries, session, draining, sub,
                      hand, cancelled, accepted, got, elsewhere, faults>>
      BY <2>1 DEF busVars
    <2>3. faults' \in 0..MaxFaults
      BY <2>2 DEF BaseInv, BusTypeOK
    <2>4. QED
      BY <2>1, <2>2, <2>3
  <1>2. ASSUME NEW u \in Users, UpdateUser(u) \/ UpdateUserFails(u)
        PROVE  /\ UNCHANGED <<queue, bound, connected, pub, pubTries, tries, session, draining, sub,
                              hand, cancelled, accepted, got, elsewhere, seen, next, unguarded>>
               /\ faults' \in 0..MaxFaults
               /\ eventCh' = eventCh
               /\ \E R \in SUBSET {d \in DeltaIds : batch[d] > 0} : Settled(R)
    <2>1. UNCHANGED busVars \/ (UNCHANGED <<busRest, sub>> /\ (Fault \/ UNCHANGED faults))
      BY <1>2 DEF UpdateUser, UpdateUserFails
    <2>2. UNCHANGED <<queue, bound, connected, pub, pubTries, tries, session, draining, sub,
                      hand, cancelled, accepted, got, elsewhere>>
      BY <2>1 DEF busVars, busRest
    <2>3. Fault \/ UNCHANGED faults
      BY <2>1 DEF busVars
    <2>4. faults' \in 0..MaxFaults
      BY <2>3, CountConstants DEF Fault, BaseInv, BusTypeOK
    <2>5. UNCHANGED <<eventCh, seen, next, unguarded>>
      BY <1>2 DEF UpdateUser, UpdateUserFails
    <2>6. Settled(OnRow(u))
      BY <1>2 DEF UpdateUser, UpdateUserFails, Done, Settled
    <2>7. OnRow(u) \in SUBSET {d \in DeltaIds : batch[d] > 0}
      BY DEF OnRow
    <2>8. QED
      BY <2>2, <2>4, <2>5, <2>6, <2>7
  <1>3. QED
    BY <1>1, <1>2 DEF LoopStep

\* Types are kept, and what HandInv says of every handler.
LEMMA BaseStep == BaseInv /\ [Next]_vars => BaseInv'
  <1> SUFFICES ASSUME BaseInv, [Next]_vars PROVE BaseInv'
    OBVIOUS
  <1>0. BusTypeOK /\ CountData /\ HandInv /\ MaxFaults \in Nat /\ MaxRetries \in Nat
    BY CountConstants DEF BaseInv
  <1>1. CASE UNCHANGED vars
    BY <1>0, <1>1 DEF vars, busVars, countVars, BaseInv, BusTypeOK, CountData, HandInv
  <1>2. CASE BusStep /\ UNCHANGED countVars
    <2>1. CountData' /\ next' = next
      BY <1>0, <1>2 DEF countVars, CountData
    <2>2. HandInv'
      BY <1>0, <1>2, <2>1, BusTypes DEF HandInv
    <2>3. QED
      BY <1>2, <2>1, <2>2, BusTypes DEF BaseInv
  <1>3. ASSUME NEW s \in Subs, HandlerStep(s)
        PROVE  BaseInv'
    <2>1. PICK x \in {"send", "ack"} : sub' = [sub EXCEPT ![s] = x]
      BY <1>3, HandlerEffect
    <2>2. sub' \in [Subs -> SubStates] /\ sub'[s] = x
          /\ \A t \in Subs : t # s => sub'[t] = sub[t]
      BY <1>0, <2>1 DEF BusTypeOK, SubStates
    <2>3. BusTypeOK'
      <3>1. /\ UNCHANGED <<queue, bound, connected, pub, pubTries, tries, session, draining,
                           hand, cancelled, accepted, got, elsewhere>>
            /\ faults' \in 0..MaxFaults
        BY <1>3, HandlerEffect
      <3>2. QED
        BY <1>0, <2>2, <3>1 DEF BusTypeOK
    <2>4. CASE sub[s] = "dedup"
      <3>1. UNCHANGED <<hand, next, eventCh, lost, batch, applied>> /\ next[s] = 1 /\ hand[s] \in Events
        BY <1>3, <2>4, HandlerEffect
      <3>2. seen' \subseteq Events /\ unguarded' \subseteq Events
        BY <1>0, <1>3, <2>4, <3>1 DEF HandlerStep, DedupSeen, DedupFails, Send, SendCtxDone,
           SeenOrMark, CountData
      <3>3. CountData'
        BY <1>0, <3>1, <3>2 DEF CountData
      <3>4. HandInv'
        <4>1. 1 <= Len(DeltasOf[hand[s]])
          BY <3>1, CountConstants
        <4>2. QED
          BY <1>0, <2>2, <2>4, <3>1, <4>1 DEF HandInv, Handling
      <3>5. QED
        BY <2>3, <3>3, <3>4 DEF BaseInv
    <2>5. CASE sub[s] = "send"
      <3>1. /\ UNCHANGED <<hand, seen, unguarded, batch, applied>> /\ hand[s] \in Events
            /\ <<hand[s], next[s]>> \in DeltaIds
            /\ \/ eventCh' = Append(eventCh, <<hand[s], next[s]>>) /\ lost' = lost
               \/ lost' = lost \cup {<<hand[s], next[s]>>} /\ eventCh' = eventCh
            /\ \/ next' = [next EXCEPT ![s] = 1] /\ sub'[s] = "ack"
               \/ /\ Len(DeltasOf[hand[s]]) = 2
                  /\ next' = [next EXCEPT ![s] = 2] /\ sub'[s] = "send"
        BY <1>3, <2>5, HandlerEffect
      <3>2. eventCh' \in Seq(DeltaIds) /\ lost' \subseteq DeltaIds
        <4>1. Append(eventCh, <<hand[s], next[s]>>) \in Seq(DeltaIds)
          BY <1>0, <3>1, RangeOfAppend DEF CountData
        <4>2. QED
          BY <1>0, <3>1, <4>1 DEF CountData
      <3>3. next' \in [Subs -> 1..2]
        BY <1>0, <3>1 DEF CountData
      <3>4. CountData'
        BY <1>0, <3>1, <3>2, <3>3 DEF CountData
      <3>5. HandInv'
        <4>1. next \in [Subs -> 1..2]
          BY <1>0 DEF CountData
        <4>2. \A t \in Subs : t # s => next'[t] = next[t]
          BY <3>1, <4>1
        <4>3. \/ next'[s] = 1 /\ sub'[s] = "ack"
              \/ next'[s] = 2 /\ sub'[s] = "send" /\ Len(DeltasOf[hand[s]]) = 2
          BY <3>1, <4>1
        <4>4. ASSUME NEW t \in Subs
              PROVE  /\ hand'[t] \in Events <=> sub'[t] \in Handling
                     /\ sub'[t] # "send" => next'[t] = 1
                     /\ sub'[t] = "send" => next'[t] <= Len(DeltasOf[hand'[t]])
          <5>1. CASE t = s
            BY <3>1, <4>3, <5>1 DEF Handling
          <5>2. CASE t # s
            BY <1>0, <2>2, <3>1, <4>2, <5>2 DEF HandInv
          <5>3. QED
            BY <5>1, <5>2
        <4>5. QED
          BY <4>4 DEF HandInv
      <3>6. QED
        BY <2>3, <3>4, <3>5 DEF BaseInv
    <2>6. QED
      BY <1>3, <2>4, <2>5, HandlerEffect
  <1>4. CASE LoopStep
    <2>1. BusTypeOK'
      <3>1. /\ UNCHANGED <<queue, bound, connected, pub, pubTries, tries, session, draining, sub,
                           hand, cancelled, accepted, got, elsewhere>>
            /\ faults' \in 0..MaxFaults
        BY <1>4, LoopEffect
      <3>2. QED
        BY <1>0, <3>1 DEF BusTypeOK
    <2>2. UNCHANGED <<hand, sub, next, seen, unguarded>>
      BY <1>4, LoopEffect
    <2>3. CountData'
      <3>1. CASE UNCHANGED <<eventCh, batch, applied, lost>>
        BY <1>0, <2>2, <3>1 DEF CountData
      <3>2. CASE TakeDelta /\ UNCHANGED <<applied, lost>>
        <4>1. Tail(eventCh) \in Seq(DeltaIds) /\ Head(eventCh) \in DeltaIds
          BY <1>0, <3>2, RangeOfTail DEF TakeDelta, CountData
        <4>2. batch' \in [DeltaIds -> Nat]
          BY <1>0, <3>2, <4>1 DEF TakeDelta, CountData
        <4>3. QED
          BY <1>0, <2>2, <3>2, <4>1, <4>2 DEF TakeDelta, CountData
      <3>3. ASSUME NEW R \in SUBSET {d \in DeltaIds : batch[d] > 0}, Settled(R), eventCh' = eventCh
            PROVE  CountData'
        <4>1. batch' \in [DeltaIds -> Nat] /\ applied' \in [DeltaIds -> Nat]
          <5>1. \A d \in DeltaIds : batch[d] \in Nat /\ applied[d] \in Nat
            BY <1>0 DEF CountData
          <5>2. \A d \in DeltaIds : applied[d] + batch[d] \in Nat
            BY <5>1
          <5>3. batch' \in [DeltaIds -> Nat]
            BY <3>3, <5>1 DEF Settled
          <5>4. applied' \in [DeltaIds -> Nat]
            BY <1>0, <3>3, <5>1, <5>2 DEF Settled, CountData
          <5>5. QED
            BY <5>3, <5>4
        <4>2. lost' \subseteq DeltaIds
          BY <1>0, <3>3 DEF Settled, CountData
        <4>3. QED
          BY <1>0, <2>2, <3>3, <4>1, <4>2 DEF CountData
      <3>4. QED
        BY <1>4, <3>1, <3>2, <3>3, LoopEffect
    <2>4. HandInv'
      BY <1>0, <2>2 DEF HandInv
    <2>5. QED
      BY <2>1, <2>3, <2>4 DEF BaseInv
  <1>5. CASE Crash
    <2>1. /\ Requeue /\ faults < MaxFaults /\ faults' = faults + 1 /\ connected' = TRUE
          /\ pub' = [e \in Events |-> IF pub[e] \in {"try", "backoff"} THEN "failed" ELSE pub[e]]
          /\ pubTries' = [e \in Events |-> 0]
          /\ sub' = [s \in Subs |-> "start"]
          /\ tries' = [s \in Subs |-> 0]
          /\ session' = [s \in Subs |-> FALSE]
          /\ draining' = {}
          /\ hand' = [s \in Subs |-> NoEvent]
          /\ cancelled' = FALSE
          /\ UNCHANGED <<bound, accepted, got, elsewhere>>
      BY <1>5 DEF Crash, BusCrash, Fault
    <2>2. queue' \in [Events -> Nat]
      BY <1>0, <2>1, RequeueGrows
    <2>3. faults' \in 0..MaxFaults
      BY <1>0, <2>1 DEF BusTypeOK
    <2>4. /\ pub' \in [Events -> {"idle", "try", "backoff", "done", "failed"}]
          /\ pubTries' \in [Events -> 0..MaxRetries] /\ tries' \in [Subs -> 0..MaxRetries]
      BY <1>0, <2>1 DEF BusTypeOK
    <2>5. connected' \in BOOLEAN /\ cancelled' \in BOOLEAN /\ session' \in [Subs -> BOOLEAN]
      BY <2>1
    <2>6. sub' \in [Subs -> SubStates] /\ hand' \in [Subs -> Events \cup {NoEvent}]
      BY <2>1 DEF SubStates
    <2>7. BusTypeOK'
      BY <1>0, <2>1, <2>2, <2>3, <2>4, <2>5, <2>6 DEF BusTypeOK
    <2>8. CountData'
      <3>1. InMemory \subseteq DeltaIds
        BY <1>0 DEF InMemory, CountData, Range
      <3>2. /\ UNCHANGED <<seen, applied, unguarded>> /\ eventCh' = <<>>
            /\ batch' = [d \in DeltaIds |-> 0] /\ lost' = lost \cup InMemory
            /\ next' = [s \in Subs |-> 1]
        BY <1>5 DEF Crash, NoDeltas
      <3>3. <<>> \in Seq(DeltaIds)
        OBVIOUS
      <3>4. batch' \in [DeltaIds -> Nat] /\ next' \in [Subs -> 1..2]
        BY <3>2
      <3>5. QED
        BY <1>0, <3>1, <3>2, <3>3, <3>4 DEF CountData
    <2>9. HandInv'
      BY <1>5, <2>1, CountConstants DEF Crash, HandInv, Handling
    <2>10. QED
      BY <2>7, <2>8, <2>9 DEF BaseInv
  <1>6. QED
    BY <1>1, <1>2, <1>3, <1>4, <1>5 DEF Next

\* The initial state.
LEMMA BaseInit == Init => BaseInv
  <1>1. SUFFICES ASSUME Init PROVE BaseInv
    OBVIOUS
  <1>2. BusTypeOK
    <2>1. BusInit /\ 0 \in 0..MaxRetries /\ 0 \in 0..MaxFaults
      BY <1>1, CountConstants DEF Init
    <2>2. connected \in BOOLEAN /\ cancelled \in BOOLEAN /\ session \in [Subs -> BOOLEAN]
      BY <2>1 DEF BusInit
    <2>3. QED
      BY <2>1, <2>2 DEF BusInit, BusTypeOK, SubStates
  <1>3. CountData
    <2>1. <<>> \in Seq(DeltaIds)
      OBVIOUS
    <2>2. QED
      BY <1>1, <2>1 DEF Init, NoDeltas, CountData
  <1>4. HandInv
    BY <1>1, CountConstants DEF Init, BusInit, HandInv, Handling
  <1>5. QED
    BY <1>2, <1>3, <1>4 DEF BaseInv

\* The variables of the bus keep their types through every fault (rabbitmq.go);
\* an event is in a handler exactly while the handler runs, and the handler sends
\* only deltas the event has (count_consumer.go).
THEOREM BaseInvariance == Spec => []BaseInv
  BY BaseInit, BaseStep, PTL DEF Spec

-----------------------------------------------------------------------------
(***************************************************************************)
(* At least once.  A handler whose channel is gone still runs, but the     *)
(* broker has requeued its event and a crash would not requeue it again:   *)
(* only handlers with an open channel count.                               *)
(***************************************************************************)

HeldInv ==
    \A e \in accepted :
        \/ queue[e] > 0
        \/ e \in elsewhere
        \/ \E s \in Subs : (hand[s] = e /\ session[s]) \/ e \in got[s]

\* Nothing is taken away.
LEMMA HeldKept ==
    ASSUME BaseInv, HeldInv, UNCHANGED <<accepted, elsewhere, got>>, queue' \in [Events -> Nat],
           \A e \in Events : queue[e] > 0 => queue'[e] > 0,
           \A s \in Subs : hand[s] \in Events /\ session[s] =>
                              \/ hand'[s] = hand[s] /\ session'[s]
                              \/ queue'[hand[s]] > 0
    PROVE  HeldInv'
  <1>1. SUFFICES ASSUME NEW e \in accepted
                 PROVE  \/ queue'[e] > 0
                        \/ e \in elsewhere
                        \/ \E s \in Subs : (hand'[s] = e /\ session'[s]) \/ e \in got[s]
    BY DEF HeldInv
  <1>2. e \in Events
    BY <1>1 DEF BaseInv, BusTypeOK
  <1>3. QED
    BY <1>1, <1>2 DEF HeldInv

\* The connection or the process dies: the broker requeues.
LEMMA HeldRequeued ==
    ASSUME BaseInv, HeldInv, UNCHANGED <<accepted, elsewhere, got>>, Requeue
    PROVE  HeldInv'
  <1>1. /\ queue' \in [Events -> Nat] /\ queue \in [Events -> Nat]
        /\ \A e \in Events : queue'[e] >= queue[e] /\ (Unacked(e) # {} => queue'[e] > 0)
    BY RequeueGrows DEF BaseInv, BusTypeOK
  <1>2. \A e \in Events : queue[e] > 0 => queue'[e] > 0
    BY <1>1
  <1>3. \A s \in Subs : hand[s] \in Events /\ session[s] => queue'[hand[s]] > 0
    BY <1>1 DEF Unacked
  <1>4. QED
    BY <1>1, <1>2, <1>3, HeldKept

\* The steps of the bus.
LEMMA HeldBus ==
    ASSUME BaseInv, HeldInv, BusStep
    PROVE  HeldInv'
  <1>0. /\ queue \in [Events -> Nat] /\ hand \in [Subs -> Events \cup {NoEvent}]
        /\ got \in [Subs -> SUBSET Events] /\ sub \in [Subs -> SubStates]
        /\ accepted \subseteq Events /\ NoEvent \notin Events
        /\ BusTypeOK /\ HandInv
    BY CountConstants DEF BaseInv, BusTypeOK
  <1>1. ASSUME NEW e \in Events, PublishStep(e)
        PROVE  HeldInv'
    <2>1. CASE PublishUnconfirmed(e)
      BY <2>1, HeldRequeued DEF PublishUnconfirmed, LoseConnection
    <2>2. CASE PublishError(e) \/ PublishReopen(e)
      <3>1. UNCHANGED <<queue, session, hand, accepted, got, elsewhere>>
        BY <2>2 DEF PublishError, PublishReopen
      <3>2. QED
        BY <1>0, <3>1, HeldKept
    <2>3. CASE PublishSent(e)
      <3>1. UNCHANGED <<session, hand, got, elsewhere>>
        BY <2>3 DEF PublishSent
      <3>2. CASE TopicOf[e] \in bound
        <4>1. queue' = [queue EXCEPT ![e] = @ + 1] /\ accepted' = accepted \cup {e}
          BY <2>3, <3>2 DEF PublishSent
        <4>2. queue'[e] > 0 /\ \A f \in Events : f # e => queue'[f] = queue[f]
          BY <1>0, <4>1
        <4>3. QED
          BY <1>0, <3>1, <4>1, <4>2 DEF HeldInv
      <3>3. CASE TopicOf[e] \notin bound
        BY <1>0, <2>3, <3>1, <3>3, HeldKept DEF PublishSent
      <3>4. QED
        BY <3>2, <3>3
    <2>4. QED
      BY <1>1, <2>1, <2>2, <2>3 DEF PublishStep
  <1>2. ASSUME NEW e \in Events, DeliverElsewhere(e)
        PROVE  HeldInv'
    <2>1. /\ elsewhere' = elsewhere \cup {e} /\ queue' = [queue EXCEPT ![e] = @ - 1]
          /\ UNCHANGED <<session, hand, accepted, got>>
      BY <1>2 DEF DeliverElsewhere
    <2>2. \A f \in Events : f # e => queue'[f] = queue[f]
      BY <1>0, <2>1
    <2>3. QED
      BY <1>0, <2>1, <2>2 DEF HeldInv
  <1>3. ASSUME NEW s \in Subs, Comings(s)
        PROVE  HeldInv'
    <2>1. /\ sub[s] \notin Handling /\ UNCHANGED <<queue, hand, accepted, got, elsewhere>>
          /\ \A t \in Subs : t # s => session'[t] = session[t]
      BY <1>0, <1>3, ComingTypes
    <2>2. hand[s] \notin Events
      BY <1>0, <2>1 DEF HandInv
    <2>3. QED
      BY <1>0, <2>1, <2>2, HeldKept
  <1>4. ASSUME NEW s \in Subs, NEW e \in Events, Deliver(s, e)
        PROVE  HeldInv'
    <2>1. /\ session[s] /\ sub[s] = "consume"
          /\ queue' = [queue EXCEPT ![e] = @ - 1] /\ hand' = [hand EXCEPT ![s] = e]
          /\ UNCHANGED <<session, accepted, got, elsewhere>>
      BY <1>4 DEF Deliver
    <2>2. /\ \A f \in Events : f # e => queue'[f] = queue[f]
          /\ hand'[s] = e /\ \A t \in Subs : t # s => hand'[t] = hand[t]
      BY <1>0, <2>1
    <2>3. hand[s] \notin Events
      BY <1>0, <2>1 DEF HandInv, Handling
    <2>4. QED
      BY <1>0, <2>1, <2>2, <2>3 DEF HeldInv
  <1>5. ASSUME NEW s \in Subs, Ack(s)
        PROVE  HeldInv'
    <2>1. /\ got' = [got EXCEPT ![s] = @ \cup {hand[s]}] /\ hand' = [hand EXCEPT ![s] = NoEvent]
          /\ UNCHANGED <<queue, session, accepted, elsewhere>>
      BY <1>5 DEF Ack
    <2>2. /\ got'[s] = got[s] \cup {hand[s]}
          /\ \A t \in Subs : t # s => got'[t] = got[t] /\ hand'[t] = hand[t]
      BY <1>0, <2>1
    <2>3. QED
      BY <1>0, <2>1, <2>2 DEF HeldInv
  <1>6. CASE ConnectionLost
    BY <1>6, HeldRequeued DEF ConnectionLost, LoseConnection
  <1>7. CASE Cancel
    BY <1>0, <1>7, HeldKept DEF Cancel
  <1>8. QED
    BY <1>1, <1>2, <1>3, <1>4, <1>5, <1>6, <1>7 DEF BusStep, SubscribeStep, Comings

\* Every step preserves HeldInv.
LEMMA HeldStep == BaseInv /\ HeldInv /\ [Next]_vars => HeldInv'
  <1> SUFFICES ASSUME BaseInv, HeldInv, [Next]_vars PROVE HeldInv'
    OBVIOUS
  <1>0. queue \in [Events -> Nat]
    BY DEF BaseInv, BusTypeOK
  <1>1. CASE UNCHANGED <<queue, session, hand, accepted, got, elsewhere>>
    BY <1>0, <1>1, HeldKept
  <1>2. CASE BusStep
    BY <1>2, HeldBus
  <1>3. CASE Crash
    BY <1>3, HeldRequeued DEF Crash, BusCrash
  <1>4. ASSUME (\E s \in Subs : HandlerStep(s)) \/ LoopStep \/ UNCHANGED vars
        PROVE  UNCHANGED <<queue, session, hand, accepted, got, elsewhere>>
    BY <1>4, HandlerEffect, LoopEffect DEF vars, busVars
  <1>5. QED
    BY <1>1, <1>2, <1>3, <1>4 DEF Next

\* An event the broker has accepted waits in its queue or is with a handler until
\* some handler has returned from it (rabbitmq.go:22-24), through any number of
\* lost connections and crashes.
THEOREM DeliveredAtLeastOnce == Spec => []AtLeastOnce
  <1>1. Init => HeldInv
    BY DEF Init, BusInit, HeldInv
  <1>2. HeldInv => AtLeastOnce
    BY DEF HeldInv, AtLeastOnce
  <1>3. QED
    BY <1>1, <1>2, HeldStep, BaseInvariance, PTL DEF Spec

-----------------------------------------------------------------------------
(***************************************************************************)
(* At most once.  A delta is in one place at a time: with the handler that *)
(* marked its event, in eventCh, in the batch, or in the counters; it gets *)
(* in only when SETNX finds no mark.                                       *)
(***************************************************************************)

Sending(s, e) == sub[s] = "send" /\ hand[s] = e

\* A handler has still to send d.
Pending(d) == \E s \in Subs : Sending(s, d[1]) /\ next[s] <= d[2]

\* d occurs at most once in the sequence q.
Once(q, d) == \A i, j \in DOMAIN q : q[i] = d /\ q[j] = d => i = j

Single(d) ==
    /\ d[1] \notin seen => /\ applied[d] = 0 /\ batch[d] = 0 /\ d \notin Range(eventCh)
                           /\ \A s \in Subs : ~Sending(s, d[1])
    /\ \A s, t \in Subs : Sending(s, d[1]) /\ Sending(t, d[1]) => s = t
    /\ Once(eventCh, d)
    /\ applied[d] + batch[d] <= 1
    /\ d \in Range(eventCh) => applied[d] + batch[d] = 0
    /\ Pending(d) => applied[d] + batch[d] = 0 /\ d \notin Range(eventCh)

OnceInv == \A d \in DeltaIds : d[1] \notin unguarded => Single(d)

\* Once, after Append and after Tail.
LEMMA OnceAppend ==
    ASSUME NEW S, NEW q \in Seq(S), NEW x \in S, NEW d, Once(q, d), x = d => d \notin Range(q)
    PROVE  Once(Append(q, x), d)
  <1>1. /\ DOMAIN Append(q, x) = 1..Len(q) + 1
        /\ \A i \in 1..Len(q) : Append(q, x)[i] = q[i]
        /\ Append(q, x)[Len(q) + 1] = x
        /\ DOMAIN q = 1..Len(q) /\ Len(q) \in Nat
    OBVIOUS
  <1>2. x = d => \A i \in 1..Len(q) : q[i] # d
    BY <1>1 DEF Range
  <1>3. \A i \in 1..Len(q) + 1 : i \in 1..Len(q) \/ i = Len(q) + 1
    BY <1>1
  <1>4. QED
    BY <1>1, <1>2, <1>3 DEF Once

\* What occurs once in a sequence occurs once in its tail, and not there when it was first.
LEMMA OnceTail ==
    ASSUME NEW S, NEW q \in Seq(S), q # <<>>, NEW d, Once(q, d)
    PROVE  Once(Tail(q), d) /\ (Head(q) = d => d \notin Range(Tail(q)))
  <1>1. /\ DOMAIN Tail(q) = 1..Len(q) - 1
        /\ \A i \in 1..Len(q) - 1 : Tail(q)[i] = q[i + 1]
        /\ Head(q) = q[1]
        /\ DOMAIN q = 1..Len(q) /\ Len(q) \in Nat \ {0}
    OBVIOUS
  <1>2. \A i, j \in 1..Len(q) : q[i] = d /\ q[j] = d => i = j
    BY <1>1 DEF Once
  <1>3. \A i \in 1..Len(q) - 1 : i + 1 \in 1..Len(q) /\ i + 1 # 1 /\ 1 \in 1..Len(q)
    BY <1>1
  <1>4. Once(Tail(q), d)
    <2>1. SUFFICES ASSUME NEW i \in 1..Len(q) - 1, NEW j \in 1..Len(q) - 1,
                          q[i + 1] = d, q[j + 1] = d
                   PROVE  i = j
      BY <1>1 DEF Once
    <2>2. i + 1 = j + 1
      BY <1>2, <1>3, <2>1
    <2>3. QED
      BY <2>1, <2>2
  <1>5. Head(q) = d => d \notin Range(Tail(q))
    BY <1>1, <1>2, <1>3 DEF Range
  <1>6. QED
    BY <1>4, <1>5

\* A step that leaves the deltas of an event alone.
LEMMA SingleKept ==
    ASSUME NEW d \in DeltaIds, Single(d), UNCHANGED <<eventCh, batch, applied>>,
           d[1] \in seen' <=> d[1] \in seen,
           \A s \in Subs : Sending(s, d[1])' => Sending(s, d[1]) /\ next'[s] = next[s]
    PROVE  Single(d)'
  <1>1. Pending(d)' => Pending(d)
    BY DEF Pending
  <1>2. QED
    BY <1>1 DEF Single, Once

\* SETNX: the event has been marked and nothing changes, or it is new, and then
\* nothing of it is anywhere.
LEMMA OnceDedup ==
    ASSUME BaseInv, OnceInv, NEW s \in Subs, DedupSeen(s) \/ DedupFails(s)
    PROVE  OnceInv'
  <1>1. /\ UNCHANGED <<hand, next, eventCh, batch, applied>> /\ sub[s] = "dedup"
        /\ hand[s] \in Events /\ seen' \subseteq seen \cup {hand[s]} /\ seen \subseteq seen'
        /\ unguarded \subseteq unguarded'
    BY HandlerEffect DEF HandlerStep, DedupSeen, DedupFails, SeenOrMark
  <1>2. /\ sub \in [Subs -> SubStates] /\ batch \in [DeltaIds -> Nat] /\ applied \in [DeltaIds -> Nat]
    BY DEF BaseInv, BusTypeOK, CountData
  <1>3. \A t \in Subs : t # s => sub'[t] = sub[t]
    BY <1>2, HandlerEffect DEF HandlerStep
  <1>4. SUFFICES ASSUME NEW d \in DeltaIds, d[1] \notin unguarded'
                 PROVE  Single(d)'
    BY DEF OnceInv
  <1>5. Single(d)
    BY <1>1, <1>4 DEF OnceInv
  <1>6. CASE d[1] # hand[s]
    <2>1. \A t \in Subs : Sending(t, d[1])' => Sending(t, d[1]) /\ next'[t] = next[t]
      BY <1>1, <1>3, <1>6 DEF Sending
    <2>2. d[1] \in seen' <=> d[1] \in seen
      BY <1>1, <1>6
    <2>3. QED
      BY <1>1, <1>4, <1>5, <2>1, <2>2, SingleKept
  <1>7. CASE d[1] = hand[s]
    <2>1. DedupSeen(s)
      BY <1>4, <1>7 DEF DedupFails
    <2>2. hand[s] \in seen'
      BY <2>1 DEF DedupSeen, SeenOrMark
    <2>3. CASE hand[s] \in seen
      <3>1. sub'[s] = "ack"
        BY <1>2, <2>1, <2>3 DEF DedupSeen, SubGoto
      <3>2. \A t \in Subs : Sending(t, d[1])' => Sending(t, d[1]) /\ next'[t] = next[t]
        BY <1>1, <1>3, <3>1 DEF Sending
      <3>3. QED
        BY <1>1, <1>4, <1>5, <1>7, <2>2, <2>3, <3>2, SingleKept
    <2>4. CASE hand[s] \notin seen
      <3>1. applied[d] = 0 /\ batch[d] = 0 /\ d \notin Range(eventCh)
            /\ \A t \in Subs : ~Sending(t, d[1])
        BY <1>5, <1>7, <2>4 DEF Single
      <3>2. \A t \in Subs : Sending(t, d[1])' => t = s
        BY <1>1, <1>3, <3>1 DEF Sending
      <3>3. Once(eventCh', d)
        BY <1>1, <1>5 DEF Single
      <3>4. applied'[d] = 0 /\ batch'[d] = 0 /\ d \notin Range(eventCh')
        BY <1>1, <3>1
      <3>5. QED
        BY <1>7, <2>2, <3>2, <3>3, <3>4 DEF Single
    <2>5. QED
      BY <2>3, <2>4
  <1>8. QED
    BY <1>6, <1>7

\* The handler sends a delta, or gives it up, and does not send it again.
LEMMA OnceSend ==
    ASSUME BaseInv, OnceInv, NEW s \in Subs, Send(s) \/ SendCtxDone(s)
    PROVE  OnceInv'
  <1> DEFINE x == <<hand[s], next[s]>>
  <1>1. /\ HandlerStep(s) /\ sub[s] = "send"
    BY DEF HandlerStep, Send, SendCtxDone
  <1>2. /\ UNCHANGED <<hand, seen, unguarded, batch, applied>> /\ x \in DeltaIds
        /\ \/ next' = [next EXCEPT ![s] = 1] /\ sub'[s] = "ack"
           \/ next[s] = 1 /\ next' = [next EXCEPT ![s] = 2] /\ sub'[s] = "send"
        /\ eventCh' = Append(eventCh, x) \/ eventCh' = eventCh
        /\ \E y \in {"send", "ack"} : sub' = [sub EXCEPT ![s] = y]
    BY <1>1, HandlerEffect
  <1>3. /\ sub \in [Subs -> SubStates] /\ next \in [Subs -> 1..2] /\ eventCh \in Seq(DeltaIds)
        /\ batch \in [DeltaIds -> Nat] /\ applied \in [DeltaIds -> Nat]
    BY DEF BaseInv, BusTypeOK, CountData
  <1>4. /\ \A t \in Subs : t # s => sub'[t] = sub[t] /\ next'[t] = next[t]
        /\ sub'[s] = "send" => next[s] = 1 /\ next'[s] = 2
    BY <1>2, <1>3
  <1>5. SUFFICES ASSUME NEW d \in DeltaIds, d[1] \notin unguarded
                 PROVE  Single(d)'
    BY <1>2 DEF OnceInv
  <1>6. Single(d)
    BY <1>5 DEF OnceInv
  <1>7. \A t \in Subs : Sending(t, d[1])' => Sending(t, d[1])
    BY <1>1, <1>2, <1>4 DEF Sending
  <1>8. d[2] \in 1..2 /\ \A t \in Subs : next[t] \in 1..2
    BY <1>3, DeltaPairs
  <1>9. Pending(d)' => Pending(d) /\ d # x
    <2>1. SUFFICES ASSUME NEW t \in Subs, Sending(t, d[1])', next'[t] <= d[2]
                   PROVE  Pending(d) /\ d # x
      BY DEF Pending
    <2>2. CASE t = s
      <3>1. next[s] = 1 /\ next'[s] = 2
        BY <1>4, <2>1, <2>2 DEF Sending
      <3>2. d[2] = 2 /\ next[s] <= d[2]
        BY <1>8, <2>1, <2>2, <3>1
      <3>3. d # x
        BY <3>1, <3>2
      <3>4. QED
        BY <1>7, <2>1, <2>2, <3>2, <3>3 DEF Pending
    <2>3. CASE t # s
      <3>1. Sending(t, d[1]) /\ next[t] <= d[2]
        BY <1>4, <1>7, <2>1, <2>3
      <3>2. d[1] # hand[s]
        BY <1>1, <1>6, <2>3, <3>1 DEF Single, Sending
      <3>3. QED
        BY <3>1, <3>2 DEF Pending
    <2>4. QED
      BY <2>2, <2>3
  <1>10. d = x => Pending(d)
    BY <1>1, <1>8 DEF Pending, Sending
  <1>11. /\ Range(eventCh') \subseteq Range(eventCh) \cup {x} /\ Once(eventCh', d)
    <2>1. Range(Append(eventCh, x)) = Range(eventCh) \cup {x}
      <3> HIDE DEF x
      <3>1. QED
        BY <1>2, <1>3, RangeOfAppend
    <2>2. Once(Append(eventCh, x), d)
      BY <1>2, <1>3, <1>6, <1>10, OnceAppend DEF Single
    <2>3. QED
      BY <1>2, <1>6, <2>1, <2>2 DEF Single
  <1>12. d[1] \notin seen => d # x
    BY <1>1, <1>6 DEF Single, Sending
  <1>13. d \in Range(eventCh') => applied[d] + batch[d] = 0
    BY <1>6, <1>10, <1>11 DEF Single
  <1>14. Pending(d)' => applied[d] + batch[d] = 0 /\ d \notin Range(eventCh')
    BY <1>6, <1>9, <1>11 DEF Single
  <1> HIDE DEF x
  <1>15. d[1] \notin seen => d \notin Range(eventCh')
    BY <1>6, <1>11, <1>12 DEF Single
  <1>16. QED
    BY <1>2, <1>6, <1>7, <1>11, <1>13, <1>14, <1>15 DEF Single

\* flushLoop moves deltas from eventCh to the batch and on.
LEMMA OnceLoop ==
    ASSUME BaseInv, OnceInv, LoopStep
    PROVE  OnceInv'
  <1>1. UNCHANGED <<sub, hand, next, seen, unguarded>>
    BY LoopEffect
  <1>2. /\ eventCh \in Seq(DeltaIds) /\ batch \in [DeltaIds -> Nat] /\ applied \in [DeltaIds -> Nat]
    BY DEF BaseInv, CountData
  <1>3. SUFFICES ASSUME NEW d \in DeltaIds, d[1] \notin unguarded
                 PROVE  Single(d)'
    BY <1>1 DEF OnceInv
  <1>4. Single(d) /\ batch[d] \in Nat /\ applied[d] \in Nat
    BY <1>2, <1>3 DEF OnceInv
  <1>5. /\ \A s \in Subs : Sending(s, d[1])' <=> Sending(s, d[1])
        /\ Pending(d)' <=> Pending(d)
    BY <1>1 DEF Sending, Pending
  <1>6. CASE UNCHANGED <<eventCh, batch, applied, lost>>
    BY <1>1, <1>3, <1>4, <1>5, <1>6, SingleKept
  <1>7. CASE TakeDelta /\ UNCHANGED <<applied, lost>>
    <2> DEFINE x == Head(eventCh)
    <2>1. /\ eventCh # <<>> /\ eventCh' = Tail(eventCh) /\ applied' = applied
          /\ batch' = [batch EXCEPT ![x] = @ + 1]
      BY <1>7 DEF TakeDelta
    <2>2. x \in DeltaIds /\ Range(eventCh) = Range(eventCh') \cup {x}
      BY <1>2, <2>1, RangeOfTail
    <2>3. Once(eventCh', d) /\ (d = x => d \notin Range(eventCh'))
      BY <1>2, <1>4, <2>1, OnceTail DEF Single
    <2>4. batch'[d] = IF d = x THEN batch[d] + 1 ELSE batch[d]
      BY <1>2, <2>1, <2>2
    <2> HIDE DEF x
    <2>5. CASE d = x
      <3>1. d \in Range(eventCh) /\ d \notin Range(eventCh')
        BY <2>2, <2>3, <2>5
      <3>2. applied[d] + batch[d] = 0 /\ ~Pending(d) /\ d[1] \in seen
        BY <1>4, <3>1 DEF Single
      <3>3. applied'[d] + batch'[d] = 1
        BY <1>4, <2>1, <2>4, <2>5, <3>2
      <3>4. applied'[d] + batch'[d] <= 1
        BY <3>3
      <3>5. QED
        BY <1>1, <1>4, <1>5, <2>3, <3>1, <3>2, <3>4 DEF Single
    <2>6. CASE d # x
      <3>1. /\ applied'[d] = applied[d] /\ batch'[d] = batch[d]
            /\ d \in Range(eventCh') <=> d \in Range(eventCh)
        BY <2>1, <2>2, <2>4, <2>6
      <3>2. QED
        BY <1>1, <1>4, <1>5, <2>3, <3>1 DEF Single
    <2>7. QED
      BY <2>5, <2>6
  <1>8. ASSUME NEW R \in SUBSET {e \in DeltaIds : batch[e] > 0}, Settled(R), eventCh' = eventCh
        PROVE  Single(d)'
    <2>1. /\ batch'[d] = IF d \in R THEN 0 ELSE batch[d]
          /\ \/ applied'[d] = IF d \in R THEN applied[d] + batch[d] ELSE applied[d]
             \/ applied'[d] = applied[d]
      BY <1>8 DEF Settled
    <2>2. /\ applied'[d] + batch'[d] <= applied[d] + batch[d] /\ applied'[d] + batch'[d] \in Nat
          /\ applied[d] = 0 /\ batch[d] = 0 => applied'[d] = 0 /\ batch'[d] = 0
      BY <1>4, <2>1
    <2>3. applied[d] + batch[d] <= 1
      BY <1>4 DEF Single
    <2>4. applied'[d] + batch'[d] <= 1
      BY <1>4, <2>2, <2>3
    <2>5. applied[d] + batch[d] = 0 => applied'[d] + batch'[d] = 0
      BY <1>4, <2>2
    <2>6. QED
      BY <1>1, <1>4, <1>5, <1>8, <2>2, <2>4, <2>5 DEF Single
  <1>9. QED
    BY <1>6, <1>7, <1>8, LoopEffect

\* Every step preserves OnceInv.
LEMMA OnceStep == BaseInv /\ OnceInv /\ [Next]_vars => OnceInv'
  <1> SUFFICES ASSUME BaseInv, OnceInv, [Next]_vars PROVE OnceInv'
    OBVIOUS
  <1>1. CASE UNCHANGED vars \/ (BusStep /\ UNCHANGED countVars)
    <2>1. UNCHANGED <<seen, next, eventCh, batch, applied, unguarded>>
      BY <1>1 DEF vars, countVars
    <2>2. \A s \in Subs, e \in Events : Sending(s, e)' => Sending(s, e)
      BY <1>1, BusTypes DEF Sending, vars, busVars
    <2>3. QED
      BY <2>1, <2>2, SingleKept, DeltaPairs DEF OnceInv
  <1>2. ASSUME NEW s \in Subs, HandlerStep(s)
        PROVE  OnceInv'
    BY <1>2, OnceDedup, OnceSend DEF HandlerStep
  <1>3. CASE LoopStep
    BY <1>3, OnceLoop
  <1>4. CASE Crash
    <2>1. /\ eventCh' = <<>> /\ batch' = [d \in DeltaIds |-> 0] /\ UNCHANGED <<seen, applied, unguarded>>
          /\ sub' = [s \in Subs |-> "start"]
      BY <1>4 DEF Crash, BusCrash, NoDeltas
    <2>2. SUFFICES ASSUME NEW d \in DeltaIds, d[1] \notin unguarded
                   PROVE  Single(d)'
      BY <2>1 DEF OnceInv
    <2>3. Single(d) /\ batch[d] \in Nat /\ applied[d] \in Nat
      BY <2>2 DEF OnceInv, BaseInv, CountData
    <2>4. /\ \A s \in Subs : ~Sending(s, d[1])'
          /\ ~Pending(d)'
      BY <2>1 DEF Sending, Pending
    <2>5. DOMAIN eventCh' = {} /\ Range(eventCh') = {}
      BY <2>1 DEF Range
    <2>6. batch'[d] = 0 /\ applied'[d] = applied[d] /\ applied[d] <= 1
          /\ applied'[d] + batch'[d] <= 1
      BY <2>1, <2>3 DEF Single
    <2>7. QED
      BY <2>1, <2>3, <2>4, <2>5, <2>6 DEF Single, Once
  <1>5. QED
    BY <1>1, <1>2, <1>3, <1>4 DEF Next

\* Nothing has been taken yet.
LEMMA OnceInit == Init => OnceInv
  <1>1. SUFFICES ASSUME Init, NEW d \in DeltaIds PROVE Single(d)
    BY DEF OnceInv
  <1>2. /\ applied[d] = 0 /\ batch[d] = 0 /\ eventCh = <<>>
        /\ \A s \in Subs : ~Sending(s, d[1])
    BY <1>1 DEF Init, BusInit, NoDeltas, Sending
  <1>3. DOMAIN eventCh = {} /\ Range(eventCh) = {}
    BY <1>2 DEF Range
  <1>4. QED
    BY <1>2, <1>3 DEF Single, Once, Pending

\* However often an event is redelivered, to whichever subscription, and whatever
\* crashes in between, each of its deltas goes into at most one UPDATE unless
\* SETNX failed for it (count_consumer.go:101-106).
THEOREM CountedOnce == Spec => []CountedAtMostOnce
  <1>1. BaseInv /\ OnceInv => CountedAtMostOnce
    <2>1. SUFFICES ASSUME BaseInv, OnceInv, NEW d \in DeltaIds, d[1] \notin unguarded
                   PROVE  applied[d] <= 1
      BY DEF CountedAtMostOnce
    <2>2. applied[d] \in Nat /\ batch[d] \in Nat /\ applied[d] + batch[d] <= 1
      BY <2>1 DEF BaseInv, CountData, OnceInv, Single
    <2>3. QED
      BY <2>2
  <1>2. QED
    BY <1>1, OnceInit, OnceStep, BaseInvariance, PTL DEF Spec

-----------------------------------------------------------------------------
(***************************************************************************)
(* A mark means handled.  The mark is set before the deltas are sent; from *)
(* then on they are somewhere, or lost in a way the code knows of.         *)
(***************************************************************************)

\* What is in memory.
LEMMA InMemoryPlaces ==
    /\ \A d \in DeltaIds : d \in InMemory <=> d \in Range(eventCh) \/ batch[d] > 0 \/ Pending(d)
    /\ \A d \in DeltaIds :
          d \in InMemory' <=> d \in Range(eventCh') \/ batch'[d] > 0 \/ Pending(d)'
  BY DEF InMemory, Pending, Sending

\* Every step preserves SeenIsHandled.
LEMMA HandledStep == BaseInv /\ SeenIsHandled /\ [Next]_vars => SeenIsHandled'
  <1> SUFFICES ASSUME BaseInv, SeenIsHandled, [Next]_vars,
                      NEW d \in DeltaIds, d[1] \in seen'
               PROVE  d \in InMemory' \/ applied'[d] > 0 \/ d \in lost'
    BY DEF SeenIsHandled
  <1>0. /\ eventCh \in Seq(DeltaIds) /\ batch \in [DeltaIds -> Nat] /\ applied \in [DeltaIds -> Nat]
        /\ batch[d] \in Nat /\ applied[d] \in Nat /\ next \in [Subs -> 1..2]
        /\ sub \in [Subs -> SubStates]
    BY DEF BaseInv, BusTypeOK, CountData
  <1>1. d[1] \in Events /\ d[2] \in 1..2 /\ d[2] <= Len(DeltasOf[d[1]])
    BY DeltaPairs
  <1>2. d[1] \in seen => \/ d \in Range(eventCh) \/ batch[d] > 0 \/ Pending(d)
                         \/ applied[d] > 0 \/ d \in lost
    BY InMemoryPlaces DEF SeenIsHandled
  <1>3. SUFFICES \/ d \in Range(eventCh') \/ batch'[d] > 0 \/ Pending(d)'
                 \/ applied'[d] > 0 \/ d \in lost'
    BY InMemoryPlaces
  <1>4. CASE UNCHANGED vars \/ (BusStep /\ UNCHANGED countVars)
    <2>1. UNCHANGED <<seen, next, eventCh, batch, applied, lost>>
      BY <1>4 DEF vars, countVars
    <2>2. \A s \in Subs : Sending(s, d[1]) => Sending(s, d[1])'
      BY <1>4, BusTypes DEF Sending, vars, busVars
    <2>3. Pending(d) => Pending(d)'
      BY <2>1, <2>2 DEF Pending
    <2>4. QED
      BY <1>2, <2>1, <2>3
  <1>5. ASSUME NEW s \in Subs, HandlerStep(s), sub[s] = "dedup"
        PROVE  \/ d \in Range(eventCh') \/ batch'[d] > 0 \/ Pending(d)'
               \/ applied'[d] > 0 \/ d \in lost'
    <2>1. /\ UNCHANGED <<hand, next, eventCh, lost, batch, applied>> /\ next[s] = 1
          /\ \E x \in {"send", "ack"} : sub' = [sub EXCEPT ![s] = x]
      BY <1>5, HandlerEffect
    <2>2. \A t \in Subs : t # s => sub'[t] = sub[t]
      BY <1>0, <2>1
    <2>3. Pending(d) => Pending(d)'
      BY <1>5, <2>1, <2>2 DEF Pending, Sending
    <2>4. CASE d[1] \in seen
      BY <1>2, <2>1, <2>3, <2>4
    <2>5. CASE d[1] \notin seen
      <3>1. d[1] = hand[s] /\ hand[s] \notin seen
        BY <1>5, <2>5 DEF HandlerStep, DedupSeen, DedupFails, Send, SendCtxDone, SeenOrMark
      <3>2. sub'[s] = "send"
        BY <1>0, <1>5, <3>1 DEF HandlerStep, DedupSeen, DedupFails, Send, SendCtxDone, SubGoto
      <3>3. Sending(s, d[1])' /\ next'[s] <= d[2]
        BY <1>1, <2>1, <3>1, <3>2 DEF Sending
      <3>4. QED
        BY <3>3 DEF Pending
    <2>6. QED
      BY <2>4, <2>5
  <1>6. ASSUME NEW s \in Subs, HandlerStep(s), sub[s] = "send"
        PROVE  \/ d \in Range(eventCh') \/ batch'[d] > 0 \/ Pending(d)'
               \/ applied'[d] > 0 \/ d \in lost'
    <2> DEFINE x == <<hand[s], next[s]>>
    <2>1. /\ UNCHANGED <<hand, seen, batch, applied>> /\ x \in DeltaIds
          /\ \/ next[s] = Len(DeltasOf[hand[s]]) /\ sub'[s] = "ack" /\ next' = [next EXCEPT ![s] = 1]
             \/ next[s] = 1 /\ next' = [next EXCEPT ![s] = 2] /\ sub'[s] = "send"
          /\ \/ eventCh' = Append(eventCh, x) /\ lost' = lost
             \/ lost' = lost \cup {x} /\ eventCh' = eventCh
          /\ \E y \in {"send", "ack"} : sub' = [sub EXCEPT ![s] = y]
      BY <1>6, HandlerEffect
    <2>2. \A t \in Subs : t # s => sub'[t] = sub[t] /\ next'[t] = next[t]
      BY <1>0, <2>1
    <2>3. Range(eventCh) \subseteq Range(eventCh') /\ lost \subseteq lost'
          /\ (x \in Range(eventCh') \/ x \in lost')
      <3> HIDE DEF x
      <3>1. Range(Append(eventCh, x)) = Range(eventCh) \cup {x}
        BY <1>0, <2>1, RangeOfAppend
      <3>2. QED
        BY <2>1, <3>1
    <2>4. ASSUME Pending(d)
          PROVE  d = x \/ Pending(d)'
      <3>1. PICK t \in Subs : Sending(t, d[1]) /\ next[t] <= d[2]
        BY <2>4 DEF Pending
      <3>2. CASE t # s
        BY <2>1, <2>2, <3>1, <3>2 DEF Pending, Sending
      <3>3. CASE t = s /\ d[2] = next[s]
        BY <3>1, <3>3, DeltaPairs DEF Sending
      <3>4. CASE t = s /\ d[2] # next[s]
        <4>1. hand[s] = d[1] /\ next[s] <= d[2] /\ next[s] \in 1..2
          BY <1>0, <3>1, <3>4 DEF Sending
        <4>2. next[s] = 1 /\ d[2] = 2
          BY <1>1, <3>4, <4>1
        <4>3. next[s] # Len(DeltasOf[hand[s]])
          <5>1. \A n \in 1..2 : 2 <= n => n # 1
            OBVIOUS
          <5>2. QED
            BY <1>1, <4>1, <4>2, <5>1, CountConstants
        <4>4. next'[s] = 2 /\ sub'[s] = "send"
          BY <1>0, <2>1, <4>3
        <4>5. QED
          BY <2>1, <4>1, <4>2, <4>4 DEF Pending, Sending
      <3>5. QED
        BY <3>2, <3>3, <3>4
    <2>5. QED
      BY <1>2, <2>1, <2>3, <2>4
  <1>7. CASE LoopStep
    <2>1. UNCHANGED <<sub, hand, next, seen>>
      BY <1>7, LoopEffect
    <2>2. Pending(d) => Pending(d)'
      BY <2>1 DEF Pending, Sending
    <2>3. CASE UNCHANGED <<eventCh, batch, applied, lost>>
      BY <1>2, <2>1, <2>2, <2>3
    <2>4. CASE TakeDelta /\ UNCHANGED <<applied, lost>>
      <3> DEFINE x == Head(eventCh)
      <3>1. /\ eventCh # <<>> /\ eventCh' = Tail(eventCh) /\ UNCHANGED <<applied, lost>>
            /\ batch' = [batch EXCEPT ![x] = @ + 1]
        BY <2>4 DEF TakeDelta
      <3>2. x \in DeltaIds /\ Range(eventCh) = Range(eventCh') \cup {x}
        BY <1>0, <3>1, RangeOfTail
      <3>3. batch'[d] = IF d = x THEN batch[d] + 1 ELSE batch[d]
        BY <1>0, <3>1, <3>2
      <3> HIDE DEF x
      <3>4. (d = x => batch'[d] > 0) /\ (batch[d] > 0 => batch'[d] > 0)
        BY <1>0, <3>3
      <3>5. QED
        BY <1>2, <2>1, <2>2, <3>1, <3>2, <3>4
    <2>5. ASSUME NEW R \in SUBSET {e \in DeltaIds : batch[e] > 0}, Settled(R), eventCh' = eventCh
          PROVE  \/ d \in Range(eventCh') \/ batch'[d] > 0 \/ Pending(d)'
                 \/ applied'[d] > 0 \/ d \in lost'
      <3>1. CASE d \in R
        <4>1. batch[d] > 0 /\ (applied'[d] = applied[d] + batch[d] \/ d \in lost')
          BY <2>5, <3>1 DEF Settled
        <4>2. QED
          BY <1>0, <4>1
      <3>2. CASE d \notin R
        <4>1. batch'[d] = batch[d] /\ applied'[d] = applied[d] /\ lost \subseteq lost'
          BY <2>5, <3>2 DEF Settled
        <4>2. QED
          BY <1>2, <2>1, <2>2, <2>5, <4>1
      <3>3. QED
        BY <3>1, <3>2
    <2>6. QED
      BY <1>7, <2>3, <2>4, <2>5, LoopEffect
  <1>8. CASE Crash
    <2>1. UNCHANGED <<seen, applied>> /\ lost' = lost \cup InMemory
      BY <1>8 DEF Crash
    <2>2. QED
      BY <1>2, <2>1, InMemoryPlaces
  <1>9. QED
    BY <1>4, <1>5, <1>6, <1>7, <1>8, HandlerEffect DEF Next

\* An event that is dropped as already seen has indeed been handled
\* (event_dedup_cache.go:52): each of its deltas is in memory, in the counters or
\* was lost in one of the three ways named.
THEOREM MarkedIsHandled == Spec => []SeenIsHandled
  <1>1. Init => SeenIsHandled
    BY DEF Init, SeenIsHandled
  <1>2. QED
    BY <1>1, HandledStep, BaseInvariance, PTL DEF Spec

-----------------------------------------------------------------------------
(***************************************************************************)
(* The values of the counters.  A counter is between what its deltas add   *)
(* up to and what the positive ones alone add up to: the clamp at 0 keeps  *)
(* it from following the sum down, never lets it get above it by more than *)
(* was subtracted.                                                         *)
(***************************************************************************)

\* The deltas on column c of user u, whoever holds them.
ColumnDeltas(u, c) == {d \in DeltaIds : Delta(d).user = u /\ Delta(d).column = c}

\* a[d] times each delta d, with its sign, and without the negative ones.
Signed(a) == [d \in DeltaIds |-> a[d] * Delta(d).by]
Positive(a) == [d \in DeltaIds |-> IF Delta(d).by = 1 THEN a[d] ELSE 0]

\* What a[d] of each delta d on the column amount to.
Low(a, u, c) == SumFunctionOnSet(Signed(a), ColumnDeltas(u, c))
High(a, u, c) == SumFunctionOnSet(Positive(a), ColumnDeltas(u, c))

CounterInv ==
    /\ counter \in [Users -> [Columns -> Nat]]
    /\ \A u \in Users, c \in Columns :
          Low(applied, u, c) <= counter[u][c] /\ counter[u][c] <= High(applied, u, c)

\* There are finitely many deltas, each of a known user, column and sign.
LEMMA DeltasFinite ==
    /\ IsFiniteSet(DeltaIds)
    /\ \A u, c : IsFiniteSet(ColumnDeltas(u, c)) /\ ColumnDeltas(u, c) \in SUBSET DeltaIds
    /\ \A d \in DeltaIds : Delta(d).by \in {-1, 1} /\ Delta(d).user \in Users /\ Delta(d).column \in Columns
  <1>1. IsFiniteSet(Events \X (1..2))
    <2>1. IsFiniteSet(Events) /\ IsFiniteSet(1..2)
      <3>1. 1 \in Int /\ 2 \in Int
        OBVIOUS
      <3>2. IsFiniteSet(1..2)
        BY <3>1, FS_Interval
      <3>3. QED
        BY <3>2, RabbitMQAssumption
    <2>2. QED
      BY <2>1, FS_Product
  <1>2. IsFiniteSet(DeltaIds)
    <2>1. DeltaIds \subseteq Events \X (1..2)
      BY DEF DeltaIds
    <2>2. QED
      BY <1>1, <2>1, FS_Subset
  <1>3. ASSUME NEW u, NEW c
        PROVE  IsFiniteSet(ColumnDeltas(u, c)) /\ ColumnDeltas(u, c) \in SUBSET DeltaIds
    <2>1. ColumnDeltas(u, c) \subseteq DeltaIds
      BY DEF ColumnDeltas
    <2>2. QED
      BY <1>2, <2>1, FS_Subset
  <1>4. ASSUME NEW d \in DeltaIds
        PROVE  Delta(d).by \in {-1, 1} /\ Delta(d).user \in Users /\ Delta(d).column \in Columns
    <2>1. d[1] \in Events /\ d[2] \in 1..2 /\ d[2] <= Len(DeltasOf[d[1]])
      BY DeltaPairs
    <2>2. PICK S, q, i : S = [user : Users, column : Columns, by : {-1, 1}]
                         /\ q = DeltasOf[d[1]] /\ i = d[2]
      OBVIOUS
    <2>3. Delta(d) \in S
      <3>1. q \in Seq(S) /\ i \in 1..Len(q)
        <4>1. DeltasOf \in [Events -> Seq(S)]
          BY <2>2, CountAssumption
        <4>2. q \in Seq(S) /\ i \in 1..2 /\ i <= Len(q)
          BY <2>1, <2>2, <4>1
        <4>3. Len(q) \in Nat /\ 1 <= i /\ i \in Int
          BY <4>2
        <4>4. QED
          BY <4>2, <4>3
      <3>2. q[i] \in S
        BY <3>1
      <3>3. QED
        BY <2>2, <3>2 DEF Delta
    <2>4. QED
      BY <2>2, <2>3
  <1>5. QED
    BY <1>2, <1>3, <1>4

\* The terms are integers; what is positive is not below what is signed.
LEMMA Terms ==
    ASSUME NEW a \in [DeltaIds -> Nat], NEW d \in DeltaIds
    PROVE  /\ Signed(a)[d] \in Int /\ Positive(a)[d] \in Nat
           /\ Delta(d).by = 1 => Signed(a)[d] = a[d] /\ Positive(a)[d] = a[d]
           /\ Delta(d).by = -1 => Signed(a)[d] = -a[d] /\ Positive(a)[d] = 0
           /\ Positive(a)[d] - Signed(a)[d] \in Nat
           /\ a[d] = 0 => Signed(a)[d] = 0 /\ Positive(a)[d] = 0
  <1>1. Delta(d).by \in {-1, 1} /\ a[d] \in Nat
    BY DeltasFinite
  <1>2. Signed(a)[d] = a[d] * Delta(d).by
        /\ Positive(a)[d] = IF Delta(d).by = 1 THEN a[d] ELSE 0
    BY DEF Signed, Positive
  <1>3. CASE Delta(d).by = 1
    <2>1. Signed(a)[d] = a[d] * 1 /\ Positive(a)[d] = a[d]
      BY <1>2, <1>3
    <2>2. QED
      BY <1>1, <1>3, <2>1
  <1>4. CASE Delta(d).by = -1
    <2>1. Signed(a)[d] = a[d] * (-1) /\ Positive(a)[d] = 0
      BY <1>2, <1>4
    <2>2. QED
      BY <1>1, <1>4, <2>1
  <1>5. QED
    BY <1>1, <1>3, <1>4

\* The bounds are integers in order, and follow additions.
LEMMA Bounds ==
    ASSUME NEW a \in [DeltaIds -> Nat], NEW u, NEW c
    PROVE  /\ Low(a, u, c) \in Int /\ High(a, u, c) \in Nat /\ Low(a, u, c) <= High(a, u, c)
           /\ (\A d \in ColumnDeltas(u, c) : a[d] = 0) => Low(a, u, c) = 0 /\ High(a, u, c) = 0
  <1>1. PICK D, f, g, h : /\ D = ColumnDeltas(u, c) /\ f = Signed(a) /\ g = Positive(a)
                          /\ h = [d \in DeltaIds |-> g[d] - f[d]]
    OBVIOUS
  <1>2. IsFiniteSet(D) /\ D \in SUBSET DeltaIds
    BY <1>1, DeltasFinite
  <1>3. \A d \in D : f[d] \in Int /\ g[d] \in Nat /\ g[d] - f[d] \in Nat
    BY <1>1, <1>2, Terms
  <1>4. \A d \in D : f[d] \in Int /\ h[d] \in Int /\ h[d] \in Nat /\ g[d] = f[d] + h[d]
    BY <1>1, <1>2, <1>3
  <1>5. SumFunctionOnSet(g, D) = SumFunctionOnSet(f, D) + SumFunctionOnSet(h, D)
    BY <1>2, <1>4, SumAdds
  <1>6. SumFunctionOnSet(f, D) \in Int /\ SumFunctionOnSet(g, D) \in Nat
        /\ SumFunctionOnSet(h, D) \in Nat
    BY <1>2, <1>3, <1>4, SumRemove, SumNat
  <1>7. ASSUME \A d \in D : a[d] = 0
        PROVE  SumFunctionOnSet(f, D) = 0 /\ SumFunctionOnSet(g, D) = 0
    <2>1. \A d \in D \ {} : f[d] = 0 /\ g[d] = 0
      BY <1>1, <1>2, <1>7, Terms
    <2>2. SumFunctionOnSet(f, D) = SumFunctionOnSet(f, {}) /\ SumFunctionOnSet(g, D) = SumFunctionOnSet(g, {})
      BY <1>2, <2>1, SumSupport
    <2>3. QED
      BY <1>2, <2>2, SumEquation
  <1>8. Low(a, u, c) = SumFunctionOnSet(f, D) /\ High(a, u, c) = SumFunctionOnSet(g, D)
    BY <1>1 DEF Low, High
  <1>9. QED
    BY <1>1, <1>5, <1>6, <1>7, <1>8

\* The bounds follow additions.
LEMMA BoundsAdd ==
    ASSUME NEW a \in [DeltaIds -> Nat], NEW b \in [DeltaIds -> Nat], NEW t \in [DeltaIds -> Nat],
           \A d \in DeltaIds : t[d] = a[d] + b[d], NEW u, NEW c
    PROVE  /\ Low(t, u, c) = Low(a, u, c) + Low(b, u, c)
           /\ High(t, u, c) = High(a, u, c) + High(b, u, c)
  <1>1. PICK D : D = ColumnDeltas(u, c)
    OBVIOUS
  <1>2. IsFiniteSet(D) /\ D \in SUBSET DeltaIds
    BY <1>1, DeltasFinite
  <1>3. ASSUME NEW d \in D
        PROVE  /\ Signed(a)[d] \in Int /\ Signed(b)[d] \in Int /\ Signed(t)[d] = Signed(a)[d] + Signed(b)[d]
               /\ Positive(a)[d] \in Int /\ Positive(b)[d] \in Int
               /\ Positive(t)[d] = Positive(a)[d] + Positive(b)[d]
    <2>1. d \in DeltaIds /\ Delta(d).by \in {-1, 1} /\ a[d] \in Nat /\ b[d] \in Nat /\ t[d] = a[d] + b[d]
      BY <1>2, DeltasFinite
    <2>2. CASE Delta(d).by = 1
      BY <2>1, <2>2, Terms
    <2>3. CASE Delta(d).by = -1
      <3>1. Signed(a)[d] = -a[d] /\ Signed(b)[d] = -b[d] /\ Signed(t)[d] = -t[d]
            /\ Positive(a)[d] = 0 /\ Positive(b)[d] = 0 /\ Positive(t)[d] = 0
        BY <2>1, <2>3, Terms
      <3>2. QED
        BY <2>1, <3>1
    <2>4. QED
      BY <2>1, <2>2, <2>3
  <1>4. /\ SumFunctionOnSet(Signed(t), D) = SumFunctionOnSet(Signed(a), D) + SumFunctionOnSet(Signed(b), D)
        /\ SumFunctionOnSet(Positive(t), D) = SumFunctionOnSet(Positive(a), D) + SumFunctionOnSet(Positive(b), D)
    BY <1>2, <1>3, SumAdds
  <1>5. QED
    BY <1>1, <1>4 DEF Low, High

\* What of the batch is on the row of u.
RowBatch(u) == [d \in DeltaIds |-> IF d \in OnRow(u) THEN batch[d] ELSE 0]

\* The aggregated delta of a column is what the batch holds for it.
LEMMA SumOfColumn ==
    ASSUME BaseInv, NEW u \in Users, NEW c \in Columns
    PROVE  /\ RowBatch(u) \in [DeltaIds -> Nat]
           /\ Sum(u, c) = Low(RowBatch(u), u, c)
           /\ \A v : v # u => \A d \in ColumnDeltas(v, c) : RowBatch(u)[d] = 0
  <1>1. batch \in [DeltaIds -> Nat]
    BY DEF BaseInv, CountData
  <1>2. PICK D, T, r, f, g : /\ D = ColumnDeltas(u, c) /\ T = OnColumn(u, c) /\ r = RowBatch(u)
                             /\ f = [d \in OnColumn(u, c) |-> batch[d] * Delta(d).by]
                             /\ g = Signed(RowBatch(u))
    OBVIOUS
  <1>3. r \in [DeltaIds -> Nat]
    BY <1>1, <1>2 DEF RowBatch
  <1>4. /\ T \in SUBSET D /\ IsFiniteSet(D) /\ IsFiniteSet(T) /\ D \in SUBSET DeltaIds
    <2>1. T \in SUBSET D
      BY <1>2 DEF OnColumn, OnRow, ColumnDeltas
    <2>2. IsFiniteSet(D) /\ D \in SUBSET DeltaIds
      BY <1>2, DeltasFinite
    <2>3. QED
      BY <2>1, <2>2, FS_Subset
  <1>5. \A d \in D \ T : r[d] = 0
    <2>1. ASSUME NEW d \in D \ T PROVE d \notin OnRow(u)
      BY <1>2, <2>1 DEF OnColumn, ColumnDeltas
    <2>2. QED
      BY <1>2, <1>4, <2>1 DEF RowBatch
  <1>6. \A d \in D : g[d] \in Int /\ (r[d] = 0 => g[d] = 0)
    BY <1>2, <1>3, <1>4, Terms
  <1>7. \A d \in T : g[d] \in Int /\ f[d] = g[d]
    <2>1. SUFFICES ASSUME NEW d \in T PROVE f[d] = g[d]
      BY <1>4, <1>6
    <2>2. d \in OnRow(u) /\ d \in DeltaIds /\ d \in OnColumn(u, c)
      BY <1>2, <2>1 DEF OnColumn, OnRow
    <2>3. f[d] = batch[d] * Delta(d).by
      BY <1>2, <2>2
    <2>4. r[d] = batch[d]
      BY <1>2, <2>2 DEF RowBatch
    <2>5. g[d] = r[d] * Delta(d).by
      BY <1>2, <2>2 DEF Signed
    <2>6. QED
      BY <2>3, <2>4, <2>5
  <1>8. SumFunctionOnSet(g, D) = SumFunctionOnSet(g, T)
    <2>1. (\A d \in T : g[d] \in Int) /\ \A d \in D \ T : g[d] = 0
      BY <1>4, <1>5, <1>6
    <2>2. QED
      BY <1>4, <2>1, SumSupport
  <1>9. SumFunctionOnSet(f, T) = SumFunctionOnSet(g, T)
    BY <1>4, <1>7, SumSame
  <1>10. Sum(u, c) = SumFunctionOnSet(f, T)
    <2>1. DOMAIN f = T
      BY <1>2
    <2>2. Sum(u, c) = SumFunction(f)
      BY <1>2 DEF Sum
    <2>3. QED
      BY <2>1, <2>2 DEF SumFunction
  <1>11. ASSUME NEW v, v # u, NEW d \in ColumnDeltas(v, c)
         PROVE  RowBatch(u)[d] = 0
    BY <1>11 DEF ColumnDeltas, RowBatch, OnRow
  <1>12. Low(RowBatch(u), u, c) = SumFunctionOnSet(g, D)
    BY <1>2 DEF Low
  <1>13. QED
    BY <1>2, <1>3, <1>8, <1>9, <1>10, <1>11, <1>12

\* UpdateUser is the only step that writes the counters.
LEMMA CounterUpdate ==
    ASSUME BaseInv, CounterInv, NEW u \in Users, UpdateUser(u)
    PROVE  CounterInv'
  <1>1. PICK a, b, t, k, n : /\ a = applied /\ b = RowBatch(u) /\ t = applied' /\ k = counter /\ n = counter'
    OBVIOUS
  <1>2. a \in [DeltaIds -> Nat] /\ b \in [DeltaIds -> Nat] /\ batch \in [DeltaIds -> Nat]
    BY <1>1 DEF BaseInv, CountData, RowBatch
  <1>3. t \in [DeltaIds -> Nat] /\ \A d \in DeltaIds : t[d] = a[d] + b[d]
    BY <1>1, <1>2 DEF UpdateUser, RowBatch
  <1>4. /\ k \in [Users -> [Columns -> Nat]]
        /\ \A v \in Users, c \in Columns : Low(a, v, c) <= k[v][c] /\ k[v][c] <= High(a, v, c)
    BY <1>1 DEF CounterInv
  <1>5. ASSUME NEW v \in Users, NEW c \in Columns
        PROVE  /\ Low(t, v, c) = Low(a, v, c) + Low(b, v, c)
               /\ High(t, v, c) = High(a, v, c) + High(b, v, c)
               /\ Low(a, v, c) \in Int /\ High(a, v, c) \in Nat
               /\ Low(b, v, c) \in Int /\ High(b, v, c) \in Nat /\ Low(b, v, c) <= High(b, v, c)
    <2>1. /\ Low(t, v, c) = Low(a, v, c) + Low(b, v, c)
          /\ High(t, v, c) = High(a, v, c) + High(b, v, c)
      BY <1>2, <1>3, BoundsAdd
    <2>2. /\ Low(a, v, c) \in Int /\ High(a, v, c) \in Nat
          /\ Low(b, v, c) \in Int /\ High(b, v, c) \in Nat /\ Low(b, v, c) <= High(b, v, c)
      BY <1>2, Bounds
    <2>3. QED
      BY <2>1, <2>2
  <1>6. n = [k EXCEPT ![u] = [c \in Columns |-> IF k[u][c] + Low(b, u, c) < 0 THEN 0 ELSE k[u][c] + Low(b, u, c)]]
    <2>1. counter' = Updated(u)
      BY DEF UpdateUser
    <2>2. \A c \in Columns : Sum(u, c) = Low(b, u, c)
      BY <1>1, SumOfColumn
    <2>3. QED
      BY <1>1, <2>1, <2>2 DEF Updated
  <1>7. ASSUME NEW v \in Users, NEW c \in Columns
        PROVE  n[v][c] \in Nat /\ Low(t, v, c) <= n[v][c] /\ n[v][c] <= High(t, v, c)
    <2>0. k[v][c] \in Nat /\ Low(a, v, c) <= k[v][c] /\ k[v][c] <= High(a, v, c)
      BY <1>4
    <2>1. CASE v = u
      <3>1. PICK m : m = Low(b, u, c)
        OBVIOUS
      <3>2. n[v][c] = IF k[u][c] + m < 0 THEN 0 ELSE k[u][c] + m
        BY <1>4, <1>6, <2>1, <3>1
      <3>3. QED
        BY <1>5, <2>0, <2>1, <3>1, <3>2
    <2>2. CASE v # u
      <3>1. n[v][c] = k[v][c]
        BY <1>4, <1>6, <2>2
      <3>2. \A d \in ColumnDeltas(v, c) : b[d] = 0
        BY <1>1, <2>2, SumOfColumn
      <3>3. Low(b, v, c) = 0 /\ High(b, v, c) = 0
        BY <1>2, <3>2, Bounds
      <3>4. QED
        BY <1>5, <2>0, <3>1, <3>3
    <2>3. QED
      BY <2>1, <2>2
  <1>8. n \in [Users -> [Columns -> Nat]]
    <2>1. n \in [Users -> [Columns -> Int]]
      <3>1. [c \in Columns |-> IF k[u][c] + Low(b, u, c) < 0 THEN 0 ELSE k[u][c] + Low(b, u, c)] \in [Columns -> Int]
        BY <1>4, <1>5
      <3>2. QED
        BY <1>4, <1>6, <3>1
    <2>2. QED
      BY <1>7, <2>1
  <1>9. QED
    BY <1>1, <1>7, <1>8 DEF CounterInv

\* Every other step leaves them and the history alone.
LEMMA CounterStep == BaseInv /\ CounterInv /\ [Next]_vars => CounterInv'
  <1>1. SUFFICES ASSUME BaseInv, CounterInv, [Next]_vars PROVE CounterInv'
    OBVIOUS
  <1>2. ASSUME UNCHANGED <<counter, applied>> PROVE CounterInv'
    BY <1>1, <1>2 DEF CounterInv
  <1>3. CASE UNCHANGED vars \/ (BusStep /\ UNCHANGED countVars)
    BY <1>2, <1>3 DEF vars, countVars
  <1>4. ASSUME NEW s \in Subs, HandlerStep(s) PROVE CounterInv'
    BY <1>2, <1>4 DEF HandlerStep, DedupSeen, DedupFails, Send, SendCtxDone
  <1>5. CASE LoopStep
    <2>1. CASE LoopRecv \/ LoopTick \/ LoopCtxDone \/ LoopDrain \/ Flushed
      BY <1>2, <2>1 DEF LoopRecv, LoopTick, LoopCtxDone, LoopDrain, Flushed
    <2>2. ASSUME NEW u \in Users, UpdateUser(u) PROVE CounterInv'
      BY <1>1, <2>2, CounterUpdate
    <2>3. ASSUME NEW u \in Users, UpdateUserFails(u) PROVE CounterInv'
      BY <1>2, <2>3 DEF UpdateUserFails
    <2>4. QED
      BY <1>5, <2>1, <2>2, <2>3 DEF LoopStep
  <1>6. CASE Crash
    BY <1>2, <1>6 DEF Crash
  <1>7. QED
    BY <1>1, <1>3, <1>4, <1>5, <1>6 DEF Next

\* All counters begin at 0, and so do their bounds.
LEMMA CounterInit == Init => CounterInv
  <1>1. SUFFICES ASSUME Init PROVE CounterInv
    OBVIOUS
  <1>2. PICK a : a = applied
    OBVIOUS
  <1>3. a \in [DeltaIds -> Nat] /\ \A d \in DeltaIds : a[d] = 0
    BY <1>1, <1>2 DEF Init
  <1>4. \A u \in Users, c \in Columns : Low(a, u, c) = 0 /\ High(a, u, c) = 0
    BY <1>3, Bounds, DeltasFinite
  <1>5. /\ counter \in [Users -> [Columns -> Nat]]
        /\ \A u \in Users, c \in Columns : counter[u][c] = 0
    BY <1>1 DEF Init
  <1>6. QED
    BY <1>2, <1>4, <1>5 DEF CounterInv

\* When nothing is on its way and nothing was lost, the deltas applied are those of
\* the events marked, once each.
LEMMA AppliedWhenQuiet ==
    ASSUME BaseInv, OnceInv, SeenIsHandled, Quiet, unguarded = {}, lost = {}
    PROVE  \A d \in DeltaIds : applied[d] = IF d[1] \in seen THEN 1 ELSE 0
  <1>1. SUFFICES ASSUME NEW d \in DeltaIds
                 PROVE  applied[d] = IF d[1] \in seen THEN 1 ELSE 0
    OBVIOUS
  <1>2. applied[d] \in Nat /\ batch[d] = 0 /\ Single(d)
    BY DEF BaseInv, CountData, OnceInv, Quiet, NoDeltas
  <1>3. applied[d] <= 1 /\ (d[1] \notin seen => applied[d] = 0)
    BY <1>2 DEF Single
  <1>4. d \notin InMemory
    <2>1. DOMAIN eventCh = {} /\ Range(eventCh) = {}
      BY DEF Quiet, Range
    <2>2. ~Pending(d)
      BY DEF Quiet, Pending, Sending
    <2>3. QED
      BY <1>2, <2>1, <2>2, InMemoryPlaces
  <1>5. d[1] \in seen => applied[d] > 0
    BY <1>4 DEF SeenIsHandled
  <1>6. QED
    BY <1>2, <1>3, <1>5

\* A sum over the marked deltas of some signs, as a sum over the column.
LEMMA NetIsSum ==
    ASSUME NEW u, NEW c, NEW signs, NEW g,
           \A d \in ColumnDeltas(u, c) : g[d] \in Int,
           \A d \in ColumnDeltas(u, c) : d[1] \in seen /\ Delta(d).by \in signs => g[d] = Delta(d).by,
           \A d \in ColumnDeltas(u, c) : ~(d[1] \in seen /\ Delta(d).by \in signs) => g[d] = 0
    PROVE  Net(u, c, signs) = SumFunctionOnSet(g, ColumnDeltas(u, c))
  <1>1. PICK D, T, f : /\ D = ColumnDeltas(u, c)
                       /\ T = {d \in DeltaIds : d[1] \in seen /\ Delta(d).user = u
                                  /\ Delta(d).column = c /\ Delta(d).by \in signs}
                       /\ f = [d \in T |-> Delta(d).by]
    OBVIOUS
  <1>2. \A d : d \in T <=> d \in D /\ d[1] \in seen /\ Delta(d).by \in signs
    BY <1>1 DEF ColumnDeltas
  <1>3. IsFiniteSet(D) /\ T \in SUBSET D /\ IsFiniteSet(T)
    <2>1. IsFiniteSet(D) /\ T \in SUBSET D
      BY <1>1, <1>2, DeltasFinite
    <2>2. QED
      BY <2>1, FS_Subset
  <1>4. \A d \in T : g[d] \in Int /\ f[d] = g[d]
    BY <1>1, <1>2
  <1>5. \A d \in D \ T : g[d] = 0
    BY <1>1, <1>2
  <1>6. SumFunctionOnSet(g, D) = SumFunctionOnSet(g, T)
    <2>1. \A d \in T : g[d] \in Int
      BY <1>4
    <2>2. QED
      BY <1>3, <1>5, <2>1, SumSupport
  <1>7. SumFunctionOnSet(f, T) = SumFunctionOnSet(g, T)
    BY <1>3, <1>4, SumSame
  <1>8. SumFunction(f) = SumFunctionOnSet(f, T)
    BY <1>1 DEF SumFunction
  <1>9. Net(u, c, signs) = SumFunction(f)
    BY <1>1 DEF Net
  <1>10. QED
    BY <1>1, <1>6, <1>7, <1>8, <1>9

\* Then the bounds are what the marked events add up to.
LEMMA NetWhenQuiet ==
    ASSUME BaseInv, OnceInv, SeenIsHandled, Quiet, unguarded = {}, lost = {}, NEW u, NEW c
    PROVE  Net(u, c, {-1, 1}) = Low(applied, u, c) /\ Net(u, c, {1}) = High(applied, u, c)
  <1>1. PICK a, D : a = applied /\ D = ColumnDeltas(u, c)
    OBVIOUS
  <1>2. a \in [DeltaIds -> Nat] /\ \A d \in DeltaIds : a[d] = IF d[1] \in seen THEN 1 ELSE 0
    BY <1>1, AppliedWhenQuiet DEF BaseInv, CountData
  <1>3. IsFiniteSet(D) /\ D \in SUBSET DeltaIds
    BY <1>1, DeltasFinite
  <1>5. ASSUME NEW d \in D
        PROVE  /\ Signed(a)[d] \in Int /\ Positive(a)[d] \in Int
               /\ d[1] \in seen => Signed(a)[d] = Delta(d).by
               /\ d[1] \notin seen => Signed(a)[d] = 0 /\ Positive(a)[d] = 0
               /\ Delta(d).by # 1 => Positive(a)[d] = 0
               /\ d[1] \in seen /\ Delta(d).by = 1 => Positive(a)[d] = Delta(d).by
               /\ Delta(d).by \in {-1, 1}
    <2>1. d \in DeltaIds /\ Delta(d).by \in {-1, 1} /\ a[d] = IF d[1] \in seen THEN 1 ELSE 0
      BY <1>2, <1>3, DeltasFinite
    <2>2. CASE Delta(d).by = 1
      <3>1. Signed(a)[d] = a[d] /\ Positive(a)[d] = a[d]
        BY <1>2, <2>1, <2>2, Terms
      <3>2. QED
        BY <2>1, <2>2, <3>1
    <2>3. CASE Delta(d).by = -1
      <3>1. Signed(a)[d] = -a[d] /\ Positive(a)[d] = 0
        BY <1>2, <2>1, <2>3, Terms
      <3>2. d[1] \in seen => Signed(a)[d] = -1
        BY <2>1, <3>1
      <3>3. d[1] \notin seen => Signed(a)[d] = 0
        BY <1>2, <2>1, Terms
      <3>4. Signed(a)[d] \in Int /\ Positive(a)[d] \in Int
        BY <3>1, <3>2, <3>3
      <3>5. QED
        BY <2>1, <2>3, <3>1, <3>2, <3>3, <3>4
    <2>4. QED
      BY <2>1, <2>2, <2>3
  <1>6. Net(u, c, {-1, 1}) = SumFunctionOnSet(Signed(a), D)
    <2>1. PICK g, signs : g = Signed(a) /\ signs = {-1, 1}
      OBVIOUS
    <2>2. /\ \A d \in D : g[d] \in Int
          /\ \A d \in D : d[1] \in seen /\ Delta(d).by \in signs => g[d] = Delta(d).by
          /\ \A d \in D : ~(d[1] \in seen /\ Delta(d).by \in signs) => g[d] = 0
      BY <1>5, <2>1
    <2>3. QED
      BY <1>1, <2>1, <2>2, NetIsSum
  <1>7. Net(u, c, {1}) = SumFunctionOnSet(Positive(a), D)
    <2>1. PICK g, signs : g = Positive(a) /\ signs = {1}
      OBVIOUS
    <2>2. /\ \A d \in D : g[d] \in Int
          /\ \A d \in D : d[1] \in seen /\ Delta(d).by \in signs => g[d] = Delta(d).by
          /\ \A d \in D : ~(d[1] \in seen /\ Delta(d).by \in signs) => g[d] = 0
      BY <1>5, <2>1
    <2>3. QED
      BY <1>1, <2>1, <2>2, NetIsSum
  <1>8. QED
    BY <1>1, <1>6, <1>7 DEF Low, High

\* When nothing is on its way and nothing was lost, every counter is at least the net
\* of the events taken and at most what they added (count_consumer.go: flush).
LEMMA SettleFollows ==
    BaseInv /\ OnceInv /\ SeenIsHandled /\ CounterInv => CountersSettle
  <1>1. SUFFICES ASSUME BaseInv, OnceInv, SeenIsHandled, CounterInv, Quiet,
                        unguarded = {}, lost = {}, NEW u \in Users, NEW c \in Columns
                 PROVE  /\ counter[u][c] >= 0 /\ counter[u][c] >= Net(u, c, {-1, 1})
                        /\ counter[u][c] <= Net(u, c, {1})
    BY DEF CountersSettle
  <1>2. Net(u, c, {-1, 1}) = Low(applied, u, c) /\ Net(u, c, {1}) = High(applied, u, c)
    BY <1>1, NetWhenQuiet
  <1>3. /\ counter[u][c] \in Nat
        /\ Low(applied, u, c) <= counter[u][c] /\ counter[u][c] <= High(applied, u, c)
    BY <1>1 DEF CounterInv
  <1>4. Low(applied, u, c) \in Int /\ High(applied, u, c) \in Nat
    <2>1. applied \in [DeltaIds -> Nat]
      BY <1>1 DEF BaseInv, CountData
    <2>2. PICK a : a = applied
      OBVIOUS
    <2>3. QED
      BY <2>1, <2>2, Bounds
  <1>5. QED
    BY <1>2, <1>3, <1>4

\* What the consumer keeps, in one formula.
ConsumerInv == BaseInv /\ OnceInv /\ SeenIsHandled /\ CounterInv

\* It holds at the start.
LEMMA ConsumerInit == Init => ConsumerInv
  <1>1. Init => SeenIsHandled
    BY DEF Init, SeenIsHandled
  <1>2. QED
    BY <1>1, BaseInit, OnceInit, CounterInit DEF ConsumerInv

\* Every step preserves it.
LEMMA ConsumerStep == ConsumerInv /\ [Next]_vars => ConsumerInv'
  BY BaseStep, OnceStep, HandledStep, CounterStep DEF ConsumerInv

\* When nothing is on its way and nothing was lost, every counter is at least the net
\* of the events taken and at most what they added, however they were batched,
\* redelivered or clamped (count_consumer.go: aggregate, flush).
THEOREM CountersSettled == Spec => []CountersSettle
  <1>1. ConsumerInv => CountersSettle
    BY SettleFollows DEF ConsumerInv
  <1>2. QED
    BY <1>1, ConsumerInit, ConsumerStep, PTL DEF Spec

-----------------------------------------------------------------------------
(***************************************************************************)
(* Page views.  Every step is one of the consumer and the bus, or one of   *)
(* GetDetail that leaves them alone; only a request that opened a window   *)
(* publishes, so that what is queued, held or marked has opened one.       *)
(***************************************************************************)

\* An event that has got anywhere is that of a request that opened a window.
Published(e) ==
    view[e] = "publish" \/ queue[e] > 0 \/ e \in seen \/ (\E s \in Subs : hand[s] = e)

OpenedInv ==
    /\ view \in [Events -> {"idle", "mark", "publish", "done"}]
    /\ opened \subseteq Events
    /\ \A e \in Events : Published(e) => e \in opened

ViewInv == ConsumerInv /\ OpenedInv /\ DeltasAreViews

\* A failed SETNX of GetDetail is a fault that leaves the consumer alone.
LEMMA FaultOnly ==
    ASSUME ConsumerInv, Fault, UNCHANGED <<busRest, sub, countVars>>
    PROVE  ConsumerInv'
  <1>1. /\ UNCHANGED <<queue, bound, connected, pub, pubTries, tries, session, draining, sub,
                       hand, cancelled, accepted, got, elsewhere>>
        /\ UNCHANGED <<seen, next, eventCh, batch, loop, counter, applied, lost, unguarded>>
    BY DEF busRest, countVars
  <1>2. faults' \in 0..MaxFaults
    BY CountConstants DEF Fault, ConsumerInv, BaseInv, BusTypeOK
  <1>3. BaseInv'
    BY <1>1, <1>2 DEF ConsumerInv, BaseInv, BusTypeOK, CountData, HandInv
  <1>4. OnceInv'
    <2>1. \A s \in Subs, e \in Events : Sending(s, e)' => Sending(s, e)
      BY <1>1 DEF Sending
    <2>2. QED
      BY <1>1, <2>1, SingleKept, DeltaPairs DEF ConsumerInv, OnceInv
  <1>5. SeenIsHandled'
    BY <1>1 DEF ConsumerInv, SeenIsHandled, InMemory
  <1>6. CounterInv'
    BY <1>1 DEF ConsumerInv, CounterInv
  <1>7. QED
    BY <1>3, <1>4, <1>5, <1>6 DEF ConsumerInv

\* The consumer keeps its invariant whatever GetDetail does.
LEMMA ViewConsumerStep ==
    ASSUME ConsumerInv, [PVNext]_pvVars
    PROVE  ConsumerInv'
  <1>1. ASSUME [Next]_vars PROVE ConsumerInv'
    BY <1>1, ConsumerStep
  <1>2. CASE UNCHANGED pvVars
    BY <1>1, <1>2 DEF pvVars
  <1>3. ASSUME NEW e \in Events, LoadPost(e) \/ MarkPVSeen(e) PROVE ConsumerInv'
    BY <1>1, <1>3 DEF LoadPost, MarkPVSeen
  <1>4. ASSUME NEW e \in Events, MarkPVSeenFails(e) PROVE ConsumerInv'
    BY <1>4, FaultOnly DEF MarkPVSeenFails
  <1>5. ASSUME NEW e \in Events, PublishPV(e) PROVE ConsumerInv'
    BY <1>1, <1>5 DEF PublishPV, Next, BusStep
  <1>6. ASSUME NEW k \in Keys, MarkExpires(k) PROVE ConsumerInv'
    BY <1>1, <1>6 DEF MarkExpires
  <1>7. ASSUME NEW s \in Subs, PVSubscribe(s) \/ PVHandler(s) PROVE ConsumerInv'
    BY <1>1, <1>7 DEF PVSubscribe, PVHandler, Next, BusStep
  <1>8. CASE PVFlushLoop
    BY <1>1, <1>8 DEF PVFlushLoop, Next
  <1>9. CASE (ConnectionLost \/ Cancel) /\ UNCHANGED <<countVars, viewVars>>
    BY <1>1, <1>9 DEF Next, BusStep
  <1>10. CASE PVCrash
    BY <1>1, <1>10 DEF PVCrash, Next
  <1>11. QED
    BY <1>2, <1>3, <1>4, <1>5, <1>6, <1>7, <1>8, <1>9, <1>10 DEF PVNext

\* What a crash or a lost connection puts back was held or queued.
LEMMA RequeuedWasHeld ==
    ASSUME BusTypeOK, Requeue, NEW e \in Events, queue'[e] > 0
    PROVE  queue[e] > 0 \/ \E s \in Subs : hand[s] = e
  <1>1. CASE Unacked(e) = {}
    <2>1. Cardinality(Unacked(e)) = 0 /\ queue[e] \in Nat
      BY <1>1, FS_EmptySet DEF BusTypeOK
    <2>2. queue'[e] = queue[e] + Cardinality(Unacked(e))
      BY DEF Requeue
    <2>3. QED
      BY <2>1, <2>2
  <1>2. CASE Unacked(e) # {}
    BY <1>2 DEF Unacked
  <1>3. QED
    BY <1>1, <1>2

\* Where it holds of an event that nothing has made it more published, it still holds.
LEMMA OpenedKept ==
    ASSUME OpenedInv, view' \in [Events -> {"idle", "mark", "publish", "done"}],
           opened \subseteq opened', opened' \subseteq Events,
           \A e \in Events : Published(e)' => Published(e) \/ e \in opened'
    PROVE  OpenedInv'
  BY DEF OpenedInv

\* Only a request with a window publishes; the broker and the consumer invent nothing.
LEMMA OpenedStep ==
    ASSUME BaseInv, OpenedInv, [PVNext]_pvVars
    PROVE  OpenedInv'
  <1>0. /\ BusTypeOK /\ HandInv /\ queue \in [Events -> Nat] /\ NoEvent \notin Events
        /\ hand \in [Subs -> Events \cup {NoEvent}]
        /\ view \in [Events -> {"idle", "mark", "publish", "done"}] /\ opened \subseteq Events
        /\ \A e \in Events : Published(e) => e \in opened
    BY CountConstants DEF BaseInv, BusTypeOK, OpenedInv
  <1>1. ASSUME UNCHANGED <<view, opened, queue, seen, hand>> PROVE OpenedInv'
    BY <1>0, <1>1 DEF OpenedInv, Published
  <1>2. CASE UNCHANGED pvVars
    BY <1>1, <1>2 DEF pvVars, viewVars, vars, busVars, countVars
  <1>3. ASSUME NEW e \in Events, LoadPost(e) PROVE OpenedInv'
    <2>1. UNCHANGED <<opened, queue, seen, hand>>
          /\ (view' = [view EXCEPT ![e] = "mark"] \/ view' = [view EXCEPT ![e] = "done"])
      BY <1>3 DEF LoadPost, ViewGoto, vars, busVars, countVars
    <2>2. \A f \in Events : Published(f)' => Published(f)
      BY <1>0, <2>1 DEF Published
    <2>3. QED
      BY <1>0, <2>1, <2>2, OpenedKept
  <1>4. ASSUME NEW e \in Events, MarkPVSeen(e) PROVE OpenedInv'
    <2>1. /\ UNCHANGED <<queue, seen, hand>>
          /\ \/ view' = [view EXCEPT ![e] = "done"] /\ opened' = opened
             \/ view' = [view EXCEPT ![e] = "publish"] /\ opened' = opened \cup {e}
      BY <1>4 DEF MarkPVSeen, SetMark, ViewGoto, vars, busVars, countVars
    <2>2. \A f \in Events : Published(f)' => Published(f) \/ f \in opened'
      BY <1>0, <2>1 DEF Published
    <2>3. QED
      BY <1>0, <2>1, <2>2, OpenedKept
  <1>5. ASSUME NEW e \in Events, MarkPVSeenFails(e) PROVE OpenedInv'
    <2>1. /\ UNCHANGED <<queue, seen, hand>> /\ view' = [view EXCEPT ![e] = "done"]
          /\ opened' = opened \/ opened' = opened \cup {e}
      BY <1>5 DEF MarkPVSeenFails, SetMark, ViewGoto, busRest, countVars
    <2>2. \A f \in Events : Published(f)' => Published(f)
      BY <1>0, <2>1 DEF Published
    <2>3. QED
      BY <1>0, <2>1, <2>2, OpenedKept
  <1>6. ASSUME NEW e \in Events, PublishPV(e) PROVE OpenedInv'
    <2>1. /\ view[e] = "publish" /\ PublishStep(e) /\ UNCHANGED <<opened, seen>>
          /\ view' = view \/ view' = [view EXCEPT ![e] = "done"]
      BY <1>6 DEF PublishPV, ViewGoto, countVars
    <2>2. UNCHANGED hand
      BY <1>0, <2>1, PublishTypes
    <2>3. ASSUME NEW f \in Events, queue'[f] > 0
          PROVE  f = e \/ queue[f] > 0 \/ \E s \in Subs : hand[s] = f
      <3>1. CASE PublishUnconfirmed(e)
        BY <1>0, <2>3, <3>1, RequeuedWasHeld DEF PublishUnconfirmed, LoseConnection
      <3>2. CASE ~PublishUnconfirmed(e)
        BY <1>0, <2>1, <2>3, <3>2 DEF PublishStep, PublishSent, PublishError, PublishReopen
      <3>3. QED
        BY <3>1, <3>2
    <2>4. e \in opened
      BY <1>0, <2>1 DEF Published
    <2>5. ASSUME NEW f \in Events, Published(f)' PROVE Published(f) \/ f \in opened'
      BY <1>0, <2>1, <2>2, <2>3, <2>4, <2>5 DEF Published
    <2>6. QED
      BY <1>0, <2>1, <2>5, OpenedKept
  <1>7. ASSUME NEW k \in Keys, MarkExpires(k) PROVE OpenedInv'
    BY <1>1, <1>7 DEF MarkExpires, vars, busVars, countVars
  <1>8. ASSUME NEW s \in Subs, PVSubscribe(s) PROVE OpenedInv'
    <2>1. SubscribeStep(s) /\ UNCHANGED <<view, opened, seen>>
      BY <1>8 DEF PVSubscribe, countVars, viewVars
    <2>2. CASE Comings(s)
      BY <1>0, <1>1, <2>1, <2>2, ComingTypes
    <2>3. ASSUME NEW e \in Events, Deliver(s, e) PROVE OpenedInv'
      <3>1. /\ queue[e] > 0 /\ queue' = [queue EXCEPT ![e] = @ - 1] /\ hand' = [hand EXCEPT ![s] = e]
        BY <2>3 DEF Deliver
      <3>2. ASSUME NEW f \in Events, Published(f)' PROVE Published(f)
        <4>1. CASE f = e
          BY <3>1, <4>1 DEF Published
        <4>2. CASE f # e
          <5>1. queue'[f] = queue[f] /\ \A t \in Subs : hand'[t] = f => hand[t] = f
            BY <1>0, <3>1, <4>2
          <5>2. QED
            BY <2>1, <3>2, <5>1 DEF Published
        <4>3. QED
          BY <4>1, <4>2
      <3>3. QED
        BY <1>0, <2>1, <3>2, OpenedKept
    <2>4. CASE Ack(s)
      <3>1. UNCHANGED queue /\ hand' = [hand EXCEPT ![s] = NoEvent]
        BY <2>4 DEF Ack
      <3>2. ASSUME NEW f \in Events, Published(f)' PROVE Published(f)
        <4>1. \A t \in Subs : hand'[t] = f => hand[t] = f
          BY <1>0, <3>1
        <4>2. QED
          BY <2>1, <3>1, <3>2, <4>1 DEF Published
      <3>3. QED
        BY <1>0, <2>1, <3>2, OpenedKept
    <2>5. QED
      BY <2>1, <2>2, <2>3, <2>4 DEF SubscribeStep, Comings
  <1>9. ASSUME NEW s \in Subs, PVHandler(s) PROVE OpenedInv'
    <2>1. HandlerStep(s) /\ UNCHANGED <<view, opened>>
      BY <1>9 DEF PVHandler, viewVars
    <2>2. UNCHANGED <<queue, hand>> /\ hand[s] \in Events
      BY <2>1, HandlerEffect
    <2>3. seen' \subseteq seen \cup {hand[s]}
      BY <2>1 DEF HandlerStep, DedupSeen, DedupFails, Send, SendCtxDone, SeenOrMark
    <2>4. ASSUME NEW f \in Events, Published(f)' PROVE Published(f)
      BY <2>1, <2>2, <2>3, <2>4 DEF Published
    <2>5. QED
      BY <1>0, <2>1, <2>4, OpenedKept
  <1>10. CASE PVFlushLoop
    BY <1>1, <1>10, LoopEffect DEF PVFlushLoop, viewVars
  <1>11. CASE (ConnectionLost \/ Cancel) /\ UNCHANGED <<countVars, viewVars>>
    <2>1. UNCHANGED <<view, opened, seen, hand>>
      BY <1>11 DEF ConnectionLost, Cancel, countVars, viewVars
    <2>2. CASE Cancel
      BY <1>1, <2>1, <2>2 DEF Cancel
    <2>3. CASE ConnectionLost
      <3>1. \A f \in Events : queue'[f] > 0 => queue[f] > 0 \/ \E s \in Subs : hand[s] = f
        BY <1>0, <2>3, RequeuedWasHeld DEF ConnectionLost, LoseConnection
      <3>2. ASSUME NEW f \in Events, Published(f)' PROVE Published(f)
        BY <2>1, <3>1, <3>2 DEF Published
      <3>3. QED
        BY <1>0, <2>1, <3>2, OpenedKept
    <2>4. QED
      BY <1>11, <2>2, <2>3
  <1>12. CASE PVCrash
    <2>1. /\ UNCHANGED <<opened, seen>> /\ Requeue /\ hand' = [s \in Subs |-> NoEvent]
          /\ view' = [e \in Events |-> IF view[e] = "idle" THEN "idle" ELSE "done"]
      BY <1>12 DEF PVCrash, Crash, BusCrash
    <2>2. \A f \in Events : queue'[f] > 0 => queue[f] > 0 \/ \E s \in Subs : hand[s] = f
      BY <1>0, <2>1, RequeuedWasHeld
    <2>3. ASSUME NEW f \in Events, Published(f)' PROVE Published(f)
      BY <1>0, <2>1, <2>2, <2>3 DEF Published
    <2>4. view' \in [Events -> {"idle", "mark", "publish", "done"}]
      BY <2>1
    <2>5. QED
      BY <1>0, <2>1, <2>3, <2>4, OpenedKept
  <1>13. QED
    BY <1>2, <1>3, <1>4, <1>5, <1>6, <1>7, <1>8, <1>9, <1>10, <1>11, <1>12 DEF PVNext

\* With one delta of +1 per event, the deltas on view_count of a post are its events.
LEMMA ViewDelta ==
    ASSUME DeltasAreViews, NEW p
    PROVE  /\ "view_count" \in Columns
           /\ \A d \in DeltaIds : d[2] = 1 /\ Delta(d).by = 1 /\ Delta(d).user = PostOf[d[1]]
           /\ \A d : d \in ColumnDeltas(p, "view_count") <=> d \in DeltaIds /\ PostOf[d[1]] = p
           /\ \A e \in Events : <<e, 1>> \in DeltaIds
  <1>1. \A e \in Events : DeltasOf[e] = <<[user |-> PostOf[e], column |-> "view_count", by |-> 1]>>
    BY DEF DeltasAreViews
  <1>0. \A e \in Events : Len(DeltasOf[e]) = 1
    <2>1. \A r : Len(<<r>>) = 1
      OBVIOUS
    <2>2. QED
      BY <1>1, <2>1
  <1>2. ASSUME NEW d \in DeltaIds
        PROVE  /\ d[2] = 1 /\ Delta(d).by = 1 /\ Delta(d).user = PostOf[d[1]]
               /\ Delta(d).column = "view_count"
    <2>1. d[1] \in Events /\ d[2] \in 1..2 /\ d[2] <= Len(DeltasOf[d[1]])
      BY DeltaPairs
    <2>2. Len(DeltasOf[d[1]]) = 1
      BY <1>0, <2>1
    <2>3. d[2] = 1
      BY <2>1, <2>2
    <2>4. Delta(d) = [user |-> PostOf[d[1]], column |-> "view_count", by |-> 1]
      BY <1>1, <2>1, <2>3 DEF Delta
    <2>5. QED
      BY <2>3, <2>4
  <1>3. ASSUME NEW e \in Events PROVE <<e, 1>> \in DeltaIds
    <2>1. 1 \in 1..2 /\ 1 <= Len(DeltasOf[e])
      BY <1>0
    <2>2. QED
      BY <2>1, DeltaPairs
  <1>4. QED
    BY <1>2, <1>3 DEF ColumnDeltas, DeltasAreViews

\* If each was applied at most once, both bounds are the number of those applied.
LEMMA ViewBounds ==
    ASSUME DeltasAreViews, NEW p, NEW a \in [DeltaIds -> Nat], NEW E \in SUBSET Events,
           \A d \in ColumnDeltas(p, "view_count") : a[d] = IF d[1] \in E THEN 1 ELSE 0
    PROVE  /\ Low(a, p, "view_count") = Cardinality({e \in E : PostOf[e] = p})
           /\ High(a, p, "view_count") = Cardinality({e \in E : PostOf[e] = p})
  <1>1. PICK D, T, W : /\ D = ColumnDeltas(p, "view_count") /\ T = {d \in D : d[1] \in E}
                       /\ W = {e \in E : PostOf[e] = p}
    OBVIOUS
  <1>2. /\ IsFiniteSet(D) /\ D \in SUBSET DeltaIds /\ T \in SUBSET D /\ IsFiniteSet(T)
    <2>1. IsFiniteSet(D) /\ D \in SUBSET DeltaIds /\ T \in SUBSET D
      BY <1>1, DeltasFinite
    <2>2. QED
      BY <2>1, FS_Subset
  <1>3. \A d \in D : d[2] = 1 /\ Delta(d).by = 1 /\ PostOf[d[1]] = p /\ d[1] \in Events
    BY <1>1, <1>2, ViewDelta, DeltaPairs
  <1>4. ASSUME NEW f, \A d \in D : f[d] = a[d]
        PROVE  SumFunctionOnSet(f, D) = Cardinality(T)
    <2>1. \A d \in T : f[d] = 1 /\ f[d] \in Int
      BY <1>1, <1>4
    <2>2. \A d \in D \ T : f[d] = 0
      BY <1>1, <1>4
    <2>3. SumFunctionOnSet(f, D) = SumFunctionOnSet(f, T)
      BY <1>2, <2>1, <2>2, SumSupport
    <2>4. SumFunctionOnSet(f, T) = Cardinality(T)
      BY <1>2, <2>1, SumOnes
    <2>5. QED
      BY <2>3, <2>4
  <1>5. Cardinality(W) = Cardinality(T)
    <2>1. PICK F : F = [d \in T |-> d[1]]
      OBVIOUS
    <2>2. \A d \in T : d = <<d[1], 1>> /\ d[1] \in W /\ F[d] = d[1]
      BY <1>1, <1>2, <1>3, <2>1, DeltaPairs
    <2>3. \A e \in W : <<e, 1>> \in T
      <3>1. SUFFICES ASSUME NEW e \in W PROVE <<e, 1>> \in T
        OBVIOUS
      <3>2. e \in E /\ e \in Events /\ PostOf[e] = p
        BY <1>1, <3>1
      <3>3. <<e, 1>> \in D
        BY <1>1, <3>2, ViewDelta
      <3>4. QED
        BY <1>1, <3>2, <3>3
    <2>4. F \in [T -> W] /\ DOMAIN F = T
      BY <2>1, <2>2
    <2>5. \A d1, d2 \in T : F[d1] = F[d2] => d1 = d2
      BY <2>2
    <2>6. \A e \in W : \E d \in T : F[d] = e
      BY <2>2, <2>3
    <2>7. F \in Bijection(T, W)
      BY <2>4, <2>5, <2>6 DEF Bijection, Injection, Surjection, IsInjective
    <2>8. ExistsBijection(T, W)
      BY <2>7 DEF ExistsBijection
    <2>9. QED
      BY <1>2, <2>8, FS_Bijection
  <1>6. \A d \in D : Signed(a)[d] = a[d] /\ Positive(a)[d] = a[d]
    BY <1>2, <1>3, Terms
  <1>7. SumFunctionOnSet(Signed(a), D) = Cardinality(T) /\ SumFunctionOnSet(Positive(a), D) = Cardinality(T)
    BY <1>4, <1>6
  <1>8. QED
    BY <1>1, <1>5, <1>7 DEF Low, High

\* No event counts twice or without a window, so the windows bound the counter.
LEMMA NotInflated == ViewInv => ViewsNeverInflated
  <1>1. SUFFICES ASSUME ViewInv, NEW p \in Users, \A e \in unguarded : PostOf[e] # p
                 PROVE  counter[p]["view_count"] <= Cardinality({e \in opened : PostOf[e] = p})
    BY DEF ViewsNeverInflated
  <1>2. /\ BaseInv /\ OnceInv /\ CounterInv /\ OpenedInv /\ DeltasAreViews
        /\ opened \subseteq Events /\ applied \in [DeltaIds -> Nat] /\ batch \in [DeltaIds -> Nat]
    BY <1>1 DEF ViewInv, ConsumerInv, OpenedInv, BaseInv, CountData
  <1>3. PICK a, E, W, X : /\ a = applied /\ E = {e \in opened : a[<<e, 1>>] = 1}
                          /\ W = {e \in opened : PostOf[e] = p} /\ X = {e \in E : PostOf[e] = p}
    OBVIOUS
  <1>4. ASSUME NEW d \in ColumnDeltas(p, "view_count")
        PROVE  a[d] = IF d[1] \in E THEN 1 ELSE 0
    <2>1. d \in DeltaIds /\ PostOf[d[1]] = p /\ d[1] \in Events /\ d = <<d[1], 1>>
      BY <1>2, ViewDelta, DeltaPairs
    <2>2. d[1] \notin unguarded
      BY <1>1, <2>1
    <2>3. Single(d) /\ a[d] \in Nat /\ batch[d] \in Nat
      BY <1>2, <1>3, <2>1, <2>2 DEF OnceInv
    <2>4. a[d] <= 1 /\ (a[d] = 1 => d[1] \in seen)
      BY <1>3, <2>3 DEF Single
    <2>5. a[d] = 1 => d[1] \in opened
      BY <1>2, <2>1, <2>4 DEF OpenedInv, Published
    <2>6. d[1] \in E <=> a[d] = 1
      BY <1>3, <2>1, <2>5
    <2>7. QED
      BY <2>3, <2>4, <2>6
  <1>5. E \in SUBSET Events /\ a \in [DeltaIds -> Nat]
    BY <1>2, <1>3
  <1>6. High(a, p, "view_count") = Cardinality(X)
    <2>1. High(a, p, "view_count") = Cardinality({e \in E : PostOf[e] = p})
      BY <1>2, <1>4, <1>5, ViewBounds
    <2>2. X = {e \in E : PostOf[e] = p}
      BY <1>3
    <2>3. QED
      BY <2>1, <2>2
  <1>7. Cardinality(X) <= Cardinality(W) /\ Cardinality(X) \in Nat /\ Cardinality(W) \in Nat
    <2>1. X \subseteq W /\ W \subseteq Events
      BY <1>2, <1>3
    <2>2. IsFiniteSet(W) /\ IsFiniteSet(X)
      BY <2>1, RabbitMQAssumption, FS_Subset
    <2>3. QED
      BY <2>1, <2>2, FS_Subset, FS_CardinalityType
  <1>8. counter[p]["view_count"] \in Nat /\ counter[p]["view_count"] <= High(a, p, "view_count")
    <2>1. "view_count" \in Columns
      BY <1>2 DEF DeltasAreViews
    <2>2. QED
      BY <1>1, <1>2, <1>3, <2>1 DEF CounterInv
  <1>9. QED
    BY <1>3, <1>6, <1>7, <1>8

\* When all windows have been taken and nothing is on its way, both bounds are equal.
LEMMA ViewsExact == ViewInv => ViewsSettle
  <1>1. SUFFICES ASSUME ViewInv, Quiet, opened \subseteq accepted \cap seen, unguarded = {},
                        lost = {}, NEW p \in Users
                 PROVE  counter[p]["view_count"] = Cardinality({e \in opened : PostOf[e] = p})
    BY DEF ViewsSettle
  <1>2. /\ BaseInv /\ OnceInv /\ SeenIsHandled /\ CounterInv /\ OpenedInv /\ DeltasAreViews
        /\ opened \subseteq Events /\ applied \in [DeltaIds -> Nat] /\ seen \subseteq Events
    BY <1>1 DEF ViewInv, ConsumerInv, OpenedInv, BaseInv, CountData
  <1>3. opened = seen
    BY <1>1, <1>2 DEF OpenedInv, Published
  <1>4. PICK a, E : a = applied /\ E = opened
    OBVIOUS
  <1>5. ASSUME NEW d \in ColumnDeltas(p, "view_count")
        PROVE  a[d] = IF d[1] \in E THEN 1 ELSE 0
    <2>1. d \in DeltaIds
      BY <1>2, ViewDelta
    <2>2. QED
      BY <1>1, <1>2, <1>3, <1>4, <2>1, AppliedWhenQuiet
  <1>6. /\ Low(a, p, "view_count") = Cardinality({e \in E : PostOf[e] = p})
        /\ High(a, p, "view_count") = Cardinality({e \in E : PostOf[e] = p})
    BY <1>2, <1>4, <1>5, ViewBounds
  <1>7. /\ counter[p]["view_count"] \in Nat
        /\ Low(a, p, "view_count") <= counter[p]["view_count"]
        /\ counter[p]["view_count"] <= High(a, p, "view_count")
    <2>1. "view_count" \in Columns
      BY <1>2 DEF DeltasAreViews
    <2>2. QED
      BY <1>1, <1>2, <1>4, <2>1 DEF CounterInv
  <1>8. Low(a, p, "view_count") \in Int
    BY <1>2, <1>4, Bounds
  <1>9. QED
    BY <1>4, <1>6, <1>7, <1>8

\* No request has been made yet.
LEMMA ViewInit == PVInit /\ DeltasAreViews => ViewInv
  <1>1. SUFFICES ASSUME PVInit, DeltasAreViews PROVE OpenedInv
    BY ConsumerInit DEF PVInit, ViewInv
  <1>2. /\ view = [e \in Events |-> "idle"] /\ opened = {} /\ seen = {}
        /\ queue = [e \in Events |-> 0] /\ hand = [s \in Subs |-> NoEvent]
    BY <1>1 DEF PVInit, Init, BusInit
  <1>3. \A e \in Events : ~Published(e)
    BY <1>2, CountConstants DEF Published
  <1>4. QED
    BY <1>2, <1>3 DEF OpenedInv

\* Every step preserves the invariant of the page views.
LEMMA ViewStep == ViewInv /\ [PVNext]_pvVars => ViewInv'
  <1>1. SUFFICES ASSUME ViewInv, [PVNext]_pvVars PROVE ViewInv'
    OBVIOUS
  <1>2. ConsumerInv'
    BY <1>1, ViewConsumerStep DEF ViewInv
  <1>3. OpenedInv'
    BY <1>1, OpenedStep DEF ViewInv, ConsumerInv
  <1>4. DeltasAreViews'
    BY <1>1 DEF ViewInv, DeltasAreViews
  <1>5. QED
    BY <1>2, <1>3, <1>4 DEF ViewInv

\* A viewer counts once per window: concurrent requests, redeliveries, crashes and
\* retried publishes never make view_count exceed the windows opened, unless the
\* consumer's SETNX failed for an event of the post (feed_cache.go:182-184,
\* pv_consumer.go:58-61).
THEOREM ViewsBounded == PVSpec /\ DeltasAreViews => []ViewsNeverInflated
  BY ViewInit, ViewStep, NotInflated, PTL DEF PVSpec

\* Once the consumer has begun with the event of every window and nothing is on its
\* way or lost, view_count is the number of windows (pv_consumer.go: flush).
THEOREM ViewsSettled == PVSpec /\ DeltasAreViews => []ViewsSettle
  BY ViewInit, ViewStep, ViewsExact, PTL DEF PVSpec

=============================================================================
