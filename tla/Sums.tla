-------------------------------- MODULE Sums --------------------------------
(***************************************************************************)
(* Sums over finite sets, for the proofs about amounts: what               *)
(* SumFunctionOnSet of the community modules is when an element is added   *)
(* or removed, when two disjoint sets are joined, and when the elements    *)
(* are renamed.  Induction is over the subsets of a finite set, which      *)
(* strict inclusion orders well: what is claimed of every subset is the    *)
(* set of the subsets it holds for, so no operator is a parameter.         *)
(***************************************************************************)
EXTENDS Integers, FiniteSets, Functions, FiniteSetTheorems, WellFoundedInduction, TLAPS

\* A set of subsets that has every subset whose strict subsets it has, has all.
LEMMA SmallerSetsFirst ==
  ASSUME NEW S, IsFiniteSet(S), NEW Good,
         ASSUME NEW T \in SUBSET S, \A U \in SUBSET T : U # T => U \in Good
         PROVE  T \in Good
  PROVE  \A T \in SUBSET S : T \in Good
<1> DEFINE Bad == {T \in SUBSET S : T \notin Good}
<1>1. IsWellFoundedOn(StrictSubsetOrdering(S), SUBSET S)
  BY FS_StrictSubsetOrderingWellFounded, FS_FiniteSubsetsOfFinite
<1>2. SUFFICES ASSUME Bad # {} PROVE FALSE
  OBVIOUS
<1>3. PICK T \in Bad : \A U \in Bad : <<U, T>> \notin StrictSubsetOrdering(S)
  <2> HIDE DEF Bad
  <2>1. Bad \subseteq SUBSET S  BY DEF Bad
  <2> QED BY <1>1, <1>2, <2>1, WFMin
<1>4. ASSUME NEW U \in SUBSET T, U # T PROVE U \in Good
  <2>1. U \in SUBSET S  BY <1>3
  <2>2. <<U, T>> \in StrictSubsetOrdering(S)  BY <2>1, <1>3, <1>4 DEF StrictSubsetOrdering
  <2> QED BY <2>1, <2>2, <1>3
<1> QED BY <1>3, <1>4

\* A set of subsets that has the empty one, and with each also every set of one
\* element more, has all.
LEMMA OneAtATime ==
  ASSUME NEW S, IsFiniteSet(S), NEW Good, {} \in Good,
         ASSUME NEW T \in SUBSET S, T \in Good, NEW x \in S \ T
         PROVE  T \cup {x} \in Good
  PROVE  S \in Good
<1>1. ASSUME NEW T \in SUBSET S, \A U \in SUBSET T : U # T => U \in Good
      PROVE  T \in Good
  <2>1. CASE T = {}  BY <2>1
  <2>2. CASE T # {}
    <3>1. PICK x \in T : TRUE  BY <2>2
    <3>2. T \ {x} \in Good  BY <1>1, <3>1
    <3>3. T \ {x} \in SUBSET S /\ x \in S \ (T \ {x})  BY <3>1
    <3>4. (T \ {x}) \cup {x} \in Good  BY <3>2, <3>3
    <3>5. (T \ {x}) \cup {x} = T  BY <3>1
    <3> QED BY <3>4, <3>5
  <2> QED BY <2>1, <2>2
<1>2. \A T \in SUBSET S : T \in Good  BY <1>1, SmallerSetsFirst, Zenon
<1> QED BY <1>2

\* A finite set of names has a finite set of values.
LEMMA ImageIsFinite ==
  ASSUME NEW S, IsFiniteSet(S), NEW h
  PROVE  IsFiniteSet({h[x] : x \in S})
<1> DEFINE image == [x \in S |-> h[x]]
<1>1. image \in Surjection(S, {h[x] : x \in S})
  BY DEF Surjection
<1> QED BY <1>1, FS_Surjection

-----------------------------------------------------------------------------
Pick(s) == CHOOSE x \in s : TRUE

Adds(f, S, sums) ==
  sums = [s \in SUBSET S |-> IF s = {} THEN 0 ELSE f[Pick(s)] + sums[s \ {Pick(s)}]]

Sums(f, S) == CHOOSE sums : Adds(f, S, sums)

\* The sum, unfolded to the recursive function that its definition chooses.
LEMMA SumIs ==
  ASSUME NEW f, NEW S
  PROVE  SumFunctionOnSet(f, S) = Sums(f, S)[S]
  BY DEF SumFunctionOnSet, FoldFunctionOnSet, MapThenFoldSet, Sums, Adds, Pick

LEMMA AddsAt ==
  ASSUME NEW f, NEW S, NEW g, Adds(f, S, g), NEW s \in SUBSET S
  PROVE  g[s] = IF s = {} THEN 0 ELSE f[Pick(s)] + g[s \ {Pick(s)}]
  BY DEF Adds

LEMMA Picked ==
  ASSUME NEW s, s # {}
  PROVE  Pick(s) \in s
  BY DEF Pick

\* The recursive function does not depend on the set it starts from.
LEMMA AddsAgree ==
  ASSUME NEW f, NEW S, IsFiniteSet(S), NEW R, NEW g, NEW h, Adds(f, S, g), Adds(f, R, h), S \subseteq R
  PROVE  \A T \in SUBSET S : g[T] = h[T]
<1> DEFINE Good == {T \in SUBSET S : g[T] = h[T]}
<1>1. ASSUME NEW T \in SUBSET S, \A U \in SUBSET T : U # T => U \in Good
      PROVE  T \in Good
  <2>1. g[T] = IF T = {} THEN 0 ELSE f[Pick(T)] + g[T \ {Pick(T)}]  BY AddsAt
  <2>2. T \in SUBSET R  OBVIOUS
  <2>3. h[T] = IF T = {} THEN 0 ELSE f[Pick(T)] + h[T \ {Pick(T)}]  BY <2>2 DEF Adds
  <2>4. CASE T = {}  BY <2>1, <2>3, <2>4
  <2>5. CASE T # {}
    <3>1. Pick(T) \in T  BY Picked, <2>5
    <3>2. T \ {Pick(T)} \in Good  BY <3>1, <1>1
    <3> QED BY <2>1, <2>3, <2>5, <3>2
  <2> QED BY <2>4, <2>5
<1>2. \A T \in SUBSET S : T \in Good
  <2> HIDE DEF Good
  <2> QED BY <1>1, SmallerSetsFirst, Zenon
<1> QED BY <1>2

\* There is such a function, whichever order the elements are picked in.
LEMMA AddsExists ==
  ASSUME NEW f, NEW S, IsFiniteSet(S)
  PROVE  Adds(f, S, Sums(f, S))
<1> DEFINE Good == {T \in SUBSET S : Adds(f, T, Sums(f, T))}
<1>1. ASSUME NEW T \in SUBSET S, \A U \in SUBSET T : U # T => U \in Good
      PROVE  T \in Good
  <2> DEFINE g == [s \in SUBSET T |->
                     IF s = T
                     THEN (IF s = {} THEN 0
                           ELSE f[Pick(s)] + Sums(f, s \ {Pick(s)})[s \ {Pick(s)}])
                     ELSE Sums(f, s)[s]]
  <2>1. ASSUME NEW s \in SUBSET T
        PROVE  g[s] = IF s = {} THEN 0 ELSE f[Pick(s)] + g[s \ {Pick(s)}]
    <3>1. CASE s = {}
      <4>1. CASE s = T  BY <3>1, <4>1
      <4>2. CASE s # T
        <5>1. Adds(f, s, Sums(f, s))  BY <1>1, <4>2
        <5>2. Sums(f, s)[s] = 0  BY <5>1, AddsAt, <3>1
        <5> QED BY <5>2, <4>2, <3>1
      <4> QED BY <4>1, <4>2
    <3>2. CASE s # {}
      <4> DEFINE p == Pick(s)
                 r == s \ {p}
      <4>1. p \in s  BY Picked, <3>2
      <4>2. r \in SUBSET T /\ r # T /\ r # s /\ r \in SUBSET s  BY <4>1
      <4>3. g[r] = Sums(f, r)[r]  BY <4>2
      <4>4. CASE s = T
        <5>1. g[s] = f[p] + Sums(f, r)[r]  BY <4>4, <3>2
        <5> QED BY <5>1, <4>3, <3>2
      <4>5. CASE s # T
        <5>1. Adds(f, s, Sums(f, s))  BY <1>1, <4>5
        <5>2. Adds(f, r, Sums(f, r))  BY <1>1, <4>2
        <5>3. IsFiniteSet(r)  BY FS_Subset, <4>2
        <5>4. Sums(f, s)[s] = f[p] + Sums(f, s)[r]  BY <5>1, AddsAt, <3>2
        <5>5. r \in SUBSET r  OBVIOUS
        <5>6. Sums(f, r)[r] = Sums(f, s)[r]
          <6> HIDE DEF r
          <6> QED BY <5>1, <5>2, <5>3, <5>5, <4>2, AddsAgree
        <5>7. g[s] = Sums(f, s)[s]  BY <4>5
        <5> QED BY <5>4, <5>6, <5>7, <4>3, <3>2
      <4> QED BY <4>4, <4>5
    <3> QED BY <3>1, <3>2
  <2>2. Adds(f, T, g)
    <3> DEFINE h == [s \in SUBSET T |-> IF s = {} THEN 0 ELSE f[Pick(s)] + g[s \ {Pick(s)}]]
    <3>1. \A s \in SUBSET T : g[s] = h[s]
      <4>1. TAKE s \in SUBSET T
      <4>2. h[s] = IF s = {} THEN 0 ELSE f[Pick(s)] + g[s \ {Pick(s)}]  BY <4>1
      <4> QED BY <4>2, <2>1
    <3>2. g = h
      <4>1. DOMAIN g = SUBSET T /\ DOMAIN h = SUBSET T  OBVIOUS
      <4>2. g = [s \in SUBSET T |-> g[s]] /\ h = [s \in SUBSET T |-> h[s]]  OBVIOUS
      <4> HIDE DEF g, h
      <4> QED BY <3>1, <4>2, Zenon
    <3> HIDE DEF g
    <3> QED BY <3>2 DEF Adds
  <2>3. Adds(f, T, Sums(f, T))
    <3> HIDE DEF g
    <3> QED BY <2>2 DEF Sums
  <2> QED BY <2>3
<1>2. \A T \in SUBSET S : T \in Good
  <2> HIDE DEF Good
  <2> QED BY <1>1, SmallerSetsFirst, Zenon
<1> QED BY <1>2

\* A sum is what has been picked first and the sum of the rest.
LEMMA SumUnfolds ==
  ASSUME NEW f, NEW S, IsFiniteSet(S)
  PROVE  SumFunctionOnSet(f, S) =
           IF S = {} THEN 0 ELSE f[Pick(S)] + SumFunctionOnSet(f, S \ {Pick(S)})
<1>1. Adds(f, S, Sums(f, S))  BY AddsExists
<1>2. S \in SUBSET S  OBVIOUS
<1>3. Sums(f, S)[S] = IF S = {} THEN 0 ELSE f[Pick(S)] + Sums(f, S)[S \ {Pick(S)}]
  BY <1>1, <1>2 DEF Adds
<1>4. CASE S = {}  BY <1>3, <1>4, SumIs
<1>5. CASE S # {}
  <2> DEFINE R == S \ {Pick(S)}
  <2>1. IsFiniteSet(R) /\ R \subseteq S /\ R \in SUBSET R  BY FS_Subset
  <2> HIDE DEF R
  <2>2. Adds(f, R, Sums(f, R))  BY <2>1, AddsExists
  <2>3. Sums(f, R)[R] = Sums(f, S)[R]  BY <2>1, <2>2, <1>1, AddsAgree
  <2>4. SumFunctionOnSet(f, R) = Sums(f, R)[R] /\ SumFunctionOnSet(f, S) = Sums(f, S)[S]  BY SumIs
  <2> QED BY <2>3, <2>4, <1>3, <1>5 DEF R
<1> QED BY <1>4, <1>5

\* The sum over no elements is zero.
LEMMA SumOfNone ==
  ASSUME NEW f
  PROVE  SumFunctionOnSet(f, {}) = 0
  BY SumUnfolds, FS_EmptySet

\* A sum of integers is an integer.
LEMMA SumIsInt ==
  ASSUME NEW f, NEW S, IsFiniteSet(S), \A x \in S : f[x] \in Int
  PROVE  SumFunctionOnSet(f, S) \in Int
<1> DEFINE Good == {T \in SUBSET S : SumFunctionOnSet(f, T) \in Int}
<1>1. ASSUME NEW T \in SUBSET S, \A U \in SUBSET T : U # T => U \in Good
      PROVE  T \in Good
  <2>1. IsFiniteSet(T)  BY FS_Subset
  <2>2. CASE T = {}  BY <2>2, SumOfNone
  <2>3. CASE T # {}
    <3> DEFINE p == Pick(T)
    <3>1. p \in T  BY Picked, <2>3
    <3>2. T \ {p} \in Good  BY <3>1, <1>1
    <3>3. SumFunctionOnSet(f, T) = f[p] + SumFunctionOnSet(f, T \ {p})  BY <2>1, <2>3, SumUnfolds
    <3>4. f[p] \in Int  BY <3>1
    <3> QED BY <3>2, <3>3, <3>4
  <2> QED BY <2>2, <2>3
<1>2. \A T \in SUBSET S : T \in Good
  <2> HIDE DEF Good
  <2> QED BY <1>1, SmallerSetsFirst, Zenon
<1> QED BY <1>2

LEMMA SumOfOne ==
  ASSUME NEW f, NEW x, f[x] \in Int
  PROVE  SumFunctionOnSet(f, {x}) = f[x]
<1>1. IsFiniteSet({x}) /\ {x} # {}  BY FS_Singleton
<1>2. Pick({x}) \in {x}  BY <1>1, Picked
<1>3. {x} \ {x} = {}  OBVIOUS
<1>4. Pick({x}) = x  BY <1>2
<1>5. SumFunctionOnSet(f, {x}) = f[x] + SumFunctionOnSet(f, {x} \ {x})  BY <1>1, <1>4, SumUnfolds
<1> QED BY <1>3, <1>5, SumOfNone

\* Any element can be taken out of a sum first: the order does not matter.
LEMMA SumTakesOut ==
  ASSUME NEW f, NEW S, IsFiniteSet(S), \A y \in S : f[y] \in Int, NEW x \in S
  PROVE  SumFunctionOnSet(f, S) = f[x] + SumFunctionOnSet(f, S \ {x})
<1> DEFINE Good == {T \in SUBSET S : \A z \in T :
                       SumFunctionOnSet(f, T) = f[z] + SumFunctionOnSet(f, T \ {z})}
<1>1. ASSUME NEW T \in SUBSET S, \A U \in SUBSET T : U # T => U \in Good
      PROVE  T \in Good
  <2>1. SUFFICES ASSUME NEW z \in T
                 PROVE  SumFunctionOnSet(f, T) = f[z] + SumFunctionOnSet(f, T \ {z})
    OBVIOUS
  <2> DEFINE p == Pick(T)
             both == (T \ {p}) \ {z}
  <2>2. IsFiniteSet(T) /\ IsFiniteSet(T \ {z}) /\ IsFiniteSet(T \ {p}) /\ IsFiniteSet(both)
    BY FS_Subset
  <2>3. p \in T  BY <2>1, Picked
  <2>4. SumFunctionOnSet(f, T) = f[p] + SumFunctionOnSet(f, T \ {p})
    BY <2>1, <2>2, SumUnfolds
  <2>5. CASE p = z  BY <2>4, <2>5
  <2>6. CASE p # z
    <3>1. T \ {p} \in Good /\ T \ {z} \in Good  BY <2>3, <1>1
    <3>2. z \in T \ {p} /\ p \in T \ {z}  BY <2>1, <2>3, <2>6
    <3>3. SumFunctionOnSet(f, T \ {p}) = f[z] + SumFunctionOnSet(f, both)  BY <3>1, <3>2
    <3>4. SumFunctionOnSet(f, T \ {z}) = f[p] + SumFunctionOnSet(f, (T \ {z}) \ {p})  BY <3>1, <3>2
    <3>5. SumFunctionOnSet(f, T \ {z}) = f[p] + SumFunctionOnSet(f, both)
      <4>1. (T \ {z}) \ {p} = both  OBVIOUS
      <4> HIDE DEF both, p
      <4> QED BY <3>4, <4>1, Zenon
    <3>6. f[p] \in Int /\ f[z] \in Int  BY <2>1, <2>3
    <3>7. SumFunctionOnSet(f, both) \in Int  BY <2>2, SumIsInt
    <3> HIDE DEF both, p
    <3>8. f[p] + (f[z] + SumFunctionOnSet(f, both)) = f[z] + (f[p] + SumFunctionOnSet(f, both))
      BY <3>6, <3>7
    <3> QED BY <2>4, <3>3, <3>5, <3>8, Zenon
  <2> QED BY <2>5, <2>6
<1>2. \A T \in SUBSET S : T \in Good
  <2> HIDE DEF Good
  <2> QED BY <1>1, SmallerSetsFirst, Zenon
<1> QED BY <1>2

\* A new element adds what it has to a sum.
LEMMA SumTakesIn ==
  ASSUME NEW f, NEW S, IsFiniteSet(S), \A y \in S : f[y] \in Int,
         NEW x, x \notin S, f[x] \in Int
  PROVE  SumFunctionOnSet(f, S \cup {x}) = f[x] + SumFunctionOnSet(f, S)
<1>1. IsFiniteSet(S \cup {x})  BY FS_AddElement
<1>2. \A y \in S \cup {x} : f[y] \in Int  OBVIOUS
<1>3. (S \cup {x}) \ {x} = S /\ x \in S \cup {x}  OBVIOUS
<1>4. SumFunctionOnSet(f, S \cup {x}) = f[x] + SumFunctionOnSet(f, (S \cup {x}) \ {x})
  <2> DEFINE R == S \cup {x}
  <2> HIDE DEF R
  <2>1. IsFiniteSet(R) /\ x \in R /\ \A y \in R : f[y] \in Int  BY <1>1, <1>2, <1>3 DEF R
  <2>2. SumFunctionOnSet(f, R) = f[x] + SumFunctionOnSet(f, R \ {x})  BY <2>1, SumTakesOut
  <2> QED BY <2>2 DEF R
<1> QED BY <1>3, <1>4

\* Functions that agree on a set have one sum over it.
LEMMA SumOfSame ==
  ASSUME NEW f, NEW g, NEW S, IsFiniteSet(S), \A x \in S : f[x] = g[x]
  PROVE  SumFunctionOnSet(f, S) = SumFunctionOnSet(g, S)
<1> DEFINE Good == {T \in SUBSET S : SumFunctionOnSet(f, T) = SumFunctionOnSet(g, T)}
<1>1. ASSUME NEW T \in SUBSET S, \A U \in SUBSET T : U # T => U \in Good
      PROVE  T \in Good
  <2>1. IsFiniteSet(T)  BY FS_Subset
  <2>2. CASE T = {}  BY <2>2, SumOfNone
  <2>3. CASE T # {}
    <3> DEFINE p == Pick(T)
    <3>1. p \in T  BY Picked, <2>3
    <3>2. T \ {p} \in Good  BY <3>1, <1>1
    <3>3. SumFunctionOnSet(f, T) = f[p] + SumFunctionOnSet(f, T \ {p})  BY <2>1, <2>3, SumUnfolds
    <3>4. SumFunctionOnSet(g, T) = g[p] + SumFunctionOnSet(g, T \ {p})  BY <2>1, <2>3, SumUnfolds
    <3>5. f[p] = g[p]  BY <3>1
    <3> QED BY <3>2, <3>3, <3>4, <3>5
  <2> QED BY <2>2, <2>3
<1>2. \A T \in SUBSET S : T \in Good
  <2> HIDE DEF Good
  <2> QED BY <1>1, SmallerSetsFirst, Zenon
<1> QED BY <1>2

\* The sum over two disjoint sets is the sum of their sums.
LEMMA SumOfParts ==
  ASSUME NEW f, NEW S, IsFiniteSet(S), NEW R, IsFiniteSet(R), S \cap R = {},
         \A x \in S \cup R : f[x] \in Int
  PROVE  SumFunctionOnSet(f, S \cup R) = SumFunctionOnSet(f, S) + SumFunctionOnSet(f, R)
<1> DEFINE Good == {T \in SUBSET S : SumFunctionOnSet(f, T \cup R) =
                                       SumFunctionOnSet(f, T) + SumFunctionOnSet(f, R)}
<1>1. SumFunctionOnSet(f, R) \in Int  BY SumIsInt
<1>2. {} \in Good
  <2>1. {} \cup R = R  OBVIOUS
  <2> QED BY <2>1, <1>1, SumOfNone
<1>3. ASSUME NEW T \in SUBSET S, T \in Good, NEW x \in S \ T
      PROVE  T \cup {x} \in Good
  <2>1. IsFiniteSet(T) /\ IsFiniteSet(T \cup R)  BY FS_Subset, FS_Union
  <2>2. x \notin T /\ x \notin T \cup R /\ f[x] \in Int  BY <1>3
  <2>3. SumFunctionOnSet(f, T \cup {x}) = f[x] + SumFunctionOnSet(f, T)
    BY <2>1, <2>2, SumTakesIn
  <2>4. \A y \in T \cup R : f[y] \in Int  OBVIOUS
  <2>5. SumFunctionOnSet(f, (T \cup R) \cup {x}) = f[x] + SumFunctionOnSet(f, T \cup R)
    <3> DEFINE Q == T \cup R
    <3> HIDE DEF Q
    <3>1. IsFiniteSet(Q) /\ x \notin Q /\ \A y \in Q : f[y] \in Int  BY <2>1, <2>2, <2>4 DEF Q
    <3>2. SumFunctionOnSet(f, Q \cup {x}) = f[x] + SumFunctionOnSet(f, Q)
      BY <3>1, <2>2, SumTakesIn
    <3> QED BY <3>2 DEF Q
  <2>6. SumFunctionOnSet(f, (T \cup {x}) \cup R) = f[x] + SumFunctionOnSet(f, T \cup R)
    <3>1. (T \cup {x}) \cup R = (T \cup R) \cup {x}  OBVIOUS
    <3> QED BY <2>5, <3>1, Zenon
  <2>7. SumFunctionOnSet(f, T) \in Int  BY <2>1, SumIsInt
  <2>8. T \cup {x} \in SUBSET S  BY <1>3
  <2>9. SumFunctionOnSet(f, T \cup R) = SumFunctionOnSet(f, T) + SumFunctionOnSet(f, R)  BY <1>3
  <2>10. f[x] + (SumFunctionOnSet(f, T) + SumFunctionOnSet(f, R)) =
           (f[x] + SumFunctionOnSet(f, T)) + SumFunctionOnSet(f, R)
    BY <2>2, <2>7, <1>1
  <2>11. SumFunctionOnSet(f, (T \cup {x}) \cup R) =
           SumFunctionOnSet(f, T \cup {x}) + SumFunctionOnSet(f, R)
    BY <2>3, <2>6, <2>9, <2>10, Zenon
  <2> QED BY <2>8, <2>11
<1>4. S \in Good
  <2> HIDE DEF Good
  <2> QED BY <1>2, <1>3, OneAtATime, Zenon
<1> QED BY <1>4

\* Renaming the elements, two of them never alike, keeps the sum.
LEMMA SumRenamed ==
  ASSUME NEW f, NEW g, NEW h, NEW S, IsFiniteSet(S),
         \A x \in S : f[x] = g[h[x]] /\ f[x] \in Int,
         \A x, y \in S : h[x] = h[y] => x = y
  PROVE  SumFunctionOnSet(f, S) = SumFunctionOnSet(g, {h[x] : x \in S})
<1> DEFINE Img(T) == {h[x] : x \in T}
           Good == {T \in SUBSET S : IsFiniteSet(Img(T)) /\
                      SumFunctionOnSet(f, T) = SumFunctionOnSet(g, Img(T))}
<1>2. {} \in Good
  <2>1. Img({}) = {}  OBVIOUS
  <2> QED BY <2>1, SumOfNone, FS_EmptySet
<1>3. ASSUME NEW T \in SUBSET S, T \in Good, NEW x \in S \ T
      PROVE  T \cup {x} \in Good
  <2>1. IsFiniteSet(T) /\ IsFiniteSet(Img(T))  BY FS_Subset, <1>3
  <2>2. x \notin T /\ h[x] \notin Img(T) /\ f[x] \in Int /\ g[h[x]] = f[x]  BY <1>3
  <2>3. SumFunctionOnSet(f, T \cup {x}) = f[x] + SumFunctionOnSet(f, T)
    BY <2>1, <2>2, SumTakesIn
  <2>4. \A y \in Img(T) : g[y] \in Int  OBVIOUS
  <2>5. Img(T \cup {x}) = Img(T) \cup {h[x]}  OBVIOUS
  <2>6. IsFiniteSet(Img(T) \cup {h[x]})  BY <2>1, FS_AddElement
  <2>7. SumFunctionOnSet(g, Img(T) \cup {h[x]}) = g[h[x]] + SumFunctionOnSet(g, Img(T))
    <3> HIDE DEF Img
    <3> QED BY <2>1, <2>2, <2>4, SumTakesIn
  <2>8. T \cup {x} \in SUBSET S  BY <1>3
  <2> HIDE DEF Img
  <2> QED BY <1>3, <2>2, <2>3, <2>5, <2>6, <2>7, <2>8
<1>4. S \in Good
  <2> HIDE DEF Good
  <2> QED BY <1>2, <1>3, OneAtATime, Zenon
<1> QED BY <1>4

\* A sum of natural numbers is one.
LEMMA SumIsNat ==
  ASSUME NEW f, NEW S, IsFiniteSet(S), \A x \in S : f[x] \in Nat
  PROVE  SumFunctionOnSet(f, S) \in Nat
<1> DEFINE Good == {T \in SUBSET S : SumFunctionOnSet(f, T) \in Nat}
<1>1. {} \in Good  BY SumOfNone
<1>2. ASSUME NEW T \in SUBSET S, T \in Good, NEW x \in S \ T
      PROVE  T \cup {x} \in Good
  <2>1. IsFiniteSet(T) /\ x \notin T /\ f[x] \in Nat /\ \A y \in T : f[y] \in Int  BY FS_Subset
  <2>2. SumFunctionOnSet(f, T \cup {x}) = f[x] + SumFunctionOnSet(f, T)  BY <2>1, SumTakesIn
  <2>3. T \cup {x} \in SUBSET S  BY <1>2
  <2> QED BY <1>2, <2>1, <2>2, <2>3
<1>3. S \in Good
  <2> HIDE DEF Good
  <2> QED BY <1>1, <1>2, OneAtATime, Zenon
<1> QED BY <1>3

\* Elements renamed alike count once in the image, and each for itself before.
LEMMA SumOfImage ==
  ASSUME NEW f, NEW g, NEW h, NEW S, IsFiniteSet(S),
         \A x \in S : f[x] = g[h[x]] /\ f[x] \in Nat
  PROVE  SumFunctionOnSet(f, S) >= SumFunctionOnSet(g, {h[x] : x \in S})
<1> DEFINE Img(T) == {h[x] : x \in T}
           Good == {T \in SUBSET S : IsFiniteSet(Img(T)) /\
                      SumFunctionOnSet(f, T) >= SumFunctionOnSet(g, Img(T))}
<1>1. {} \in Good
  <2>1. Img({}) = {}  OBVIOUS
  <2> QED BY <2>1, SumOfNone, FS_EmptySet
<1>2. ASSUME NEW T \in SUBSET S, T \in Good, NEW x \in S \ T
      PROVE  T \cup {x} \in Good
  <2>1. IsFiniteSet(T) /\ IsFiniteSet(Img(T))  BY FS_Subset, <1>2
  <2>2. x \notin T /\ f[x] \in Nat /\ g[h[x]] = f[x] /\ \A y \in T : f[y] \in Int  BY <1>2
  <2>3. SumFunctionOnSet(f, T \cup {x}) = f[x] + SumFunctionOnSet(f, T)
    BY <2>1, <2>2, SumTakesIn
  <2>4. \A y \in Img(T) : g[y] \in Nat /\ g[y] \in Int  OBVIOUS
  <2>5. Img(T \cup {x}) = Img(T) \cup {h[x]}  OBVIOUS
  <2>6. IsFiniteSet(Img(T) \cup {h[x]})  BY <2>1, FS_AddElement
  <2>7. SumFunctionOnSet(f, T) >= SumFunctionOnSet(g, Img(T))  BY <1>2
  <2>8. T \cup {x} \in SUBSET S  BY <1>2
  <2>9. SumFunctionOnSet(g, Img(T)) \in Nat
    <3> HIDE DEF Img
    <3> QED BY <2>1, <2>4, SumIsNat
  <2>10. SumFunctionOnSet(f, T) \in Int  BY <2>1, <2>2, SumIsInt
  <2>11. SumFunctionOnSet(g, Img(T) \cup {h[x]}) <= f[x] + SumFunctionOnSet(g, Img(T))
    <3> DEFINE D == Img(T)
    <3>1. CASE h[x] \in Img(T)
      <4>1. Img(T) \cup {h[x]} = Img(T)  BY <3>1
      <4>2. SumFunctionOnSet(g, D \cup {h[x]}) = SumFunctionOnSet(g, D)  BY <4>1, Zenon
      <4> HIDE DEF D
      <4> QED BY <2>2, <2>9, <4>2 DEF D
    <3>2. CASE h[x] \notin Img(T)
      <4> HIDE DEF Img
      <4>1. SumFunctionOnSet(g, Img(T) \cup {h[x]}) = g[h[x]] + SumFunctionOnSet(g, Img(T))
        BY <2>1, <2>2, <2>4, <3>2, SumTakesIn
      <4> QED BY <2>2, <2>9, <4>1
    <3> QED BY <3>1, <3>2
  <2>12. SumFunctionOnSet(g, Img(T) \cup {h[x]}) \in Int
    <3>1. \A y \in Img(T) \cup {h[x]} : g[y] \in Int  BY <2>2, <2>4
    <3> DEFINE D == Img(T) \cup {h[x]}
    <3> HIDE DEF D
    <3>2. IsFiniteSet(D) /\ \A y \in D : g[y] \in Int  BY <2>6, <3>1 DEF D
    <3> QED BY <3>2, SumIsInt DEF D
  <2> HIDE DEF Img
  <2>13. SumFunctionOnSet(f, T \cup {x}) >= SumFunctionOnSet(g, Img(T) \cup {h[x]})
    BY <2>2, <2>3, <2>7, <2>9, <2>10, <2>11, <2>12
  <2> QED BY <2>5, <2>6, <2>8, <2>13
<1>3. S \in Good
  <2> HIDE DEF Good
  <2> QED BY <1>1, <1>2, OneAtATime, Zenon
<1> QED BY <1>3
=============================================================================
