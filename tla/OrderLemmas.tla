----------------------------- MODULE OrderLemmas -----------------------------
(***************************************************************************)
(* Rankings: what sort.SliceStable makes of a pool (matcher/score.go).  A  *)
(* finite set has exactly the sortings one expects of it: one exists, and  *)
(* it leaves no element out.  And sums: what a loop that adds up the       *)
(* members of a finite set comes to, in whatever order.  Nothing here      *)
(* depends on what is compared or added: a comparison is a set of pairs,   *)
(* the terms are a function, since the provers cannot instantiate an       *)
(* operator, and the induction over the set is a least counterexample.     *)
(***************************************************************************)
EXTENDS FiniteSetTheorems, TLAPS

StrictTotal(R, S) ==
    /\ \A a \in S : <<a, a>> \notin R
    /\ \A a, b, c \in S : <<a, b>> \in R /\ <<b, c>> \in R => <<a, c>> \in R
    /\ \A a, b \in S : a = b \/ <<a, b>> \in R \/ <<b, a>> \in R

(* The rankings of S by R, as functions on positions.                      *)
Sortings(R, S) ==
    {f \in [1..Cardinality(S) -> S] :
        \A i, j \in 1..Cardinality(S) : i < j => <<f[i], f[j]>> \in R}

(* Among finite sets there is one that contains no other of them.          *)
LEMMA SmallestSet ==
    ASSUME NEW S, NEW F \in SUBSET FiniteSubsetsOf(S), F # {}
    PROVE  \E T \in F : \A U \in F : U \subseteq T => U = T
<1>1. IsWellFoundedOn(StrictSubsetOrdering(S), FiniteSubsetsOf(S))
  BY FS_StrictSubsetOrderingWellFounded
<1>2. PICK T \in F : \A U \in F : ~(<<U, T>> \in StrictSubsetOrdering(S))
  <2> HIDE DEF StrictSubsetOrdering, FiniteSubsetsOf
  <2>1. F \subseteq FiniteSubsetsOf(S)
    OBVIOUS
  <2> QED BY <1>1, <2>1, WFMin
<1>3. ASSUME NEW U \in F, U \subseteq T PROVE U = T
  <2>1. U \in SUBSET S /\ T \in SUBSET S
    BY DEF FiniteSubsetsOf
  <2>2. U # T => <<U, T>> \in StrictSubsetOrdering(S)
    BY <1>3, <2>1 DEF StrictSubsetOrdering
  <2> QED BY <1>2, <2>2
<1> QED BY <1>3

(* A non-empty finite set has a last element.                              *)
HasLast(R, T) == \E x \in T : \A y \in T \ {x} : <<y, x>> \in R

LEMMA LastExists ==
    ASSUME NEW S, IsFiniteSet(S), S # {}, NEW R, StrictTotal(R, S)
    PROVE  HasLast(R, S)
<1> DEFINE F == {T \in FiniteSubsetsOf(S) : T # {} /\ ~HasLast(R, T)}
<1>1. SUFFICES ASSUME ~HasLast(R, S) PROVE FALSE
  OBVIOUS
<1>2. S \in F
  BY <1>1 DEF FiniteSubsetsOf
<1>3. PICK T \in F : \A U \in F : U \subseteq T => U = T
  <2>1. F \in SUBSET FiniteSubsetsOf(S) /\ F # {}
    BY <1>2
  <2> HIDE DEF F
  <2> QED BY <2>1, SmallestSet
<1>4. T \subseteq S /\ IsFiniteSet(T) /\ T # {} /\ ~HasLast(R, T)
  BY DEF FiniteSubsetsOf
<1>5. PICK x \in T : TRUE
  BY <1>4
<1> DEFINE U == T \ {x}
<1>6. U \subseteq T /\ U # T /\ IsFiniteSet(U)
  BY <1>4, <1>5, FS_RemoveElement
<1>7. U \notin F
  BY <1>3, <1>6
<1>8. U \in FiniteSubsetsOf(S)
  BY <1>4, <1>6 DEF FiniteSubsetsOf
<1>9. U = {} \/ HasLast(R, U)
  BY <1>7, <1>8
<1>10. CASE U = {}
  BY <1>4, <1>5, <1>10 DEF HasLast
<1>11. CASE HasLast(R, U)
  <2>1. PICK last \in U : \A y \in U \ {last} : <<y, last>> \in R
    BY <1>11 DEF HasLast
  <2>2. last \in S /\ x \in S /\ x # last
    BY <1>4, <1>5, <2>1
  <2>3. CASE <<x, last>> \in R
    <3>1. \A y \in T \ {last} : <<y, last>> \in R
      BY <2>1, <2>3
    <3> QED BY <1>4, <2>1, <3>1 DEF HasLast
  <2>4. CASE <<last, x>> \in R
    <3>1. ASSUME NEW y \in T \ {x} PROVE <<y, x>> \in R
      <4>1. y = last \/ <<y, last>> \in R
        BY <2>1, <3>1
      <4>2. y \in S
        BY <1>4, <3>1
      <4> QED BY <2>2, <2>4, <4>1, <4>2 DEF StrictTotal
    <3> QED BY <1>4, <1>5, <3>1 DEF HasLast
  <2> QED BY <2>2, <2>3, <2>4 DEF StrictTotal
<1> QED BY <1>9, <1>10, <1>11

(* The last element follows a sorting of the others.                       *)
LEMMA AppendLast ==
    ASSUME NEW S, IsFiniteSet(S), NEW R, NEW x \in S, \A y \in S \ {x} : <<y, x>> \in R,
           NEW f \in Sortings(R, S \ {x})
    PROVE  Sortings(R, S) # {}
<1> DEFINE n == Cardinality(S)
           g == [i \in 1..n |-> IF i = n THEN x ELSE f[i]]
<1>1. n \in Nat /\ n - 1 \in Nat /\ Cardinality(S \ {x}) = n - 1
  <2>1. n \in Nat /\ Cardinality(S \ {x}) \in Nat
    BY FS_CardinalityType, FS_RemoveElement
  <2> QED BY <2>1, FS_RemoveElement
<1> HIDE DEF n
<1>2. f \in [1..(n - 1) -> S \ {x}] /\ \A i, j \in 1..(n - 1) : i < j => <<f[i], f[j]>> \in R
  BY <1>1 DEF Sortings
<1>3. g \in [1..n -> S]
  BY <1>1, <1>2
<1>4. ASSUME NEW i \in 1..n, NEW j \in 1..n, i < j PROVE <<g[i], g[j]>> \in R
  <2>1. i \in 1..(n - 1) /\ g[i] = f[i] /\ f[i] \in S \ {x}
    BY <1>1, <1>2, <1>4
  <2>2. CASE j = n
    BY <2>1, <2>2
  <2>3. CASE j # n
    BY <1>1, <1>2, <1>4, <2>1, <2>3
  <2> QED BY <2>2, <2>3
<1>5. g \in Sortings(R, S)
  BY <1>3, <1>4 DEF Sortings, n
<1> QED BY <1>5

LEMMA SortingExists ==
    ASSUME NEW S, IsFiniteSet(S), NEW R, StrictTotal(R, S)
    PROVE  Sortings(R, S) # {}
<1> DEFINE F == {T \in FiniteSubsetsOf(S) : Sortings(R, T) = {}}
<1>1. SUFFICES ASSUME Sortings(R, S) = {} PROVE FALSE
  OBVIOUS
<1>2. S \in F
  BY <1>1 DEF FiniteSubsetsOf
<1>3. PICK T \in F : \A U \in F : U \subseteq T => U = T
  <2>1. F \in SUBSET FiniteSubsetsOf(S) /\ F # {}
    BY <1>2
  <2> HIDE DEF F
  <2> QED BY <2>1, SmallestSet
<1>4. T \subseteq S /\ IsFiniteSet(T) /\ Sortings(R, T) = {}
  BY DEF FiniteSubsetsOf
<1>5. T # {}
  <2>1. SUFFICES ASSUME T = {} PROVE FALSE
    OBVIOUS
  <2>2. Cardinality(T) = 0
    BY <2>1, FS_EmptySet
  <2>3. [i \in 1..0 |-> 0] \in Sortings(R, T)
    BY <2>1, <2>2 DEF Sortings
  <2> QED BY <1>4, <2>3
<1>6. StrictTotal(R, T)
  BY <1>4 DEF StrictTotal
<1>7. PICK x \in T : \A y \in T \ {x} : <<y, x>> \in R
  BY <1>4, <1>5, <1>6, LastExists DEF HasLast
<1> DEFINE U == T \ {x}
<1>8. U \subseteq T /\ U # T /\ U \in FiniteSubsetsOf(S)
  BY <1>4, <1>7, FS_RemoveElement DEF FiniteSubsetsOf
<1>9. Sortings(R, U) # {}
  BY <1>3, <1>8
<1>10. PICK f \in Sortings(R, T \ {x}) : TRUE
  BY <1>9
<1>11. Sortings(R, T) # {}
  BY <1>4, <1>7, <1>10, AppendLast
<1> QED BY <1>4, <1>11

(* A sorting ranks every element.                                          *)
LEMMA SortingCovers ==
    ASSUME NEW S, IsFiniteSet(S), NEW R, StrictTotal(R, S), NEW f \in Sortings(R, S),
           NEW x \in S
    PROVE  \E i \in 1..Cardinality(S) : f[i] = x
<1> DEFINE n == Cardinality(S)
<1>1. n \in Nat
  BY FS_CardinalityType
<1>2. f \in [1..n -> S] /\ \A i, j \in 1..n : i < j => <<f[i], f[j]>> \in R
  BY DEF Sortings
<1>3. Cardinality(1..n) = n
  <2> HIDE DEF n
  <2> QED BY <1>1, FS_Interval
<1>4. ASSUME NEW i \in 1..n, NEW j \in 1..n, f[i] = f[j] PROVE i = j
  <2>1. f[i] \in S /\ <<f[i], f[i]>> \notin R
    BY <1>2 DEF StrictTotal
  <2>2. ~(i < j) /\ ~(j < i)
    BY <1>2, <1>4, <2>1
  <2> HIDE DEF n
  <2> QED BY <1>1, <2>2
<1> HIDE DEF n
<1>5. f \in Injection(1..n, S)
  BY <1>2, <1>4 DEF Injection, IsInjective
<1>6. f \in Surjection(1..n, S)
  BY <1>3, <1>5, FS_Injection DEF n
<1> QED BY <1>6 DEF Surjection, n

(* Counting what comes before an element finds its place.                  *)
LEMMA PlaceInSorting ==
    ASSUME NEW S, IsFiniteSet(S), NEW R, StrictTotal(R, S), NEW f \in Sortings(R, S),
           NEW k \in 1..Cardinality(S)
    PROVE  Cardinality({q \in S : <<q, f[k]>> \in R}) = k - 1
<1> DEFINE n == Cardinality(S)
           before == {q \in S : <<q, f[k]>> \in R}
           h == [j \in 1..(k - 1) |-> f[j]]
<1>1. n \in Nat /\ k \in 1..n /\ k - 1 \in Nat
  BY FS_CardinalityType
<1>2. \A q \in S : \E j \in 1..n : f[j] = q
  BY SortingCovers
<1>3. f \in [1..n -> S] /\ \A i, j \in 1..n : i < j => <<f[i], f[j]>> \in R
  BY DEF Sortings
<1> HIDE DEF n
<1>4. \A i, j \in 1..n : f[i] = f[j] => i = j
  <2>1. ASSUME NEW i \in 1..n, NEW j \in 1..n, f[i] = f[j] PROVE i = j
    <3>1. f[i] \in S /\ <<f[i], f[i]>> \notin R
      BY <1>3 DEF StrictTotal
    <3>2. ~(i < j) /\ ~(j < i)
      BY <1>3, <2>1, <3>1
    <3> QED BY <1>1, <3>2
  <2> QED BY <2>1
<1>5. \A j \in 1..n : <<f[j], f[k]>> \in R <=> j \in 1..(k - 1)
  <2>1. ASSUME NEW j \in 1..n, <<f[j], f[k]>> \in R PROVE j < k
    <3>1. f[j] \in S /\ f[k] \in S /\ j # k
      BY <1>1, <1>3, <2>1 DEF StrictTotal
    <3>2. ~(k < j)
      <4>1. SUFFICES ASSUME k < j PROVE FALSE
        OBVIOUS
      <4>2. <<f[k], f[j]>> \in R
        BY <1>1, <1>3, <4>1
      <4>3. <<f[k], f[k]>> \in R
        BY <2>1, <3>1, <4>2 DEF StrictTotal
      <4> QED BY <3>1, <4>3 DEF StrictTotal
    <3> QED BY <1>1, <3>1, <3>2
  <2>2. ASSUME NEW j \in 1..n, j < k PROVE <<f[j], f[k]>> \in R
    BY <1>1, <1>3, <2>2
  <2> QED BY <1>1, <2>1, <2>2
<1>6. \A j \in 1..(k - 1) : j \in 1..n
  BY <1>1
<1>7. h \in Bijection(1..(k - 1), before)
  <2>1. h \in [1..(k - 1) -> before]
    BY <1>3, <1>5, <1>6
  <2>2. \A i, j \in 1..(k - 1) : h[i] = h[j] => i = j
    BY <1>4, <1>6
  <2>3. \A q \in before : \E j \in 1..(k - 1) : h[j] = q
    BY <1>2, <1>5
  <2> HIDE DEF h, before
  <2> QED BY <2>1, <2>2, <2>3 DEF Bijection, Injection, Surjection, IsInjective
<1> HIDE DEF h, before
<1>8. IsFiniteSet(1..(k - 1)) /\ Cardinality(1..(k - 1)) = k - 1
  BY <1>1, FS_Interval
<1>9. Cardinality(before) = Cardinality(1..(k - 1))
  BY <1>7, <1>8, FS_Bijection DEF ExistsBijection
<1> QED BY <1>8, <1>9 DEF before

-----------------------------------------------------------------------------
(* Sums over a finite set do not depend on the order of their terms.       *)
AnyOf(s) == CHOOSE x \in s : TRUE

Adds(w, g, S) == g = [s \in SUBSET S |-> IF s = {} THEN 0 ELSE w[AnyOf(s)] + g[s \ {AnyOf(s)}]]

LEMMA SumIsFold ==
    ASSUME NEW w, NEW S
    PROVE  SumFunctionOnSet(w, S) = (CHOOSE g : Adds(w, g, S))[S]
BY DEF SumFunctionOnSet, FoldFunctionOnSet, MapThenFoldSet, Adds, AnyOf

Unfolds(w, S) ==
    SumFunctionOnSet(w, S) =
        IF S = {} THEN 0 ELSE w[AnyOf(S)] + SumFunctionOnSet(w, S \ {AnyOf(S)})

LEMMA SumUnfolds ==
    ASSUME NEW w, NEW S, IsFiniteSet(S)
    PROVE  Unfolds(w, S)
<1> DEFINE V(s) == SumFunctionOnSet(w, s)
           F == {T \in FiniteSubsetsOf(S) : ~Unfolds(w, T)}
<1>1. SUFFICES ASSUME ~Unfolds(w, S) PROVE FALSE
  OBVIOUS
<1>2. S \in F
  BY <1>1 DEF FiniteSubsetsOf
<1>3. PICK T \in F : \A U \in F : U \subseteq T => U = T
  <2>1. F \in SUBSET FiniteSubsetsOf(S) /\ F # {}
    BY <1>2
  <2> HIDE DEF F
  <2> QED BY <2>1, SmallestSet
<1>4. T \in SUBSET S /\ IsFiniteSet(T) /\ ~Unfolds(w, T)
  BY DEF FiniteSubsetsOf
<1>5. \A U \in SUBSET T : U # T => Unfolds(w, U)
  <2>1. \A U \in SUBSET T : U \in FiniteSubsetsOf(S)
    BY <1>4, FS_Subset DEF FiniteSubsetsOf
  <2> QED BY <1>3, <2>1
<1>6. T # {} => AnyOf(T) \in T
  BY DEF AnyOf
<1> HIDE DEF F
<1> DEFINE h == [s \in SUBSET T |->
                    IF s = T THEN IF T = {} THEN 0 ELSE w[AnyOf(T)] + V(T \ {AnyOf(T)}) ELSE V(s)]
<1>7. Adds(w, h, T)
  <2>1. ASSUME NEW s \in SUBSET T
        PROVE  h[s] = IF s = {} THEN 0 ELSE w[AnyOf(s)] + h[s \ {AnyOf(s)}]
    <3>1. CASE s = T
      <4>1. T # {} => h[T \ {AnyOf(T)}] = V(T \ {AnyOf(T)})
        BY <1>6
      <4> QED BY <3>1, <4>1
    <3>2. CASE s # T
      <4>1. V(s) = IF s = {} THEN 0 ELSE w[AnyOf(s)] + V(s \ {AnyOf(s)})
        BY <1>5, <3>2 DEF Unfolds
      <4>2. s \ {AnyOf(s)} # T /\ h[s \ {AnyOf(s)}] = V(s \ {AnyOf(s)}) /\ h[s] = V(s)
        BY <3>2
      <4> HIDE DEF h, V
      <4> QED BY <4>1, <4>2
    <3> QED BY <3>1, <3>2
  <2>2. h = [s \in SUBSET T |-> h[s]]
    OBVIOUS
  <2> HIDE DEF h
  <2> QED BY <2>1, <2>2 DEF Adds
<1> DEFINE g == CHOOSE f : Adds(w, f, T)
<1>8. Adds(w, g, T)
  BY <1>7
<1>9. V(T) = g[T]
  BY SumIsFold
<1> HIDE DEF g, h
<1>10. \A s \in SUBSET T : g[s] = IF s = {} THEN 0 ELSE w[AnyOf(s)] + g[s \ {AnyOf(s)}]
  BY <1>8 DEF Adds
<1> DEFINE G == {s \in FiniteSubsetsOf(T) : s # T /\ g[s] # V(s)}
<1>11. G = {}
  <2>1. SUFFICES ASSUME G # {} PROVE FALSE
    OBVIOUS
  <2>2. PICK s \in G : \A u \in G : u \subseteq s => u = s
    <3>1. G \in SUBSET FiniteSubsetsOf(T)
      OBVIOUS
    <3> HIDE DEF G
    <3> QED BY <2>1, <3>1, SmallestSet
  <2>3. s \in SUBSET T /\ s # T /\ g[s] # V(s) /\ IsFiniteSet(s)
    BY DEF FiniteSubsetsOf
  <2>4. V(s) = IF s = {} THEN 0 ELSE w[AnyOf(s)] + V(s \ {AnyOf(s)})
    BY <1>5, <2>3 DEF Unfolds
  <2>5. s # {} => g[s \ {AnyOf(s)}] = V(s \ {AnyOf(s)})
    <3>1. SUFFICES ASSUME s # {} PROVE g[s \ {AnyOf(s)}] = V(s \ {AnyOf(s)})
      OBVIOUS
    <3>2. AnyOf(s) \in s
      BY <3>1 DEF AnyOf
    <3>3. s \ {AnyOf(s)} \in FiniteSubsetsOf(T) /\ s \ {AnyOf(s)} # T /\ s \ {AnyOf(s)} # s
      BY <2>3, <3>2, FS_Subset DEF FiniteSubsetsOf
    <3>4. s \ {AnyOf(s)} \notin G
      BY <2>2, <3>3
    <3> QED BY <3>3, <3>4
  <2> HIDE DEF G, V
  <2> QED BY <1>10, <2>3, <2>4, <2>5
<1>12. T # {} => g[T \ {AnyOf(T)}] = V(T \ {AnyOf(T)})
  <2>1. SUFFICES ASSUME T # {} PROVE g[T \ {AnyOf(T)}] = V(T \ {AnyOf(T)})
    OBVIOUS
  <2>2. T \ {AnyOf(T)} \in FiniteSubsetsOf(T) /\ T \ {AnyOf(T)} # T
    BY <1>4, <1>6, <2>1, FS_Subset DEF FiniteSubsetsOf
  <2> QED BY <1>11, <2>2
<1> HIDE DEF V, G
<1>13. V(T) = IF T = {} THEN 0 ELSE w[AnyOf(T)] + V(T \ {AnyOf(T)})
  BY <1>9, <1>10, <1>12
<1> QED BY <1>4, <1>13 DEF Unfolds, V

LEMMA SumStaysIn ==
    ASSUME NEW S, IsFiniteSet(S), NEW w, NEW N \in {Nat, Int}, \A x \in S : w[x] \in N
    PROVE  SumFunctionOnSet(w, S) \in N
<1> DEFINE V(s) == SumFunctionOnSet(w, s)
           F == {T \in FiniteSubsetsOf(S) : V(T) \notin N}
<1>1. SUFFICES ASSUME V(S) \notin N PROVE FALSE
  OBVIOUS
<1>2. S \in F
  BY <1>1 DEF FiniteSubsetsOf
<1>3. PICK T \in F : \A U \in F : U \subseteq T => U = T
  <2>1. F \in SUBSET FiniteSubsetsOf(S) /\ F # {}
    BY <1>2
  <2> HIDE DEF F
  <2> QED BY <2>1, SmallestSet
<1>4. T \in SUBSET S /\ IsFiniteSet(T) /\ V(T) \notin N
  BY DEF FiniteSubsetsOf
<1>5. V(T) = IF T = {} THEN 0 ELSE w[AnyOf(T)] + V(T \ {AnyOf(T)})
  BY <1>4, SumUnfolds DEF Unfolds
<1> HIDE DEF V
<1>6. T # {} => w[AnyOf(T)] \in N /\ V(T \ {AnyOf(T)}) \in N
  <2>1. SUFFICES ASSUME T # {} PROVE w[AnyOf(T)] \in N /\ V(T \ {AnyOf(T)}) \in N
    OBVIOUS
  <2>2. AnyOf(T) \in T
    BY <2>1 DEF AnyOf
  <2>3. T \ {AnyOf(T)} \in FiniteSubsetsOf(S) /\ T \ {AnyOf(T)} # T
    BY <1>4, <2>2, FS_Subset DEF FiniteSubsetsOf
  <2> QED BY <1>3, <1>4, <2>2, <2>3
<1>7. 0 \in N /\ \A m, n \in N : m + n \in N
  <2>1. N = Nat \/ N = Int
    OBVIOUS
  <2> QED BY <2>1
<1> QED BY <1>4, <1>5, <1>6, <1>7

(* Any term may be taken out first.                                        *)
LEMMA SumSplits ==
    ASSUME NEW S, IsFiniteSet(S), NEW w, \A x \in S : w[x] \in Int, NEW x \in S
    PROVE  SumFunctionOnSet(w, S) = w[x] + SumFunctionOnSet(w, S \ {x})
<1> DEFINE V(s) == SumFunctionOnSet(w, s)
           Bad(T) == \E y \in T : V(T) # w[y] + V(T \ {y})
           F == {T \in FiniteSubsetsOf(S) : Bad(T)}
<1>1. SUFFICES ASSUME Bad(S) PROVE FALSE
  OBVIOUS
<1>2. S \in F
  BY <1>1 DEF FiniteSubsetsOf
<1>3. PICK T \in F : \A U \in F : U \subseteq T => U = T
  <2>1. F \in SUBSET FiniteSubsetsOf(S) /\ F # {}
    BY <1>2
  <2> HIDE DEF F
  <2> QED BY <2>1, SmallestSet
<1>4. T \in SUBSET S /\ IsFiniteSet(T) /\ Bad(T)
  BY DEF FiniteSubsetsOf
<1>5. PICK y \in T : V(T) # w[y] + V(T \ {y})
  BY <1>4
<1> DEFINE c == AnyOf(T)
<1>6. c \in T
  BY <1>5 DEF AnyOf
<1>7. V(T) = w[c] + V(T \ {c})
  BY <1>4, <1>5, SumUnfolds DEF Unfolds
<1>8. y # c
  BY <1>5, <1>7
<1> HIDE DEF c
<1>9. \A U \in SUBSET T : U # T => ~Bad(U)
  <2>1. \A U \in SUBSET T : U \in FiniteSubsetsOf(S)
    BY <1>4, FS_Subset DEF FiniteSubsetsOf
  <2> QED BY <1>3, <2>1
<1>10. V(T \ {c}) = w[y] + V((T \ {c}) \ {y})
  <2>1. ~Bad(T \ {c}) /\ y \in T \ {c}
    BY <1>6, <1>8, <1>9
  <2> QED BY <2>1
<1>11. V(T \ {y}) = w[c] + V((T \ {y}) \ {c})
  <2>1. ~Bad(T \ {y}) /\ c \in T \ {y}
    BY <1>6, <1>8, <1>9
  <2> QED BY <2>1
<1>12. (T \ {y}) \ {c} = (T \ {c}) \ {y}
  OBVIOUS
<1>13. w[y] \in Int /\ w[c] \in Int /\ V((T \ {c}) \ {y}) \in Int
  <2>1. IsFiniteSet((T \ {c}) \ {y}) /\ \A z \in (T \ {c}) \ {y} : w[z] \in Int
    BY <1>4, FS_Subset
  <2> QED BY <1>4, <1>6, <2>1, SumStaysIn
<1>14. V(T \ {y}) = w[c] + V((T \ {c}) \ {y})
  BY <1>11, <1>12
<1> DEFINE rest == V((T \ {c}) \ {y})
<1>15. w[y] \in Int /\ w[c] \in Int /\ rest \in Int /\ V(T) # w[y] + (w[c] + rest) /\ V(T) = w[c] + (w[y] + rest)
  BY <1>5, <1>7, <1>10, <1>13, <1>14
<1> HIDE DEF V, rest
<1> QED BY <1>15

(* Only the values on the set count.                                       *)
LEMMA SumsAgree ==
    ASSUME NEW S, IsFiniteSet(S), NEW v, NEW w, \A x \in S : v[x] = w[x]
    PROVE  SumFunctionOnSet(v, S) = SumFunctionOnSet(w, S)
<1> DEFINE V(s) == SumFunctionOnSet(v, s)
           W(s) == SumFunctionOnSet(w, s)
           F == {T \in FiniteSubsetsOf(S) : V(T) # W(T)}
<1>1. SUFFICES ASSUME V(S) # W(S) PROVE FALSE
  OBVIOUS
<1>2. S \in F
  BY <1>1 DEF FiniteSubsetsOf
<1>3. PICK T \in F : \A U \in F : U \subseteq T => U = T
  <2>1. F \in SUBSET FiniteSubsetsOf(S) /\ F # {}
    BY <1>2
  <2> HIDE DEF F
  <2> QED BY <2>1, SmallestSet
<1>4. T \in SUBSET S /\ IsFiniteSet(T) /\ V(T) # W(T)
  BY DEF FiniteSubsetsOf
<1>5. /\ V(T) = IF T = {} THEN 0 ELSE v[AnyOf(T)] + V(T \ {AnyOf(T)})
      /\ W(T) = IF T = {} THEN 0 ELSE w[AnyOf(T)] + W(T \ {AnyOf(T)})
  BY <1>4, SumUnfolds DEF Unfolds
<1>6. T # {} => v[AnyOf(T)] = w[AnyOf(T)] /\ V(T \ {AnyOf(T)}) = W(T \ {AnyOf(T)})
  <2>1. SUFFICES ASSUME T # {} PROVE v[AnyOf(T)] = w[AnyOf(T)] /\ V(T \ {AnyOf(T)}) = W(T \ {AnyOf(T)})
    OBVIOUS
  <2>2. AnyOf(T) \in T
    BY <2>1 DEF AnyOf
  <2>3. T \ {AnyOf(T)} \in FiniteSubsetsOf(S) /\ T \ {AnyOf(T)} # T
    BY <1>4, <2>2, FS_Subset DEF FiniteSubsetsOf
  <2> QED BY <1>3, <1>4, <2>2, <2>3
<1> HIDE DEF V, W
<1> QED BY <1>4, <1>5, <1>6

(* A sum of which no term is more than the terms of another, each of which *)
(* is used no more than once.                                              *)
LEMMA SumInjected ==
    ASSUME NEW S, IsFiniteSet(S), NEW v, \A x \in S : v[x] \in Int,
           NEW R, IsFiniteSet(R), NEW w, \A y \in R : w[y] \in Nat,
           NEW h \in [S -> R], \A x, y \in S : h[x] = h[y] => x = y,
           \A x \in S : v[x] <= w[h[x]]
    PROVE  SumFunctionOnSet(v, S) <= SumFunctionOnSet(w, R)
<1> DEFINE V(s) == SumFunctionOnSet(v, s)
           W(s) == SumFunctionOnSet(w, s)
           F == {T \in FiniteSubsetsOf(S) : \E Q \in SUBSET R : (\A x \in T : h[x] \in Q) /\ ~(V(T) <= W(Q))}
<1>1. SUFFICES ASSUME ~(V(S) <= W(R)) PROVE FALSE
  OBVIOUS
<1>2. S \in F
  BY <1>1 DEF FiniteSubsetsOf
<1>3. PICK T \in F : \A U \in F : U \subseteq T => U = T
  <2>1. F \in SUBSET FiniteSubsetsOf(S) /\ F # {}
    BY <1>2
  <2> HIDE DEF F
  <2> QED BY <2>1, SmallestSet
<1>4. T \in SUBSET S /\ IsFiniteSet(T)
  BY DEF FiniteSubsetsOf
<1>5. PICK Q \in SUBSET R : (\A x \in T : h[x] \in Q) /\ ~(V(T) <= W(Q))
  BY <1>3
<1>6. IsFiniteSet(Q) /\ \A y \in Q : w[y] \in Nat
  BY <1>5, FS_Subset
<1>7. CASE T = {}
  <2>1. V(T) = 0
    BY <1>4, <1>7, SumUnfolds DEF Unfolds
  <2>2. W(Q) \in Nat
    BY <1>6, SumStaysIn
  <2> HIDE DEF V, W
  <2> QED BY <1>5, <2>1, <2>2
<1>8. CASE T # {}
  <2>1. PICK x \in T : TRUE
    BY <1>8
  <2> DEFINE y == h[x]
             U == T \ {x}
             P == Q \ {y}
  <2>2. x \in S /\ y \in Q
    BY <1>4, <1>5
  <2>3. V(T) = v[x] + V(U)
    BY <1>4, SumSplits
  <2>4. W(Q) = w[y] + W(P)
    <3>1. \A z \in Q : w[z] \in Int
      BY <1>6
    <3> QED BY <1>6, <2>2, <3>1, SumSplits
  <2>5. v[x] <= w[y] /\ v[x] \in Int /\ w[y] \in Int
    BY <1>6, <2>2
  <2>6. V(U) <= W(P)
    <3>1. U \in FiniteSubsetsOf(S) /\ U # T /\ U \subseteq T
      BY <1>4, FS_Subset DEF FiniteSubsetsOf
    <3>2. U \notin F
      BY <1>3, <3>1
    <3>3. P \in SUBSET R /\ \A z \in U : h[z] \in P
      BY <1>4, <1>5, <2>2
    <3> QED BY <3>1, <3>2, <3>3
  <2>7. V(U) \in Int /\ W(P) \in Int
    <3>1. IsFiniteSet(U) /\ IsFiniteSet(P) /\ (\A z \in U : v[z] \in Int) /\ (\A z \in P : w[z] \in Int)
      BY <1>4, <1>6, FS_Subset
    <3> QED BY <3>1, SumStaysIn
  <2> HIDE DEF V, W, U, P, y
  <2> QED BY <1>5, <2>3, <2>4, <2>5, <2>6, <2>7
<1> QED BY <1>7, <1>8

LEMMA SumOfParts ==
    ASSUME NEW S, IsFiniteSet(S), NEW w, \A x \in S : w[x] \in Int, NEW P \in SUBSET S
    PROVE  SumFunctionOnSet(w, S) = SumFunctionOnSet(w, P) + SumFunctionOnSet(w, S \ P)
<1> DEFINE V(s) == SumFunctionOnSet(w, s)
           F == {Q \in FiniteSubsetsOf(P) : V(Q \cup (S \ P)) # V(Q) + V(S \ P)}
<1>1. SUFFICES ASSUME V(S) # V(P) + V(S \ P) PROVE FALSE
  OBVIOUS
<1>2. P \in F
  <2>1. P \cup (S \ P) = S /\ P \in FiniteSubsetsOf(P)
    BY FS_Subset DEF FiniteSubsetsOf
  <2> QED BY <1>1, <2>1
<1>3. PICK Q \in F : \A U \in F : U \subseteq Q => U = Q
  <2>1. F \in SUBSET FiniteSubsetsOf(P) /\ F # {}
    BY <1>2
  <2> HIDE DEF F
  <2> QED BY <2>1, SmallestSet
<1>4. Q \in SUBSET P /\ IsFiniteSet(Q) /\ V(Q \cup (S \ P)) # V(Q) + V(S \ P)
  BY DEF FiniteSubsetsOf
<1>5. \A T \in SUBSET S : IsFiniteSet(T) /\ (\A x \in T : w[x] \in Int) /\ V(T) \in Int
  <2>1. ASSUME NEW T \in SUBSET S PROVE IsFiniteSet(T) /\ (\A x \in T : w[x] \in Int) /\ V(T) \in Int
    <3>1. IsFiniteSet(T) /\ \A x \in T : w[x] \in Int
      BY FS_Subset
    <3> QED BY <3>1, SumStaysIn
  <2> QED BY <2>1
<1>6. CASE Q = {}
  <2>1. V(Q) = 0 /\ Q \cup (S \ P) = S \ P
    BY <1>4, <1>6, SumUnfolds DEF Unfolds
  <2>2. V(S \ P) \in Int /\ V(Q \cup (S \ P)) = V(S \ P)
    BY <1>5, <2>1
  <2>3. V(S \ P) # 0 + V(S \ P)
    BY <1>4, <2>1, <2>2
  <2> HIDE DEF V
  <2> QED BY <2>2, <2>3
<1>7. CASE Q # {}
  <2>1. PICK x \in Q : TRUE
    BY <1>7
  <2> DEFINE U == Q \ {x}
  <2>2. Q \in SUBSET S /\ U \in SUBSET S /\ Q \cup (S \ P) \in SUBSET S /\ x \in S /\ x \notin S \ P
    BY <1>4, <2>1
  <2>3. V(Q) = w[x] + V(U)
    BY <1>5, <2>2, SumSplits
  <2>4. V(Q \cup (S \ P)) = w[x] + V(U \cup (S \ P))
    <3>1. (Q \cup (S \ P)) \ {x} = U \cup (S \ P) /\ x \in Q \cup (S \ P)
      BY <2>2
    <3>2. V(Q \cup (S \ P)) = w[x] + V((Q \cup (S \ P)) \ {x})
      BY <1>5, <2>2, <3>1, SumSplits
    <3> QED BY <3>1, <3>2
  <2>5. V(U \cup (S \ P)) = V(U) + V(S \ P)
    <3>1. U \in FiniteSubsetsOf(P) /\ U # Q /\ U \subseteq Q
      BY <1>4, FS_Subset DEF FiniteSubsetsOf
    <3>2. U \notin F
      BY <1>3, <3>1
    <3> QED BY <3>1, <3>2
  <2>6. w[x] \in Int /\ V(U) \in Int /\ V(S \ P) \in Int
    BY <1>5, <2>2
  <2> HIDE DEF V, U
  <2>7. V(Q) + V(S \ P) = w[x] + (V(U) + V(S \ P))
    BY <2>3, <2>6
  <2> QED BY <1>4, <2>4, <2>5, <2>7
<1> QED BY <1>6, <1>7

=============================================================================
