--------------------------- MODULE RegistryProofs ----------------------------
(* Proofs about SequencerRegistry for every value of its constants, after  *)
(* lemmas on sums; at the end, what each call of YieldRouter does, for the *)
(* proofs of the modules that compose it.                                  *)
EXTENDS SequencerRegistry, YieldRouter, SequenceTheorems, FiniteSetTheorems, NaturalsInduction,
        WellFoundedInduction, TLAPS

-----------------------------------------------------------------------------
(* Sums over finite sets, which the invariants of several parts are about. *)
(* The function inside of MapThenSumSet is recursive: that it exists, and  *)
(* that the order does not matter, is shown by a least counterexample.     *)

(* h is the function that MapThenSumSet builds over the subsets of S.      *)
IsSum(h, g, S) ==
    h = [s \in SUBSET S |-> IF s = {} THEN 0
                            ELSE LET x == CHOOSE x \in s : TRUE IN g[x] + h[s \ {x}]]

(* The sum of the values of g over S.                                      *)
Total(g, S) == (CHOOSE h : IsSum(h, g, S))[S]

(* Total is what MapThenSumSet computes.                                   *)
LEMMA TotalIsMapThenSum ==
    ASSUME NEW g, NEW S
    PROVE  MapThenSumSet(LAMBDA x : g[x], S) = Total(g, S)
BY DEF MapThenSumSet, MapThenFoldSet, IsSum, Total

(* Every nonempty set of numbers has a least element.                      *)
LEMMA LeastNumber ==
    ASSUME NEW N \in SUBSET Nat, N # {}
    PROVE  \E n \in N : \A m \in N : n <= m
<1>1. PICK n \in N : \A m \in N : <<m, n>> \notin OpToRel(<, Nat)
  BY NatLessThanWellFounded, WFMin
<1>2. \A m \in N : ~(m < n)
  BY <1>1 DEF OpToRel
<1> QED BY <1>2

(* The function exists for a finite set.                                   *)
LEMMA SumExists ==
    ASSUME NEW S, IsFiniteSet(S), NEW g, \A x \in S : g[x] \in Nat
    PROVE  \E h \in [SUBSET S -> Nat] : IsSum(h, g, S)
<1> DEFINE first(s) == CHOOSE x \in s : TRUE
           Small(n) == {s \in SUBSET S : Cardinality(s) <= n}
           Good(h, n) == \A s \in Small(n) :
                             h[s] = IF s = {} THEN 0 ELSE g[first(s)] + h[s \ {first(s)}]
           Has(n) == \E h \in [Small(n) -> Nat] : Good(h, n)
           Bad == {n \in Nat : ~Has(n)}
<1>1. \A s \in SUBSET S : /\ IsFiniteSet(s) /\ Cardinality(s) \in Nat
                          /\ Cardinality(s) <= Cardinality(S)
  BY FS_Subset, FS_CardinalityType
<1>2. \A s \in SUBSET S : s # {} => /\ first(s) \in s
                                    /\ s \ {first(s)} \in SUBSET S
                                    /\ Cardinality(s \ {first(s)}) = Cardinality(s) - 1
  <2>1. \A s \in SUBSET S : s # {} => first(s) \in s
    OBVIOUS
  <2> HIDE DEF first
  <2>2. \A s \in SUBSET S : s # {} => Cardinality(s \ {first(s)}) = Cardinality(s) - 1
    BY <1>1, <2>1, FS_RemoveElement
  <2> QED BY <2>1, <2>2
<1>3. \A s \in SUBSET S : Cardinality(s) = 0 <=> s = {}
  BY <1>1, FS_EmptySet
<1> HIDE DEF first
<1>4. Has(0)
  <2>1. [s \in Small(0) |-> 0] \in [Small(0) -> Nat] /\ \A s \in Small(0) : s = {}
    BY <1>1, <1>3
  <2> QED BY <2>1
<1>5. ASSUME NEW n \in Nat, Has(n) PROVE Has(n + 1)
  <2>1. PICK h \in [Small(n) -> Nat] : Good(h, n)
    BY <1>5
  <2> DEFINE k == [s \in Small(n + 1) |-> IF s = {} THEN 0 ELSE g[first(s)] + h[s \ {first(s)}]]
  <2>2. \A s \in Small(n + 1) : s # {} => s \ {first(s)} \in Small(n) /\ first(s) \in S
    BY <1>1, <1>2
  <2>3. k \in [Small(n + 1) -> Nat]
    BY <2>1, <2>2
  <2>4. \A s \in Small(n) : s \in Small(n + 1)
    BY <1>1
  <2>5. \A s \in Small(n) : k[s] = h[s]
    BY <2>1, <2>4
  <2>6. Good(k, n + 1)
    <3> SUFFICES ASSUME NEW s \in Small(n + 1)
                 PROVE  k[s] = IF s = {} THEN 0 ELSE g[first(s)] + k[s \ {first(s)}]
      OBVIOUS
    <3>1. s # {} => k[s \ {first(s)}] = h[s \ {first(s)}]
      BY <2>2, <2>5
    <3>2. k[s] = IF s = {} THEN 0 ELSE g[first(s)] + h[s \ {first(s)}]
      OBVIOUS
    <3> HIDE DEF k
    <3> QED BY <3>1, <3>2
  <2> HIDE DEF k, Good, Small
  <2> QED BY <2>3, <2>6
<1>6. Bad = {}
  <2>1. SUFFICES ASSUME Bad # {} PROVE FALSE
    OBVIOUS
  <2> HIDE DEF Has
  <2>2. PICK n \in Bad : \A m \in Bad : n <= m
    BY <2>1, LeastNumber
  <2>3. n # 0
    BY <1>4, <2>2
  <2>4. n - 1 \in Nat /\ n - 1 \notin Bad
    BY <2>2, <2>3
  <2>5. Has(n - 1 + 1)
    BY <1>5, <2>4
  <2> QED BY <2>2, <2>5
<1>7. Cardinality(S) \in Nat /\ Small(Cardinality(S)) = SUBSET S
  BY <1>1, FS_CardinalityType
<1>8. PICK h \in [SUBSET S -> Nat] : Good(h, Cardinality(S))
  BY <1>6, <1>7
<1>9. IsSum(h, g, S)
  BY <1>7, <1>8 DEF IsSum, first
<1> QED BY <1>9

(* Any element can be taken out first.                                     *)
LEMMA SumTakesOut ==
    ASSUME NEW S, IsFiniteSet(S), NEW g, \A x \in S : g[x] \in Nat,
           NEW h \in [SUBSET S -> Nat], IsSum(h, g, S), NEW y \in S
    PROVE  h[S] = g[y] + h[S \ {y}]
<1> SUFFICES \A s \in SUBSET S : \A z \in s : h[s] = g[z] + h[s \ {z}]
  <2>1. S \in SUBSET S
    OBVIOUS
  <2> QED BY <2>1
<1> DEFINE first(s) == CHOOSE x \in s : TRUE
           Wrong(s) == \E z \in s : h[s] # g[z] + h[s \ {z}]
           Bad == {Cardinality(s) : s \in {s \in SUBSET S : Wrong(s)}}
<1>1. \A s \in SUBSET S : IsFiniteSet(s) /\ Cardinality(s) \in Nat
  BY FS_Subset, FS_CardinalityType
<1>2. \A s \in SUBSET S : s # {} => first(s) \in s /\ h[s] = g[first(s)] + h[s \ {first(s)}]
  BY DEF IsSum
<1> HIDE DEF first
<1>3. SUFFICES ASSUME Bad # {} PROVE FALSE
  OBVIOUS
<1>4. Bad \subseteq Nat
  BY <1>1
<1>5. PICK n \in Bad : \A m \in Bad : n <= m
  <2> HIDE DEF Bad
  <2> QED BY <1>3, <1>4, LeastNumber
<1>6. PICK s \in SUBSET S : Wrong(s) /\ Cardinality(s) = n
  BY <1>5
<1>7. PICK z \in s : h[s] # g[z] + h[s \ {z}]
  BY <1>6
<1> DEFINE x == first(s)
<1>8. x \in s /\ x # z /\ h[s] = g[x] + h[s \ {x}]
  BY <1>2, <1>7
<1> HIDE DEF x
<1>9. /\ Cardinality(s \ {x}) = n - 1 /\ Cardinality(s \ {z}) = n - 1
      /\ n \in Nat
  BY <1>1, <1>4, <1>5, <1>6, <1>7, <1>8, FS_RemoveElement
<1>10. ~Wrong(s \ {x}) /\ ~Wrong(s \ {z})
  <2>1. ASSUME NEW r \in SUBSET S, Cardinality(r) = n - 1 PROVE ~Wrong(r)
    <3> HIDE DEF Wrong
    <3>1. n - 1 \notin Bad
      BY <1>4, <1>5, <1>9
    <3> QED BY <2>1, <3>1
  <2> HIDE DEF Wrong
  <2> QED BY <1>9, <2>1
<1>11. h[s \ {x}] = g[z] + h[(s \ {x}) \ {z}] /\ h[s \ {z}] = g[x] + h[(s \ {z}) \ {x}]
  BY <1>7, <1>8, <1>10
<1>12. (s \ {x}) \ {z} = (s \ {z}) \ {x}
  OBVIOUS
<1>13. g[x] \in Nat /\ g[z] \in Nat /\ h[(s \ {z}) \ {x}] \in Nat
  <2>1. (s \ {z}) \ {x} \in SUBSET S
    OBVIOUS
  <2> QED BY <1>7, <1>8, <2>1
<1> DEFINE d == h[(s \ {z}) \ {x}]
<1>14. h[s \ {x}] = g[z] + d /\ h[s \ {z}] = g[x] + d /\ d \in Nat
  BY <1>11, <1>12, <1>13
<1> HIDE DEF d
<1>15. h[s] = g[x] + (g[z] + d)
  BY <1>8, <1>14
<1> QED BY <1>7, <1>13, <1>14, <1>15

(* Sums of functions that agree agree.                                     *)
LEMMA SumsAgree ==
    ASSUME NEW S, IsFiniteSet(S), NEW T, S \subseteq T, NEW g, NEW f,
           \A x \in S : g[x] \in Nat /\ f[x] = g[x],
           NEW h, IsSum(h, g, S), NEW k, IsSum(k, f, T)
    PROVE  \A s \in SUBSET S : h[s] = k[s]
<1> DEFINE first(s) == CHOOSE x \in s : TRUE
           Bad == {Cardinality(s) : s \in {s \in SUBSET S : h[s] # k[s]}}
<1>1. \A s \in SUBSET S : IsFiniteSet(s) /\ Cardinality(s) \in Nat
  BY FS_Subset, FS_CardinalityType
<1>2. \A s \in SUBSET S : s # {} => /\ first(s) \in s
                                    /\ h[s] = g[first(s)] + h[s \ {first(s)}]
                                    /\ k[s] = f[first(s)] + k[s \ {first(s)}]
  <2>1. SUBSET S \subseteq SUBSET T
    OBVIOUS
  <2> QED BY <2>1 DEF IsSum
<1>3. h[{}] = k[{}]
  BY DEF IsSum
<1> HIDE DEF first
<1>4. SUFFICES ASSUME Bad # {} PROVE FALSE
  OBVIOUS
<1>5. Bad \subseteq Nat
  BY <1>1
<1>6. PICK n \in Bad : \A m \in Bad : n <= m
  <2> HIDE DEF Bad
  <2> QED BY <1>4, <1>5, LeastNumber
<1>7. PICK s \in SUBSET S : h[s] # k[s] /\ Cardinality(s) = n
  BY <1>6
<1>8. s # {}
  BY <1>3, <1>7
<1> DEFINE x == first(s)
<1>9. x \in s /\ h[s] = g[x] + h[s \ {x}] /\ k[s] = f[x] + k[s \ {x}]
  BY <1>2, <1>8
<1> HIDE DEF x
<1>10. Cardinality(s \ {x}) = n - 1 /\ n \in Nat
  BY <1>1, <1>5, <1>6, <1>7, <1>9, FS_RemoveElement
<1>11. h[s \ {x}] = k[s \ {x}]
  BY <1>6, <1>10
<1> QED BY <1>7, <1>9, <1>11

(* Total is any such function at S.                                        *)
LEMMA TotalIsSum ==
    ASSUME NEW S, IsFiniteSet(S), NEW g, \A x \in S : g[x] \in Nat
    PROVE  /\ IsSum(CHOOSE h : IsSum(h, g, S), g, S)
           /\ Total(g, S) \in Nat
           /\ \A h : IsSum(h, g, S) => h \in [SUBSET S -> Nat] /\ h[S] = Total(g, S)
<1>1. PICK k \in [SUBSET S -> Nat] : IsSum(k, g, S)
  BY SumExists
<1>2. ASSUME NEW h, IsSum(h, g, S) PROVE h = k
  <2>1. \A s \in SUBSET S : k[s] = h[s]
    BY <1>1, <1>2, SumsAgree
  <2>2. h = [s \in SUBSET S |-> h[s]] /\ k = [s \in SUBSET S |-> k[s]]
    BY <1>1, <1>2 DEF IsSum
  <2> QED BY <2>1, <2>2
<1>3. (CHOOSE h : IsSum(h, g, S)) = k
  BY <1>1, <1>2
<1> QED BY <1>1, <1>2, <1>3 DEF Total

(* One element is taken out of the sum.                                    *)
LEMMA TotalOfFewer ==
    ASSUME NEW T, IsFiniteSet(T), NEW g, \A x \in T : g[x] \in Nat, NEW y \in T
    PROVE  Total(g, T) = g[y] + Total(g, T \ {y})
<1>1. PICK k \in [SUBSET T -> Nat] : IsSum(k, g, T)
  BY SumExists
<1>2. k[T] = Total(g, T)
  BY <1>1, TotalIsSum
<1>3. k[T] = g[y] + k[T \ {y}]
  BY <1>1, SumTakesOut
<1> DEFINE S == T \ {y}
<1>4. IsFiniteSet(S) /\ S \subseteq T /\ \A x \in S : g[x] \in Nat
  BY FS_RemoveElement
<1> HIDE DEF S
<1>5. PICK h \in [SUBSET S -> Nat] : IsSum(h, g, S)
  BY <1>4, SumExists
<1>6. h[S] = Total(g, S)
  BY <1>4, <1>5, TotalIsSum
<1>7. h[S] = k[S]
  BY <1>1, <1>4, <1>5, SumsAgree
<1> QED BY <1>2, <1>3, <1>6, <1>7 DEF S

(* The sum over one more.                                                  *)
LEMMA TotalOfMore ==
    ASSUME NEW S, IsFiniteSet(S), NEW g, NEW y, y \notin S,
           \A x \in S \cup {y} : g[x] \in Nat
    PROVE  Total(g, S \cup {y}) = g[y] + Total(g, S)
<1> DEFINE T == S \cup {y}
<1>1. /\ IsFiniteSet(T) /\ y \in T /\ T \ {y} = S
      /\ \A x \in T : g[x] \in Nat
  BY FS_AddElement
<1> HIDE DEF T
<1>2. Total(g, T) = g[y] + Total(g, T \ {y})
  BY <1>1, TotalOfFewer
<1> QED BY <1>1, <1>2 DEF T

(* The sum over nothing.                                                   *)
LEMMA TotalOfNothing == ASSUME NEW g PROVE Total(g, {}) = 0
<1> DEFINE k == CHOOSE h : IsSum(h, g, {})
<1>1. IsSum(k, g, {})
  BY TotalIsSum, FS_EmptySet
<1> HIDE DEF k
<1>2. k[{}] = 0
  BY <1>1 DEF IsSum
<1> QED BY <1>2 DEF Total, k

(* Functions that agree on S have one sum over it.                         *)
LEMMA TotalOfSame ==
    ASSUME NEW S, IsFiniteSet(S), NEW g, NEW f, \A x \in S : g[x] \in Nat /\ f[x] = g[x]
    PROVE  Total(f, S) = Total(g, S)
<1> DEFINE k == CHOOSE h : IsSum(h, g, S)
           h == CHOOSE h : IsSum(h, f, S)
<1>1. IsSum(k, g, S) /\ k[S] = Total(g, S)
  BY TotalIsSum
<1>2. \A x \in S : f[x] \in Nat
  OBVIOUS
<1>3. IsSum(h, f, S) /\ h[S] = Total(f, S)
  BY <1>2, TotalIsSum
<1> HIDE DEF k, h
<1> QED BY <1>1, <1>3, SumsAgree

(* One value changes.                                                      *)
LEMMA TotalOfChange ==
    ASSUME NEW S, IsFiniteSet(S), NEW g, NEW f, NEW y \in S,
           \A x \in S : g[x] \in Nat /\ f[x] \in Nat /\ (x # y => f[x] = g[x])
    PROVE  Total(f, S) = Total(g, S) - g[y] + f[y]
<1> DEFINE R == S \ {y}
<1>1. IsFiniteSet(R) /\ R \cup {y} = S /\ y \notin R
  BY FS_RemoveElement
<1> HIDE DEF R
<1>2. Total(f, S) = f[y] + Total(f, R) /\ Total(g, S) = g[y] + Total(g, R)
  BY <1>1, TotalOfMore
<1>3. Total(f, R) = Total(g, R) /\ Total(g, R) \in Nat
  BY <1>1, TotalOfSame, TotalIsSum DEF R
<1> QED BY <1>2, <1>3

(* Values within b sum up to at most b for each element.                   *)
LEMMA TotalWithin ==
    ASSUME NEW S, IsFiniteSet(S), NEW g, NEW b \in Nat, \A x \in S : g[x] \in Nat /\ g[x] <= b
    PROVE  Total(g, S) <= Cardinality(S) * b
<1> DEFINE Over(s) == ~(Total(g, s) <= Cardinality(s) * b)
           Bad == {Cardinality(s) : s \in {s \in SUBSET S : Over(s)}}
<1>1. \A s \in SUBSET S : IsFiniteSet(s) /\ Cardinality(s) \in Nat
  BY FS_Subset, FS_CardinalityType
<1>2. SUFFICES ASSUME Bad # {} PROVE FALSE
  BY <1>1
<1>3. Bad \subseteq Nat
  BY <1>1
<1>4. PICK n \in Bad : \A m \in Bad : n <= m
  <2> HIDE DEF Bad
  <2> QED BY <1>2, <1>3, LeastNumber
<1>5. PICK s \in SUBSET S : Over(s) /\ Cardinality(s) = n
  BY <1>4
<1>6. n \in Nat /\ n - 1 \notin Bad
  <2> HIDE DEF Bad
  <2> QED BY <1>3, <1>4
<1>7. s # {}
  <2>1. Total(g, {}) = 0 /\ Cardinality({}) = 0 /\ 0 * b = 0
    BY TotalOfNothing, FS_EmptySet
  <2> QED BY <1>5, <2>1
<1>8. PICK x \in s : TRUE
  BY <1>7
<1> DEFINE r == s \ {x}
<1>9. /\ r \in SUBSET S /\ IsFiniteSet(r) /\ Cardinality(r) = n - 1 /\ n - 1 \in Nat
      /\ r \cup {x} = s /\ x \notin r
  BY <1>1, <1>5, <1>8, FS_RemoveElement
<1> HIDE DEF r
<1>10. ~Over(r)
  <2> HIDE DEF Over
  <2> QED BY <1>6, <1>9
<1>11. Total(g, s) = g[x] + Total(g, r) /\ Total(g, r) \in Nat /\ g[x] \in Nat /\ g[x] <= b
  BY <1>5, <1>8, <1>9, TotalOfMore, TotalIsSum
<1> DEFINE m == n - 1
<1>12. m \in Nat /\ m + 1 = n
  BY <1>6, <1>9
<1> HIDE DEF m
<1>13. (m + 1) * b = m * b + b /\ m * b \in Nat
  BY <1>12
<1>14. Total(g, r) <= m * b
  BY <1>9, <1>10 DEF m
<1>15. Total(g, s) <= n * b
  BY <1>11, <1>12, <1>13, <1>14
<1> QED BY <1>5, <1>15

(* A sum over S that injects, value by value, into another.                *)
LEMMA TotalInjected ==
    ASSUME NEW S, IsFiniteSet(S), NEW g, NEW T, IsFiniteSet(T), NEW f, NEW i \in Injection(S, T),
           \A x \in S : g[x] \in Nat /\ g[x] <= f[i[x]],
           \A y \in T : f[y] \in Nat
    PROVE  Total(g, S) <= Total(f, T)
<1> DEFINE Over(s) == \E r \in SUBSET T : /\ \A x \in s : i[x] \in r
                                          /\ ~(Total(g, s) <= Total(f, r))
           Bad == {Cardinality(s) : s \in {s \in SUBSET S : Over(s)}}
<1>1. \A s \in SUBSET S : IsFiniteSet(s) /\ Cardinality(s) \in Nat
  BY FS_Subset, FS_CardinalityType
<1>2. i \in [S -> T] /\ \A x, y \in S : i[x] = i[y] => x = y
  BY DEF Injection, IsInjective
<1>3. SUFFICES ASSUME Bad # {} PROVE FALSE
  <2>1. S \in SUBSET S /\ T \in SUBSET T /\ \A x \in S : i[x] \in T
    BY <1>2
  <2> QED BY <1>1, <2>1
<1>4. Bad \subseteq Nat
  BY <1>1
<1>5. PICK n \in Bad : \A m \in Bad : n <= m
  <2> HIDE DEF Bad
  <2> QED BY <1>3, <1>4, LeastNumber
<1>6. PICK s \in SUBSET S : Over(s) /\ Cardinality(s) = n
  BY <1>5
<1>7. PICK r \in SUBSET T : (\A x \in s : i[x] \in r) /\ ~(Total(g, s) <= Total(f, r))
  BY <1>6
<1>8. n \in Nat /\ n - 1 \notin Bad
  <2> HIDE DEF Bad
  <2> QED BY <1>4, <1>5
<1>9. IsFiniteSet(r) /\ (\A y \in r : f[y] \in Nat) /\ Total(f, r) \in Nat
  BY FS_Subset, TotalIsSum
<1>10. s # {}
  <2>1. Total(g, {}) = 0
    BY TotalOfNothing
  <2> QED BY <1>7, <1>9, <2>1
<1>11. PICK x \in s : TRUE
  BY <1>10
<1> DEFINE s1 == s \ {x}
           r1 == r \ {i[x]}
<1>12. /\ s1 \in SUBSET S /\ IsFiniteSet(s1) /\ Cardinality(s1) = n - 1
       /\ r1 \in SUBSET T /\ IsFiniteSet(r1)
  BY <1>1, <1>6, <1>9, <1>11, FS_RemoveElement
<1>13. \A y \in s1 : i[y] \in r1
  BY <1>2, <1>7, <1>11
<1>14. Total(g, s) = g[x] + Total(g, s1) /\ Total(f, r) = f[i[x]] + Total(f, r1)
  BY <1>1, <1>7, <1>9, <1>11, TotalOfFewer
<1>15. \A y \in s1 : g[y] \in Nat
  OBVIOUS
<1>16. \A y \in r1 : f[y] \in Nat
  BY <1>9
<1> HIDE DEF s1, r1
<1>17. Total(g, s1) \in Nat /\ Total(f, r1) \in Nat
  BY <1>12, <1>15, <1>16, TotalIsSum
<1>18. Total(g, s1) <= Total(f, r1)
  <2>1. ~Over(s1)
    <3> HIDE DEF Over
    <3> QED BY <1>8, <1>12
  <2> QED BY <1>12, <1>13, <2>1
<1>19. g[x] \in Nat /\ f[i[x]] \in Nat /\ g[x] <= f[i[x]]
  BY <1>2, <1>11
<1> QED BY <1>7, <1>14, <1>17, <1>18, <1>19

(* A sum taken group by group: key names the group, one of K.              *)
LEMMA TotalByGroup ==
    ASSUME NEW S, IsFiniteSet(S), NEW g, \A x \in S : g[x] \in Nat,
           NEW K, IsFiniteSet(K), NEW key, \A x \in S : key[x] \in K
    PROVE  LET h == [k \in K |-> Total(g, {x \in S : key[x] = k})]
           IN  Total(g, S) = Total(h, K)
<1> DEFINE Of(s, k) == {x \in s : key[x] = k}
           By(s) == [k \in K |-> Total(g, Of(s, k))]
           Wrong(s) == Total(g, s) # Total(By(s), K)
           Bad == {Cardinality(s) : s \in {s \in SUBSET S : Wrong(s)}}
<1>1. \A s \in SUBSET S : IsFiniteSet(s) /\ Cardinality(s) \in Nat
  BY FS_Subset, FS_CardinalityType
<1>2. \A s \in SUBSET S, k \in K : By(s)[k] = Total(g, Of(s, k)) /\ By(s)[k] \in Nat
  <2> SUFFICES ASSUME NEW s \in SUBSET S, NEW k \in K
               PROVE  By(s)[k] = Total(g, Of(s, k)) /\ By(s)[k] \in Nat
    OBVIOUS
  <2>1. IsFiniteSet(Of(s, k)) /\ \A x \in Of(s, k) : g[x] \in Nat
    BY <1>1
  <2> HIDE DEF Of
  <2>2. Total(g, Of(s, k)) \in Nat
    BY <2>1, TotalIsSum
  <2> QED BY <2>2
<1>3. SUFFICES ASSUME Bad # {} PROVE FALSE
  <2>1. ASSUME Bad = {} PROVE ~Wrong(S)
    <3>1. S \in SUBSET S
      OBVIOUS
    <3> HIDE DEF Wrong
    <3> QED BY <2>1, <3>1
  <2> QED BY <2>1
<1>4. Bad \subseteq Nat
  BY <1>1
<1>5. PICK n \in Bad : \A m \in Bad : n <= m
  <2> HIDE DEF Bad
  <2> QED BY <1>3, <1>4, LeastNumber
<1>6. PICK s \in SUBSET S : Wrong(s) /\ Cardinality(s) = n
  BY <1>5
<1>7. n \in Nat /\ n - 1 \notin Bad
  <2> HIDE DEF Bad
  <2> QED BY <1>4, <1>5
<1>8. s # {}
  <2>1. SUFFICES ASSUME s = {} PROVE FALSE
    OBVIOUS
  <2>2. \A k \in K : By(s)[k] = 0
    <3>1. \A k \in K : Of(s, k) = {}
      BY <2>1
    <3> HIDE DEF Of
    <3> QED BY <3>1, TotalOfNothing
  <2> DEFINE h == By(s)
  <2> HIDE DEF h
  <2>3. \A k \in K : h[k] \in Nat /\ h[k] <= 0
    BY <2>2 DEF h
  <2>4. Total(h, K) <= Cardinality(K) * 0 /\ Total(h, K) \in Nat /\ Cardinality(K) \in Nat
    BY <2>3, TotalWithin, TotalIsSum, FS_CardinalityType
  <2>5. Total(h, K) = 0
    BY <2>4
  <2>6. Total(g, s) = 0
    BY <2>1, TotalOfNothing
  <2> QED BY <1>6, <2>5, <2>6 DEF h
<1>9. PICK x \in s : TRUE
  BY <1>8
<1> DEFINE r == s \ {x}
<1>10. r \in SUBSET S /\ IsFiniteSet(r) /\ Cardinality(r) = n - 1
  BY <1>1, <1>6, <1>9, FS_RemoveElement
<1>11. Total(g, s) = g[x] + Total(g, r) /\ g[x] \in Nat /\ key[x] \in K
  BY <1>1, <1>9, TotalOfFewer
<1>12. Total(g, r) = Total(By(r), K)
  <2>1. ~Wrong(r)
    <3> HIDE DEF Wrong, r
    <3> QED BY <1>7, <1>10
  <2> QED BY <2>1
<1>13. By(s)[key[x]] = g[x] + By(r)[key[x]]
  <2> DEFINE A == Of(s, key[x])
  <2>1. x \in A /\ IsFiniteSet(A) /\ A \ {x} = Of(r, key[x]) /\ \A y \in A : g[y] \in Nat
    <3>1. A \subseteq s
      OBVIOUS
    <3> QED BY <1>1, <1>9, <3>1, FS_Subset
  <2> HIDE DEF A
  <2>2. Total(g, A) = g[x] + Total(g, A \ {x})
    BY <2>1, TotalOfFewer
  <2> HIDE DEF Of, r
  <2>3. By(s)[key[x]] = Total(g, A) /\ By(r)[key[x]] = Total(g, Of(r, key[x]))
    BY <1>11 DEF A
  <2> QED BY <2>1, <2>2, <2>3
<1>14. \A k \in K : k # key[x] => By(s)[k] = By(r)[k]
  <2>1. \A k \in K : k # key[x] => Of(s, k) = Of(r, k)
    OBVIOUS
  <2> HIDE DEF Of, r
  <2> QED BY <2>1
<1> DEFINE h1 == By(s)
           h2 == By(r)
<1>15. \A k \in K : h1[k] \in Nat /\ h2[k] \in Nat /\ (k # key[x] => h1[k] = h2[k])
  <2> HIDE DEF By, r
  <2> QED BY <1>2, <1>10, <1>14
<1>16. h1[key[x]] = g[x] + h2[key[x]]
  BY <1>13
<1> HIDE DEF h1, h2, r
<1>17. Total(h1, K) = Total(h2, K) - h2[key[x]] + h1[key[x]]
  <2> DEFINE c == key[x]
  <2>1. /\ c \in K
        /\ \A k \in K : h2[k] \in Nat /\ h1[k] \in Nat /\ (k # c => h1[k] = h2[k])
    BY <1>11, <1>15
  <2> HIDE DEF c
  <2>2. Total(h1, K) = Total(h2, K) - h2[c] + h1[c]
    BY <2>1, TotalOfChange
  <2> QED BY <2>2 DEF c
<1>18. Total(h2, K) \in Nat /\ h2[key[x]] \in Nat
  BY <1>11, <1>15, TotalIsSum
<1>19. Total(g, r) = Total(h2, K)
  BY <1>12 DEF h2
<1>20. Total(h1, K) = g[x] + Total(h2, K)
  BY <1>11, <1>16, <1>17, <1>18
<1>21. Total(g, s) # Total(h1, K)
  BY <1>6 DEF h1
<1> QED BY <1>11, <1>19, <1>20, <1>21

(* Values of which t times one is within k times another sum up so too.    *)
LEMMA TotalInProportion ==
    ASSUME NEW S, IsFiniteSet(S), NEW f, NEW g, NEW t \in Nat, NEW k \in Nat,
           \A x \in S : f[x] \in Nat /\ g[x] \in Nat /\ t * f[x] <= k * g[x]
    PROVE  t * Total(f, S) <= k * Total(g, S)
<1> DEFINE Over(s) == ~(t * Total(f, s) <= k * Total(g, s))
           Bad == {Cardinality(s) : s \in {s \in SUBSET S : Over(s)}}
<1>1. \A s \in SUBSET S : IsFiniteSet(s) /\ Cardinality(s) \in Nat
  BY FS_Subset, FS_CardinalityType
<1>2. SUFFICES ASSUME Bad # {} PROVE FALSE
  BY <1>1
<1>3. Bad \subseteq Nat
  BY <1>1
<1>4. PICK n \in Bad : \A m \in Bad : n <= m
  <2> HIDE DEF Bad
  <2> QED BY <1>2, <1>3, LeastNumber
<1>5. PICK s \in SUBSET S : Over(s) /\ Cardinality(s) = n
  BY <1>4
<1>6. n \in Nat /\ n - 1 \notin Bad
  <2> HIDE DEF Bad
  <2> QED BY <1>3, <1>4
<1>7. s # {}
  <2>1. Total(f, {}) = 0 /\ Total(g, {}) = 0 /\ t * 0 = 0 /\ k * 0 = 0
    BY TotalOfNothing
  <2>2. t * Total(f, {}) = 0 /\ k * Total(g, {}) = 0
    BY <2>1
  <2>3. ~Over({})
    BY <2>2
  <2> HIDE DEF Over
  <2> QED BY <1>5, <2>3
<1>8. PICK x \in s : TRUE
  BY <1>7
<1> DEFINE r == s \ {x}
<1>9. /\ r \in SUBSET S /\ IsFiniteSet(r) /\ Cardinality(r) = n - 1
      /\ r \cup {x} = s /\ x \notin r
  BY <1>1, <1>5, <1>8, FS_RemoveElement
<1> HIDE DEF r
<1>10. ~Over(r)
  <2> HIDE DEF Over
  <2> QED BY <1>6, <1>9
<1>11. /\ Total(f, s) = f[x] + Total(f, r) /\ Total(f, r) \in Nat /\ f[x] \in Nat
       /\ Total(g, s) = g[x] + Total(g, r) /\ Total(g, r) \in Nat /\ g[x] \in Nat
       /\ t * f[x] <= k * g[x]
  BY <1>5, <1>8, <1>9, TotalOfMore, TotalIsSum
<1>12. /\ t * (f[x] + Total(f, r)) = t * f[x] + t * Total(f, r)
       /\ k * (g[x] + Total(g, r)) = k * g[x] + k * Total(g, r)
       /\ t * f[x] \in Nat /\ t * Total(f, r) \in Nat
       /\ k * g[x] \in Nat /\ k * Total(g, r) \in Nat
  BY <1>11
<1> DEFINE tf == t * f[x]
           tr == t * Total(f, r)
           kg == k * g[x]
           kr == k * Total(g, r)
<1>13. tf \in Nat /\ tr \in Nat /\ kg \in Nat /\ kr \in Nat /\ tf <= kg /\ tr <= kr
  BY <1>10, <1>11, <1>12
<1>14. t * Total(f, s) = tf + tr /\ k * Total(g, s) = kg + kr
  BY <1>11, <1>12
<1> HIDE DEF tf, tr, kg, kr
<1> QED BY <1>5, <1>13, <1>14

-----------------------------------------------------------------------------

USE L1Assumption, RegistryAssumption

(* The statuses agree with the first-look list.                            *)
InPlace(statuses, list) ==
    \A who \in Accounts :
        LET place == statuses[who].priorityIndex
        IN  statuses[who].isPriority => place < Len(list) /\ list[place + 1] = who

SameChallenge(new, old) ==
    /\ new.isActive = old.isActive
    /\ new.challenger = old.challenger
    /\ new.timestampChallenged = old.timestampChallenged
    /\ new.blocknumberChallenged = old.blocknumberChallenged
    /\ new.stakeAmount = old.stakeAmount

(* A status that is in order: ChallengedInactive, and a block number on    *)
(* record only together with its challenger.                               *)
InOrder(status) ==
    /\ status.challenger # NoOne => ~status.isActive
    /\ status.challenger # NoOne <=> status.timestampChallenged # 0
    /\ status.blocknumberChallenged # 0 => status.challenger # NoOne

RegistryInv ==
    /\ now \in Nat /\ now >= START
    /\ RegistryTypeOK
    /\ Len(firstLookSequencers) <= MaxFirstLook
    /\ \A who \in Accounts : InOrder(sequencers[who])

(* The list without one entry.                                             *)
LEMMA ListWithoutFacts ==
    ASSUME firstLookSequencers \in Seq(Accounts),
           NEW which \in Nat, which < Len(firstLookSequencers)
    PROVE  /\ ListWithout(which) \in Seq(Accounts)
           /\ Len(ListWithout(which)) = Len(firstLookSequencers) - 1
           /\ \A i \in 1 .. Len(firstLookSequencers) - 1 :
                  ListWithout(which)[i] =
                      IF i = which + 1 THEN firstLookSequencers[Len(firstLookSequencers)]
                      ELSE firstLookSequencers[i]
<1> DEFINE n == Len(firstLookSequencers)
           last == firstLookSequencers[n]
           swapped == [firstLookSequencers EXCEPT ![which + 1] = last]
<1>1. n \in Nat /\ n > 0 /\ which + 1 \in 1 .. n /\ last \in Accounts
  OBVIOUS
<1>2. /\ swapped \in Seq(Accounts) /\ Len(swapped) = n
      /\ \A i \in 1 .. n : swapped[i] = IF i = which + 1 THEN last ELSE firstLookSequencers[i]
  BY <1>1, ExceptSeq
<1> HIDE DEF swapped
<1>3. /\ SubSeq(swapped, 1, n - 1) \in Seq(Accounts)
      /\ Len(SubSeq(swapped, 1, n - 1)) = n - 1
      /\ \A i \in 1 .. n - 1 : SubSeq(swapped, 1, n - 1)[i] = swapped[i]
  BY <1>1, <1>2
<1> QED BY <1>1, <1>2, <1>3 DEF ListWithout, swapped

(* Taking an entry off the list changes only places, and only of the       *)
(* removed entry and the last one.                                         *)
LEMMA UnlistedFacts ==
    ASSUME firstLookSequencers \in Seq(Accounts),
           NEW statuses \in [Accounts -> SequencerStatus],
           NEW which \in Nat, which < Len(firstLookSequencers)
    PROVE  /\ Unlisted(statuses, which) \in [Accounts -> SequencerStatus]
           /\ \A who \in Accounts :
                  /\ SameChallenge(Unlisted(statuses, which)[who], statuses[who])
                  /\ Unlisted(statuses, which)[who].isPriority =
                         (who # firstLookSequencers[which + 1] /\ statuses[who].isPriority)
                  /\ Unlisted(statuses, which)[who].priorityIndex =
                         IF who = firstLookSequencers[Len(firstLookSequencers)]
                         THEN which % PRIORITY_INDEXES ELSE statuses[who].priorityIndex
<1> DEFINE removed == firstLookSequencers[which + 1]
           last == firstLookSequencers[Len(firstLookSequencers)]
           place == which % PRIORITY_INDEXES
           without == [statuses EXCEPT ![removed].isPriority = FALSE]
<1>1. /\ removed \in Accounts /\ last \in Accounts
      /\ place \in 0 .. PRIORITY_INDEXES - 1
  OBVIOUS
<1>2. Unlisted(statuses, which) = [without EXCEPT ![last].priorityIndex = place]
  BY DEF Unlisted
<1> HIDE DEF removed, last, place
<1>3. /\ without \in [Accounts -> SequencerStatus]
      /\ \A who \in Accounts :
             /\ SameChallenge(without[who], statuses[who])
             /\ without[who].isPriority = (who # removed /\ statuses[who].isPriority)
             /\ without[who].priorityIndex = statuses[who].priorityIndex
  BY <1>1 DEF SequencerStatus, SameChallenge
<1> HIDE DEF without
<1>4. /\ Unlisted(statuses, which) \in [Accounts -> SequencerStatus]
      /\ \A who \in Accounts :
             /\ SameChallenge(Unlisted(statuses, which)[who], without[who])
             /\ Unlisted(statuses, which)[who].isPriority = without[who].isPriority
             /\ Unlisted(statuses, which)[who].priorityIndex =
                    IF who = last THEN place ELSE without[who].priorityIndex
  <2>1. Unlisted(statuses, which) =
            [who \in Accounts |-> IF who = last THEN [without[who] EXCEPT !.priorityIndex = place]
                                 ELSE without[who]]
    BY <1>1, <1>2, <1>3
  <2>2. ASSUME NEW status \in SequencerStatus
        PROVE  LET moved == [status EXCEPT !.priorityIndex = place]
               IN  /\ moved \in SequencerStatus
                   /\ SameChallenge(moved, status)
                   /\ moved.isPriority = status.isPriority
                   /\ moved.priorityIndex = place
    BY <1>1 DEF SequencerStatus, SameChallenge
  <2>3. \A who \in Accounts : without[who] \in SequencerStatus
    BY <1>3
  <2> QED BY <2>1, <2>2, <2>3 DEF SameChallenge
<1> QED BY <1>3, <1>4 DEF SameChallenge, removed, last, place

(* The remaining entries are where their statuses say.                     *)
LEMMA UnlistedInPlace ==
    ASSUME firstLookSequencers \in Seq(Accounts),
           Len(firstLookSequencers) <= PRIORITY_INDEXES,
           NEW statuses \in [Accounts -> SequencerStatus],
           InPlace(statuses, firstLookSequencers),
           NEW which \in Nat, which < Len(firstLookSequencers)
    PROVE  InPlace(Unlisted(statuses, which), ListWithout(which))
<1> DEFINE n == Len(firstLookSequencers)
           new == Unlisted(statuses, which)
<1>1. n \in Nat /\ which % PRIORITY_INDEXES = which
  OBVIOUS
<1>2. SUFFICES ASSUME NEW who \in Accounts, new[who].isPriority
               PROVE  /\ new[who].priorityIndex < Len(ListWithout(which))
                      /\ ListWithout(which)[new[who].priorityIndex + 1] = who
  BY DEF InPlace
<1>3. who # firstLookSequencers[which + 1] /\ statuses[who].isPriority
  BY <1>2, UnlistedFacts
<1>4. /\ statuses[who].priorityIndex \in Nat
      /\ statuses[who].priorityIndex < n
      /\ firstLookSequencers[statuses[who].priorityIndex + 1] = who
  BY <1>3 DEF InPlace, SequencerStatus
<1>5. CASE who = firstLookSequencers[n]
  <2>1. new[who].priorityIndex = which
    BY <1>1, <1>5, UnlistedFacts
  <2>2. which + 1 \in 1 .. n - 1
    BY <1>1, <1>3, <1>5
  <2>3. Len(ListWithout(which)) = n - 1 /\ ListWithout(which)[which + 1] = who
    BY <2>2, <1>5, ListWithoutFacts
  <2> QED BY <2>1, <2>2, <2>3, <1>1
<1>6. CASE who # firstLookSequencers[n]
  <2>1. new[who].priorityIndex = statuses[who].priorityIndex
    BY <1>6, UnlistedFacts
  <2> DEFINE place == statuses[who].priorityIndex
  <2>2. place + 1 \in 1 .. n - 1 /\ place + 1 # which + 1
    BY <1>1, <1>3, <1>4, <1>6
  <2>3. /\ Len(ListWithout(which)) = n - 1
        /\ \A i \in 1 .. n - 1 : i # which + 1 =>
               ListWithout(which)[i] = firstLookSequencers[i]
    BY ListWithoutFacts
  <2> HIDE DEF place
  <2>4. ListWithout(which)[place + 1] = firstLookSequencers[place + 1]
    BY <2>2, <2>3
  <2> QED BY <2>1, <2>2, <2>3, <2>4, <1>1, <1>4 DEF place
<1> QED BY <1>5, <1>6

(* slash and registerExit change the statuses as they say and keep the     *)
(* list well formed.                                                       *)
LEMMA LeaveListFacts ==
    ASSUME RegistryTypeOK, NEW statuses \in [Accounts -> SequencerStatus],
           NEW who \in Accounts, LeaveList(statuses, who)
    PROVE  /\ firstLookSequencers' \in Seq(Accounts)
           /\ Len(firstLookSequencers') <= Len(firstLookSequencers)
           /\ sequencers' \in [Accounts -> SequencerStatus]
           /\ \A x \in Accounts : SameChallenge(sequencers'[x], statuses[x])
<1>0. firstLookSequencers \in Seq(Accounts) /\ Len(firstLookSequencers) \in Nat
  BY DEF RegistryTypeOK
<1>1. CASE statuses[who].isPriority
  <2> DEFINE place == statuses[who].priorityIndex
  <2>1. /\ place \in Nat /\ place < Len(firstLookSequencers)
        /\ sequencers' = Unlisted(statuses, place)
        /\ firstLookSequencers' = ListWithout(place)
    BY <1>1 DEF LeaveList, SequencerStatus
  <2>2. /\ ListWithout(place) \in Seq(Accounts)
        /\ Len(ListWithout(place)) = Len(firstLookSequencers) - 1
    BY <1>0, <2>1, ListWithoutFacts
  <2>3. /\ Unlisted(statuses, place) \in [Accounts -> SequencerStatus]
        /\ \A x \in Accounts : SameChallenge(Unlisted(statuses, place)[x], statuses[x])
    BY <1>0, <2>1, UnlistedFacts
  <2> QED BY <1>0, <2>1, <2>2, <2>3
<1>2. CASE ~statuses[who].isPriority
  BY <1>0, <1>2 DEF LeaveList, SameChallenge
<1> QED BY <1>1, <1>2

(* ... and everybody who stays stays at their place.                       *)
LEMMA LeaveListInPlace ==
    ASSUME RegistryTypeOK, Len(firstLookSequencers) <= PRIORITY_INDEXES,
           NEW statuses \in [Accounts -> SequencerStatus],
           InPlace(statuses, firstLookSequencers),
           NEW who \in Accounts, LeaveList(statuses, who)
    PROVE  InPlace(sequencers', firstLookSequencers')
<1>1. CASE statuses[who].isPriority
  <2> DEFINE place == statuses[who].priorityIndex
  <2>1. /\ place \in Nat /\ place < Len(firstLookSequencers)
        /\ sequencers' = Unlisted(statuses, place)
        /\ firstLookSequencers' = ListWithout(place)
        /\ firstLookSequencers \in Seq(Accounts)
    BY <1>1 DEF LeaveList, SequencerStatus, RegistryTypeOK
  <2>2. InPlace(Unlisted(statuses, place), ListWithout(place))
    BY <2>1, UnlistedInPlace
  <2> QED BY <2>1, <2>2
<1>2. CASE ~statuses[who].isPriority
  BY <1>2 DEF LeaveList
<1> QED BY <1>1, <1>2

(* Amounts are numbers.                                                    *)
LEMMA Arithmetic ==
    ASSUME NEW a \in Nat, NEW b \in Nat, NEW c \in Nat \ {0}
    PROVE  a * b \in Nat /\ a \div c \in Nat
  OBVIOUS

-----------------------------------------------------------------------------
(* Each call preserves RegistryInv.                                        *)

(* What slashing makes of a record.                                        *)
LEMMA SlashedStatusFacts ==
    ASSUME RegistryInv, NEW who \in Accounts, NEW n \in Nat, NEW sender \in Accounts
    PROVE  LET recorded == sequencers[who].blocknumberChallenged
               status == SlashedStatus(who, n, sender, recorded = 0 \/ recorded > n)
           IN  /\ status \in SequencerStatus
               /\ InOrder(status)
               /\ status.stakeAmount = sequencers[who].stakeAmount
               /\ status.isPriority = sequencers[who].isPriority
               /\ status.priorityIndex = sequencers[who].priorityIndex
<1>1. /\ sequencers[who] \in SequencerStatus /\ InOrder(sequencers[who])
      /\ now \in Nat /\ now # 0 /\ sender # NoOne
  BY DEF RegistryInv, RegistryTypeOK
<1> QED BY <1>1 DEF SlashedStatus, SequencerStatus, InOrder

(* slash.                                                                  *)
LEMMA SlashPreserves ==
    ASSUME RegistryInv, NEW who \in Accounts, NEW n \in Nat, NEW sender \in Accounts,
           Slash(who, n, sender), UNCHANGED now
    PROVE  /\ RegistryInv'
           /\ \A x \in Accounts : sequencers'[x].stakeAmount = sequencers[x].stakeAmount
<1> DEFINE recorded == sequencers[who].blocknumberChallenged
           status == SlashedStatus(who, n, sender, recorded = 0 \/ recorded > n)
           statuses == [sequencers EXCEPT ![who] = status]
<1>1. /\ status \in SequencerStatus /\ InOrder(status)
      /\ status.stakeAmount = sequencers[who].stakeAmount
  BY SlashedStatusFacts
<1>2. /\ RegistryTypeOK /\ LeaveList(statuses, who)
      /\ UNCHANGED <<now, exits, requiredStake, balance>>
  BY DEF Slash, RegistryInv
<1> HIDE DEF status
<1>3. /\ statuses \in [Accounts -> SequencerStatus]
      /\ \A x \in Accounts : /\ InOrder(statuses[x])
                             /\ statuses[x].stakeAmount = sequencers[x].stakeAmount
  BY <1>1 DEF RegistryInv, RegistryTypeOK
<1> HIDE DEF statuses
<1>4. /\ firstLookSequencers' \in Seq(Accounts)
      /\ Len(firstLookSequencers') <= Len(firstLookSequencers)
      /\ sequencers' \in [Accounts -> SequencerStatus]
      /\ \A x \in Accounts : SameChallenge(sequencers'[x], statuses[x])
  BY <1>2, <1>3, LeaveListFacts
<1>5. Len(firstLookSequencers') <= MaxFirstLook
  BY <1>4 DEF RegistryInv, RegistryTypeOK
<1>6. \A x \in Accounts : /\ InOrder(sequencers'[x])
                         /\ sequencers'[x].stakeAmount = sequencers[x].stakeAmount
  BY <1>3, <1>4 DEF InOrder, SameChallenge
<1> QED BY <1>2, <1>4, <1>5, <1>6 DEF RegistryInv, RegistryTypeOK

(* A call that leaves all challenges and stakes alone and types the rest.  *)
LEMMA SameChallengePreserves ==
    ASSUME RegistryInv, UNCHANGED <<now, requiredStake, balance>>,
           exits' \in [Accounts -> Nat],
           firstLookSequencers' \in Seq(Accounts),
           Len(firstLookSequencers') <= MaxFirstLook,
           sequencers' \in [Accounts -> SequencerStatus],
           \A x \in Accounts : SameChallenge(sequencers'[x], sequencers[x])
    PROVE  RegistryInv' /\ StakeLeavesAsReward
<1>1. \A x \in Accounts : InOrder(sequencers'[x])
  BY DEF RegistryInv, InOrder, SameChallenge
<1>2. StakeLeavesAsReward
  BY DEF StakeLeavesAsReward, SameChallenge
<1> QED BY <1>1, <1>2 DEF RegistryInv, RegistryTypeOK

(* fund.                                                                   *)
LEMMA FundPreserves ==
    ASSUME RegistryInv, NEW who \in Accounts, NEW wei \in FundAmounts,
           Fund(who, wei), UNCHANGED now
    PROVE  RegistryInv' /\ StakeLeavesAsReward
<1> DEFINE units == wei \div STAKE_DIVISOR
           old == sequencers[who]
           raised == old.stakeAmount + units
           funded == [old EXCEPT !.isActive = TRUE, !.stakeAmount = raised]
<1>1. wei \in Nat /\ units \in Nat
  OBVIOUS
<1>2. /\ sequencers \in [Accounts -> SequencerStatus]
      /\ InOrder(sequencers[who]) /\ sequencers[who].challenger = NoOne
  BY DEF RegistryInv, RegistryTypeOK, Fund, IsChallenged
<1> HIDE DEF units
<1>3. funded \in SequencerStatus /\ InOrder(funded)
  <2>1. old \in SequencerStatus /\ raised \in Nat
    BY <1>1, <1>2 DEF SequencerStatus
  <2> HIDE DEF raised
  <2>2. funded \in SequencerStatus
    BY <2>1 DEF SequencerStatus
  <2>3. InOrder(funded)
    BY <2>1, <1>2 DEF SequencerStatus, InOrder
  <2> QED BY <2>2, <2>3
<1>4. /\ sequencers' = [sequencers EXCEPT ![who].isActive = TRUE,
                                        ![who].stakeAmount = @ + units]
      /\ balance' = balance + wei
      /\ UNCHANGED <<exits, firstLookSequencers, requiredStake>>
  BY DEF Fund, Funded, units
<1>5. /\ sequencers' \in [Accounts -> SequencerStatus]
      /\ \A x \in Accounts : InOrder(sequencers'[x])
      /\ \A x \in Accounts : x # who => sequencers'[x] = sequencers[x]
  <2>1. sequencers' = [sequencers EXCEPT ![who] = funded]
    BY <1>2, <1>4
  <2> HIDE DEF funded
  <2> QED BY <2>1, <1>2, <1>3 DEF RegistryInv
<1>6. RegistryInv'
  <2>1. balance' \in Nat
    <3> HIDE DEF funded, old, raised
    <3>1. balance \in Nat
      BY DEF RegistryInv, RegistryTypeOK
    <3> QED BY <1>1, <1>4, <3>1
  <2>2. RegistryTypeOK'
    <3> HIDE DEF funded, old, raised
    <3> QED BY <2>1, <1>4, <1>5 DEF RegistryInv, RegistryTypeOK
  <2>3. /\ (now \in Nat /\ now >= START)'
        /\ (Len(firstLookSequencers) =< MaxFirstLook)'
    BY <1>4 DEF RegistryInv
  <2> QED BY <2>2, <2>3, <1>5 DEF RegistryInv
<1>7. StakeLeavesAsReward
  BY <1>2, <1>5 DEF StakeLeavesAsReward, IsChallenged
<1> QED BY <1>6, <1>7

(* The two payouts delete one record.                                      *)
LEMMA PayAndDeletePreserves ==
    ASSUME RegistryInv, NEW who \in Accounts, NEW amount \in Nat,
           PayAndDelete(who, amount), exits' \in [Accounts -> Nat],
           UNCHANGED <<now, firstLookSequencers, requiredStake>>
    PROVE  /\ RegistryInv'
           /\ \A x \in Accounts : x # who => sequencers'[x] = sequencers[x]
<1>1. DeletedStatus \in SequencerStatus /\ InOrder(DeletedStatus)
  BY DEF DeletedStatus, SequencerStatus, InOrder
<1>2. /\ sequencers \in [Accounts -> SequencerStatus]
      /\ sequencers' = [sequencers EXCEPT ![who] = DeletedStatus]
      /\ balance' = balance - amount /\ balance >= amount /\ balance \in Nat
  BY DEF RegistryInv, RegistryTypeOK, PayAndDelete
<1>3. /\ sequencers' \in [Accounts -> SequencerStatus]
      /\ \A x \in Accounts : InOrder(sequencers'[x])
      /\ \A x \in Accounts : x # who => sequencers'[x] = sequencers[x]
  BY <1>1, <1>2 DEF RegistryInv
<1> QED BY <1>2, <1>3 DEF RegistryInv, RegistryTypeOK

(* claimChallengeReward.                                                   *)
LEMMA ClaimPreserves ==
    ASSUME RegistryInv, NEW who \in Accounts, ClaimChallengeReward(who), UNCHANGED now
    PROVE  RegistryInv' /\ StakeLeavesAsReward
<1> DEFINE stake == sequencers[who].stakeAmount
           amount == (stake * STAKE_DIVISOR) \div 2
<1>1. stake \in Nat /\ sequencers[who].timestampChallenged \in Nat /\ now \in Nat
  BY DEF RegistryInv, RegistryTypeOK, SequencerStatus
<1>2. amount \in Nat
  <2> HIDE DEF stake
  <2>1. stake * STAKE_DIVISOR \in Nat
    BY <1>1, Arithmetic
  <2> QED BY <2>1, Arithmetic
<1>3. /\ PayAndDelete(who, amount)
      /\ UNCHANGED <<exits, firstLookSequencers, requiredStake>>
      /\ now - sequencers[who].timestampChallenged >= CHALLENGE_WINDOW
  BY DEF ClaimChallengeReward
<1>4. balance' = balance - amount
  BY <1>3 DEF PayAndDelete
<1> HIDE DEF amount
<1>5. exits' \in [Accounts -> Nat]
  BY <1>3 DEF RegistryInv, RegistryTypeOK
<1>6. /\ RegistryInv'
      /\ \A x \in Accounts : x # who => sequencers'[x] = sequencers[x]
  BY <1>2, <1>3, <1>5, PayAndDeletePreserves
<1>7. now >= sequencers[who].timestampChallenged + CHALLENGE_WINDOW
  BY <1>1, <1>3
<1>8. StakeLeavesAsReward
  BY <1>4, <1>6, <1>7 DEF StakeLeavesAsReward, amount
<1> QED BY <1>6, <1>8

(* exit.                                                                   *)
LEMMA ExitPreserves ==
    ASSUME RegistryInv, NEW who \in Accounts, Exit(who), UNCHANGED now
    PROVE  RegistryInv' /\ StakeLeavesAsReward
<1> DEFINE stake == sequencers[who].stakeAmount
           amount == stake * STAKE_DIVISOR
<1>1. stake \in Nat
  BY DEF RegistryInv, RegistryTypeOK, SequencerStatus
<1>2. amount \in Nat
  <2> HIDE DEF stake
  <2> QED BY <1>1, Arithmetic
<1>3. /\ PayAndDelete(who, amount) /\ ~IsChallenged(who)
      /\ exits' = [exits EXCEPT ![who] = 0]
      /\ UNCHANGED <<firstLookSequencers, requiredStake>>
  BY DEF Exit, Refunded
<1> HIDE DEF amount
<1>4. exits' \in [Accounts -> Nat]
  BY <1>3 DEF RegistryInv, RegistryTypeOK
<1>5. /\ RegistryInv'
      /\ \A x \in Accounts : x # who => sequencers'[x] = sequencers[x]
  BY <1>2, <1>3, <1>4, PayAndDeletePreserves
<1> QED BY <1>3, <1>5 DEF StakeLeavesAsReward

(* registerExit.                                                           *)
LEMMA RegisterExitPreserves ==
    ASSUME RegistryInv, NEW who \in Accounts, RegisterExit(who), UNCHANGED now
    PROVE  RegistryInv' /\ StakeLeavesAsReward
<1> DEFINE left == [sequencers[who] EXCEPT !.isActive = FALSE]
           statuses == [sequencers EXCEPT ![who] = left]
<1>1. /\ sequencers \in [Accounts -> SequencerStatus] /\ RegistryTypeOK
      /\ exits \in [Accounts -> Nat] /\ now \in Nat
      /\ InOrder(sequencers[who]) /\ sequencers[who].isActive
      /\ LeaveList(statuses, who)
      /\ exits' = [exits EXCEPT ![who] = now]
      /\ UNCHANGED <<requiredStake, balance>>
  BY DEF RegistryInv, RegistryTypeOK, RegisterExit
<1>2. /\ left \in SequencerStatus /\ InOrder(left)
      /\ left.stakeAmount = sequencers[who].stakeAmount
  BY <1>1 DEF SequencerStatus, InOrder
<1> HIDE DEF left
<1>3. /\ statuses \in [Accounts -> SequencerStatus]
      /\ \A x \in Accounts : /\ InOrder(statuses[x])
                             /\ statuses[x].stakeAmount = sequencers[x].stakeAmount
  BY <1>1, <1>2 DEF RegistryInv
<1> HIDE DEF statuses
<1>4. /\ firstLookSequencers' \in Seq(Accounts)
      /\ Len(firstLookSequencers') <= Len(firstLookSequencers)
      /\ sequencers' \in [Accounts -> SequencerStatus]
      /\ \A x \in Accounts : SameChallenge(sequencers'[x], statuses[x])
  BY <1>1, <1>3, LeaveListFacts
<1>5. Len(firstLookSequencers') <= MaxFirstLook
  BY <1>4 DEF RegistryInv, RegistryTypeOK
<1>6. \A x \in Accounts : /\ InOrder(sequencers'[x])
                         /\ sequencers'[x].stakeAmount = sequencers[x].stakeAmount
  BY <1>3, <1>4 DEF InOrder, SameChallenge
<1>7. exits' \in [Accounts -> Nat]
  BY <1>1
<1>8. RegistryInv'
  BY <1>1, <1>4, <1>5, <1>6, <1>7 DEF RegistryInv, RegistryTypeOK
<1> QED BY <1>6, <1>8 DEF StakeLeavesAsReward

(* addFirstLook.                                                           *)
LEMMA AddedStatuses ==
    ASSUME RegistryInv, NEW who \in Accounts, AddFirstLook(who)
    PROVE  LET place == Len(firstLookSequencers) % PRIORITY_INDEXES
           IN  /\ sequencers' \in [Accounts -> SequencerStatus]
               /\ \A x \in Accounts : SameChallenge(sequencers'[x], sequencers[x])
               /\ sequencers'[who].priorityIndex = place
               /\ \A x \in Accounts : x # who => sequencers'[x] = sequencers[x]
<1> DEFINE place == Len(firstLookSequencers) % PRIORITY_INDEXES
           old == sequencers[who]
           added == [old EXCEPT !.isPriority = TRUE, !.priorityIndex = place]
<1>1. /\ sequencers \in [Accounts -> SequencerStatus] /\ old \in SequencerStatus
      /\ place \in 0 .. PRIORITY_INDEXES - 1
  BY DEF RegistryInv, RegistryTypeOK
<1>2. sequencers' = [sequencers EXCEPT ![who].isPriority = TRUE, ![who].priorityIndex = place]
  BY DEF AddFirstLook
<1> HIDE DEF place
<1>3. /\ added \in SequencerStatus
      /\ SameChallenge(added, old)
      /\ added.priorityIndex = place
  BY <1>1 DEF SequencerStatus, SameChallenge
<1>4. sequencers' = [sequencers EXCEPT ![who] = added]
  BY <1>1, <1>2
<1> HIDE DEF added
<1> QED BY <1>1, <1>3, <1>4 DEF SameChallenge, place

(* Joining the list keeps the invariant.                                   *)
LEMMA AddFirstLookPreserves ==
    ASSUME RegistryInv, NEW who \in Accounts, AddFirstLook(who), UNCHANGED now
    PROVE  RegistryInv' /\ StakeLeavesAsReward
<1>1. /\ firstLookSequencers \in Seq(Accounts) /\ exits \in [Accounts -> Nat]
      /\ Len(firstLookSequencers) < MaxFirstLook
      /\ firstLookSequencers' = Append(firstLookSequencers, who)
      /\ UNCHANGED <<exits, requiredStake, balance>>
  BY DEF RegistryInv, RegistryTypeOK, AddFirstLook
<1>2. firstLookSequencers' \in Seq(Accounts) /\ Len(firstLookSequencers') <= MaxFirstLook
  BY <1>1
<1>3. /\ sequencers' \in [Accounts -> SequencerStatus]
      /\ \A x \in Accounts : SameChallenge(sequencers'[x], sequencers[x])
  BY AddedStatuses
<1> QED BY <1>1, <1>2, <1>3, SameChallengePreserves

(* removeFirstLook.                                                        *)
LEMMA RemoveFirstLookPreserves ==
    ASSUME RegistryInv, NEW which \in 0 .. Len(firstLookSequencers) - 1,
           RemoveFirstLook(which), UNCHANGED now
    PROVE  RegistryInv' /\ StakeLeavesAsReward
<1>1. /\ firstLookSequencers \in Seq(Accounts) /\ exits \in [Accounts -> Nat]
      /\ sequencers \in [Accounts -> SequencerStatus]
      /\ Len(firstLookSequencers) \in Nat /\ Len(firstLookSequencers) <= MaxFirstLook
      /\ which \in Nat /\ which < Len(firstLookSequencers)
      /\ sequencers' = Unlisted(sequencers, which)
      /\ firstLookSequencers' = ListWithout(which)
      /\ UNCHANGED <<exits, requiredStake, balance>>
  BY DEF RegistryInv, RegistryTypeOK, RemoveFirstLook
<1>2. /\ ListWithout(which) \in Seq(Accounts)
      /\ Len(ListWithout(which)) = Len(firstLookSequencers) - 1
  BY <1>1, ListWithoutFacts
<1>3. /\ Unlisted(sequencers, which) \in [Accounts -> SequencerStatus]
      /\ \A x \in Accounts : SameChallenge(Unlisted(sequencers, which)[x], sequencers[x])
  BY <1>1, UnlistedFacts
<1>4. Len(firstLookSequencers') <= MaxFirstLook
  BY <1>1, <1>2
<1> QED BY <1>1, <1>2, <1>3, <1>4, SameChallengePreserves

(* Every step preserves the invariant and moves the stake of a challenged  *)
(* sequencer only as its reward.                                           *)
LEMMA RegistryInvStep ==
    ASSUME RegistryInv, [RegistryNext]_<<now, registryVars>>
    PROVE  RegistryInv' /\ (StakeLeavesAsReward \/ UNCHANGED registryVars)
<1>1. ASSUME NEW who \in Accounts, NEW wei \in FundAmounts, Fund(who, wei), UNCHANGED now
      PROVE  RegistryInv' /\ StakeLeavesAsReward
  BY <1>1, FundPreserves
<1>2. ASSUME NEW who \in Accounts, ClaimChallengeReward(who), UNCHANGED now
      PROVE  RegistryInv' /\ StakeLeavesAsReward
  BY <1>2, ClaimPreserves
<1>3. ASSUME NEW who \in Accounts, RegisterExit(who), UNCHANGED now
      PROVE  RegistryInv' /\ StakeLeavesAsReward
  BY <1>3, RegisterExitPreserves
<1>4. ASSUME NEW who \in Accounts, Exit(who), UNCHANGED now
      PROVE  RegistryInv' /\ StakeLeavesAsReward
  BY <1>4, ExitPreserves
<1>5. ASSUME NEW who \in Accounts, AddFirstLook(who), UNCHANGED now
      PROVE  RegistryInv' /\ StakeLeavesAsReward
  BY <1>5, AddFirstLookPreserves
<1>6. ASSUME NEW which \in 0 .. Len(firstLookSequencers) - 1, RemoveFirstLook(which),
             UNCHANGED now
      PROVE  RegistryInv' /\ StakeLeavesAsReward
  BY <1>6, RemoveFirstLookPreserves
<1>7. ASSUME NEW amount \in 0 .. MAX_STAKE, UpdateStakeRequirement(amount), UNCHANGED now
      PROVE  RegistryInv' /\ StakeLeavesAsReward
  BY <1>7 DEF UpdateStakeRequirement, RegistryInv, RegistryTypeOK, StakeLeavesAsReward
<1>8. ASSUME NEW who \in Accounts, NEW sender \in Accounts, NEW n \in Nat,
             Slash(who, n, sender), UNCHANGED now
      PROVE  RegistryInv' /\ StakeLeavesAsReward
  BY <1>8, SlashPreserves DEF StakeLeavesAsReward
<1>9. ASSUME Tick, UNCHANGED registryVars
      PROVE  RegistryInv'
  BY <1>9 DEF Tick, registryVars, RegistryInv, RegistryTypeOK
<1>10. ASSUME UNCHANGED <<now, registryVars>>
       PROVE  RegistryInv'
  BY <1>10 DEF registryVars, RegistryInv, RegistryTypeOK
<1> QED
  BY <1>1, <1>2, <1>3, <1>4, <1>5, <1>6, <1>7, <1>8, <1>9, <1>10
  DEF RegistryNext, RegistryCall, registryVars

(* The registry starts empty.                                              *)
LEMMA RegistryInitial ==
    ASSUME now = START, RegistryInit
    PROVE  RegistryInv
<1>1. DeletedStatus \in SequencerStatus /\ InOrder(DeletedStatus)
  BY DEF DeletedStatus, SequencerStatus, InOrder
<1> QED BY <1>1 DEF RegistryInit, RegistryInv, RegistryTypeOK

(* The inductive invariant holds throughout.                               *)
THEOREM RegistryInvariant == RegistrySpec => []RegistryInv
<1>1. now = START /\ RegistryInit => RegistryInv
  BY RegistryInitial
<1>2. RegistryInv /\ [RegistryNext]_<<now, registryVars>> => RegistryInv'
  BY RegistryInvStep
<1> QED BY <1>1, <1>2, PTL DEF RegistrySpec

(* The registry's state keeps its types.                                   *)
THEOREM RegistryTypeCorrect == RegistrySpec => []RegistryTypeOK
<1>1. RegistryInv => RegistryTypeOK
  BY DEF RegistryInv
<1> QED BY <1>1, RegistryInvariant, PTL

(* A sequencer with a challenge on record stays inactive: no sequence of   *)
(* fund, addFirstLook, registerExit and exit brings it back.               *)
THEOREM ChallengedStaysInactive == RegistrySpec => []ChallengedInactive
<1>1. RegistryInv => ChallengedInactive
  BY DEF RegistryInv, InOrder, ChallengedInactive, IsChallenged
<1> QED BY <1>1, RegistryInvariant, PTL

(* The stake of a challenged sequencer leaves the contract only as half a  *)
(* stake of reward, after the challenge window.                            *)
THEOREM SlashedStakeOnlyReward == RegistrySpec => SlashedStakeIsReward
<1>1. RegistryInv /\ [RegistryNext]_<<now, registryVars>> => [StakeLeavesAsReward]_registryVars
  BY RegistryInvStep
<1> QED BY <1>1, RegistryInvariant, PTL DEF RegistrySpec, SlashedStakeIsReward

-----------------------------------------------------------------------------
(* The places recorded for priority sequencers, as long as the list is     *)
(* not longer than a uint8 can index.                                      *)

ListFits == MaxFirstLook <= PRIORITY_INDEXES

(* Every call keeps the places on record right while the list fits.        *)
LEMMA PlacesStep ==
    ASSUME ListFits, RegistryInv, InPlace(sequencers, firstLookSequencers),
           [RegistryNext]_<<now, registryVars>>
    PROVE  InPlace(sequencers', firstLookSequencers')
<1>1. /\ RegistryTypeOK
      /\ firstLookSequencers \in Seq(Accounts)
      /\ sequencers \in [Accounts -> SequencerStatus]
      /\ Len(firstLookSequencers) \in Nat
      /\ Len(firstLookSequencers) <= PRIORITY_INDEXES
  BY DEF RegistryInv, RegistryTypeOK, ListFits
<1>2. ASSUME NEW who \in Accounts, NEW status \in SequencerStatus,
             status.isPriority = sequencers[who].isPriority,
             status.priorityIndex = sequencers[who].priorityIndex
      PROVE  /\ [sequencers EXCEPT ![who] = status] \in [Accounts -> SequencerStatus]
             /\ InPlace([sequencers EXCEPT ![who] = status], firstLookSequencers)
  BY <1>1, <1>2 DEF InPlace
<1>3. ASSUME NEW who \in Accounts, NEW wei \in FundAmounts, Fund(who, wei)
      PROVE  InPlace(sequencers', firstLookSequencers')
  <2> DEFINE units == wei \div STAKE_DIVISOR
             raised == sequencers[who].stakeAmount + units
  <2>1. /\ sequencers' = [sequencers EXCEPT ![who].isActive = TRUE,
                                          ![who].stakeAmount = raised]
        /\ UNCHANGED firstLookSequencers
    BY <1>3 DEF Fund, Funded
  <2> HIDE DEF raised
  <2>2. \A x \in Accounts : /\ sequencers'[x].isPriority = sequencers[x].isPriority
                           /\ sequencers'[x].priorityIndex = sequencers[x].priorityIndex
    BY <2>1, <1>1 DEF SequencerStatus
  <2> QED BY <2>1, <2>2 DEF InPlace
<1>4. ASSUME NEW who \in Accounts, NEW amount, PayAndDelete(who, amount),
             UNCHANGED firstLookSequencers
      PROVE  InPlace(sequencers', firstLookSequencers')
  BY <1>1, <1>4 DEF PayAndDelete, InPlace, DeletedStatus
<1>5. ASSUME NEW who \in Accounts, RegisterExit(who)
      PROVE  InPlace(sequencers', firstLookSequencers')
  <2> DEFINE left == [sequencers[who] EXCEPT !.isActive = FALSE]
  <2>1. /\ left \in SequencerStatus
        /\ left.isPriority = sequencers[who].isPriority
        /\ left.priorityIndex = sequencers[who].priorityIndex
    BY <1>1 DEF SequencerStatus
  <2>2. LeaveList([sequencers EXCEPT ![who] = left], who)
    BY <1>1, <1>5 DEF RegisterExit
  <2> HIDE DEF left
  <2> QED BY <1>1, <1>2, <2>1, <2>2, LeaveListInPlace
<1>6. ASSUME NEW who \in Accounts, NEW sender \in Accounts, NEW n \in Nat,
             Slash(who, n, sender)
      PROVE  InPlace(sequencers', firstLookSequencers')
  <2> DEFINE recorded == sequencers[who].blocknumberChallenged
             status == SlashedStatus(who, n, sender, recorded = 0 \/ recorded > n)
  <2>1. /\ status \in SequencerStatus
        /\ status.isPriority = sequencers[who].isPriority
        /\ status.priorityIndex = sequencers[who].priorityIndex
    BY SlashedStatusFacts
  <2>2. LeaveList([sequencers EXCEPT ![who] = status], who)
    BY <1>6 DEF Slash
  <2> HIDE DEF status
  <2> QED BY <1>1, <1>2, <2>1, <2>2, LeaveListInPlace
<1>7. ASSUME NEW who \in Accounts, AddFirstLook(who)
      PROVE  InPlace(sequencers', firstLookSequencers')
  <2>1. /\ sequencers'[who].priorityIndex = Len(firstLookSequencers)
        /\ \A x \in Accounts : x # who => sequencers'[x] = sequencers[x]
    <3>1. Len(firstLookSequencers) % PRIORITY_INDEXES = Len(firstLookSequencers)
      <4>1. Len(firstLookSequencers) < MaxFirstLook
        BY <1>7 DEF AddFirstLook
      <4> DEFINE n == Len(firstLookSequencers)
      <4>2. n \in Nat /\ n < PRIORITY_INDEXES
        BY <4>1, <1>1 DEF ListFits
      <4> HIDE DEF n
      <4>3. n % PRIORITY_INDEXES = n
        BY <4>2
      <4> QED BY <4>3 DEF n
    <3> QED BY <3>1, <1>7, AddedStatuses
  <2>2. firstLookSequencers' = Append(firstLookSequencers, who)
    BY <1>7 DEF AddFirstLook
  <2>3. \A x \in Accounts : sequencers[x].priorityIndex \in Nat
    BY <1>1 DEF SequencerStatus
  <2> QED BY <1>1, <2>1, <2>2, <2>3 DEF InPlace
<1>8. ASSUME NEW which \in 0 .. Len(firstLookSequencers) - 1, RemoveFirstLook(which)
      PROVE  InPlace(sequencers', firstLookSequencers')
  <2>1. which \in Nat /\ which < Len(firstLookSequencers)
    BY <1>1
  <2> QED BY <1>1, <1>8, <2>1, UnlistedInPlace DEF RemoveFirstLook
<1>9. ASSUME UNCHANGED <<sequencers, firstLookSequencers>>
      PROVE  InPlace(sequencers', firstLookSequencers')
  BY <1>9
<1> QED
  BY <1>3, <1>4, <1>5, <1>6, <1>7, <1>8, <1>9
  DEF RegistryNext, RegistryCall, registryVars, UpdateStakeRequirement,
      ClaimChallengeReward, Exit, Refunded

(* While the list is within uint8's range, the recorded index of every     *)
(* priority sequencer is its place in the list.                            *)
THEOREM PlacesStayRight ==
    ASSUME ListFits
    PROVE  RegistrySpec => []PriorityIndexIsPlace
<1> DEFINE Places == InPlace(sequencers, firstLookSequencers)
<1>1. now = START /\ RegistryInit => Places
  BY DEF RegistryInit, DeletedStatus, InPlace
<1>2. RegistryInv /\ Places /\ [RegistryNext]_<<now, registryVars>> => Places'
  BY PlacesStep
<1>3. Places => PriorityIndexIsPlace
  BY DEF InPlace, PriorityIndexIsPlace
<1> QED BY <1>1, <1>2, <1>3, RegistryInvariant, PTL DEF RegistrySpec

-----------------------------------------------------------------------------
(* The stakes are covered.                                                 *)

StakesOf(statuses) == [who \in Accounts |-> statuses[who].stakeAmount]

StakeSum(statuses) == MapThenSumSet(LAMBDA who : statuses[who].stakeAmount, Accounts)

(* The sum of the stakes is a sum as above.                                *)
LEMMA StakeSumIsTotal ==
    ASSUME NEW statuses
    PROVE  StakeSum(statuses) = Total(StakesOf(statuses), Accounts)
<1> DEFINE K(h) == [s \in SUBSET Accounts |->
                       IF s = {} THEN 0
                       ELSE LET x == CHOOSE x \in s : TRUE
                            IN  statuses[x].stakeAmount + h[s \ {x}]]
<1>1. ASSUME NEW h PROVE (h = K(h)) <=> IsSum(h, StakesOf(statuses), Accounts)
  <2>1. \A s \in SUBSET Accounts : s # {} => (CHOOSE x \in s : TRUE) \in Accounts
    OBVIOUS
  <2> QED BY <2>1 DEF IsSum, StakesOf
<1>2. (CHOOSE h : h = K(h)) = CHOOSE h : IsSum(h, StakesOf(statuses), Accounts)
  <2> HIDE DEF K
  <2> QED BY <1>1
<1> QED BY <1>2 DEF StakeSum, MapThenSumSet, MapThenFoldSet, Total

(* Products of a sum.                                                      *)
LEMMA Distributes ==
    ASSUME NEW d \in Nat, NEW a \in Nat, NEW b \in Nat
    PROVE  d * (a + b) = d * a + d * b /\ d * a \in Nat /\ d * b \in Nat
  OBVIOUS

(* The amounts that leave are covered by the stake they are paid for.      *)
LEMMA StakeIsWorth ==
    ASSUME NEW v \in Nat, NEW d \in Nat \ {0}
    PROVE  d * (v \div d) <= v /\ v \div 2 <= v
<1>1. v = d * (v \div d) + (v % d) /\ v % d \in Nat /\ v \div d \in Nat
  OBVIOUS
<1> QED BY <1>1

(* Every step keeps the stakes covered.                                    *)
LEMMA CoveredStep ==
    ASSUME RegistryInv, [RegistryNext]_<<now, registryVars>>,
           balance >= STAKE_DIVISOR * StakeSum(sequencers)
    PROVE  balance' >= STAKE_DIVISOR * StakeSum(sequencers')
<1> DEFINE g == StakesOf(sequencers)
           f == StakesOf(sequencers')
           old == Total(g, Accounts)
           new == Total(f, Accounts)
<1>1. /\ sequencers \in [Accounts -> SequencerStatus]
      /\ sequencers' \in [Accounts -> SequencerStatus]
      /\ balance \in Nat /\ balance' \in Nat
  BY RegistryInvStep DEF RegistryInv, RegistryTypeOK
<1>2. \A x \in Accounts : /\ g[x] = sequencers[x].stakeAmount /\ g[x] \in Nat
                         /\ f[x] = sequencers'[x].stakeAmount /\ f[x] \in Nat
  BY <1>1 DEF StakesOf, SequencerStatus
<1>3. IsFiniteSet(Accounts)
  BY AccountsAssumption
<1> HIDE DEF g, f
<1>4. old \in Nat /\ new \in Nat
  BY <1>2, <1>3, TotalIsSum
<1>5. balance >= STAKE_DIVISOR * old
  BY StakeSumIsTotal DEF g
<1>6. SUFFICES balance' >= STAKE_DIVISOR * new
  BY StakeSumIsTotal DEF f
<1>7. ASSUME \A x \in Accounts : sequencers'[x].stakeAmount = sequencers[x].stakeAmount,
             balance' = balance
      PROVE  balance' >= STAKE_DIVISOR * new
  <2>1. new = old
    BY <1>2, <1>3, <1>7, TotalOfSame
  <2> QED BY <1>5, <1>7, <2>1
<1>8. ASSUME NEW who \in Accounts, NEW wei \in FundAmounts, Fund(who, wei)
      PROVE  balance' >= STAKE_DIVISOR * new
  <2> DEFINE units == wei \div STAKE_DIVISOR
             raised == sequencers[who].stakeAmount + units
  <2>1. wei \in Nat /\ units \in Nat /\ STAKE_DIVISOR * units <= wei
    BY StakeIsWorth
  <2>2. /\ sequencers' = [sequencers EXCEPT ![who].isActive = TRUE, ![who].stakeAmount = raised]
        /\ balance' = balance + wei
    BY <1>8 DEF Fund, Funded
  <2> HIDE DEF units
  <2>3. \A x \in Accounts : sequencers'[x].stakeAmount =
            IF x = who THEN raised ELSE sequencers[x].stakeAmount
    <3> HIDE DEF raised
    <3> QED BY <1>1, <2>2 DEF SequencerStatus
  <2>4. \A x \in Accounts : f[x] = IF x = who THEN g[x] + units ELSE g[x]
    BY <1>2, <2>3
  <2>5. new = old - g[who] + f[who]
    BY <1>2, <1>3, <2>4, TotalOfChange
  <2> HIDE DEF raised, old, new
  <2>6. new = old + units
    BY <1>2, <1>4, <2>1, <2>4, <2>5
  <2>7. STAKE_DIVISOR * new = STAKE_DIVISOR * old + STAKE_DIVISOR * units
        /\ STAKE_DIVISOR * old \in Nat /\ STAKE_DIVISOR * units \in Nat
    BY <1>4, <2>1, <2>6, Distributes
  <2> QED BY <1>1, <1>5, <2>1, <2>2, <2>7
<1>9. ASSUME NEW who \in Accounts, NEW amount \in Nat, PayAndDelete(who, amount),
             amount <= sequencers[who].stakeAmount * STAKE_DIVISOR
      PROVE  balance' >= STAKE_DIVISOR * new
  <2>1. \A x \in Accounts : f[x] = IF x = who THEN 0 ELSE g[x]
    BY <1>1, <1>2, <1>9 DEF PayAndDelete, DeletedStatus
  <2>2. new = old - g[who] + f[who]
    BY <1>2, <1>3, <2>1, TotalOfChange
  <2> HIDE DEF old, new
  <2>3. old = new + g[who] /\ g[who] \in Nat
    BY <1>2, <1>4, <2>1, <2>2
  <2>4. STAKE_DIVISOR * old = STAKE_DIVISOR * new + STAKE_DIVISOR * g[who]
        /\ STAKE_DIVISOR * new \in Nat /\ STAKE_DIVISOR * g[who] \in Nat
    BY <1>4, <2>3, Distributes
  <2>5. amount <= STAKE_DIVISOR * g[who] /\ balance' = balance - amount
    BY <1>2, <1>9 DEF PayAndDelete
  <2> QED BY <1>1, <1>5, <2>4, <2>5
<1>10. ASSUME NEW who \in Accounts, ClaimChallengeReward(who)
       PROVE  balance' >= STAKE_DIVISOR * new
  <2> DEFINE stake == sequencers[who].stakeAmount
             worth == stake * STAKE_DIVISOR
  <2>1. stake \in Nat
    BY <1>1 DEF SequencerStatus
  <2> HIDE DEF stake
  <2>2. worth \in Nat
    BY <2>1, Arithmetic
  <2>3. PayAndDelete(who, worth \div 2)
    BY <1>10 DEF ClaimChallengeReward, stake
  <2> HIDE DEF worth
  <2>4. worth \div 2 \in Nat /\ worth \div 2 <= worth
    BY <2>2
  <2> QED BY <1>9, <2>3, <2>4 DEF worth, stake
<1>11. ASSUME NEW who \in Accounts, Exit(who)
       PROVE  balance' >= STAKE_DIVISOR * new
  <2> DEFINE stake == sequencers[who].stakeAmount
             worth == stake * STAKE_DIVISOR
  <2>1. stake \in Nat
    BY <1>1 DEF SequencerStatus
  <2> HIDE DEF stake
  <2>2. worth \in Nat
    BY <2>1, Arithmetic
  <2>3. PayAndDelete(who, worth)
    BY <1>11 DEF Exit, Refunded, stake
  <2> HIDE DEF worth
  <2>4. worth <= worth
    BY <2>2
  <2> QED BY <1>9, <2>2, <2>3, <2>4 DEF worth, stake
<1>12. ASSUME NEW who \in Accounts, RegisterExit(who)
       PROVE  balance' >= STAKE_DIVISOR * new
  <2> DEFINE left == [sequencers[who] EXCEPT !.isActive = FALSE]
             statuses == [sequencers EXCEPT ![who] = left]
  <2>1. left \in SequencerStatus /\ left.stakeAmount = sequencers[who].stakeAmount
    BY <1>1 DEF SequencerStatus
  <2>2. LeaveList(statuses, who) /\ balance' = balance /\ RegistryTypeOK
    BY <1>1, <1>12 DEF RegisterExit, RegistryInv
  <2> HIDE DEF left
  <2>3. /\ statuses \in [Accounts -> SequencerStatus]
        /\ \A x \in Accounts : statuses[x].stakeAmount = sequencers[x].stakeAmount
    BY <1>1, <2>1
  <2> HIDE DEF statuses
  <2>4. \A x \in Accounts : SameChallenge(sequencers'[x], statuses[x])
    BY <2>2, <2>3, LeaveListFacts
  <2> QED BY <1>7, <2>2, <2>3, <2>4 DEF SameChallenge
<1>13. ASSUME NEW who \in Accounts, AddFirstLook(who)
       PROVE  balance' >= STAKE_DIVISOR * new
  <2>1. \A x \in Accounts : SameChallenge(sequencers'[x], sequencers[x])
    BY <1>13, AddedStatuses
  <2>2. balance' = balance
    BY <1>13 DEF AddFirstLook
  <2> QED BY <1>7, <2>1, <2>2 DEF SameChallenge
<1>14. ASSUME NEW which \in 0 .. Len(firstLookSequencers) - 1, RemoveFirstLook(which)
       PROVE  balance' >= STAKE_DIVISOR * new
  <2>1. /\ firstLookSequencers \in Seq(Accounts) /\ which \in Nat
        /\ which < Len(firstLookSequencers)
        /\ sequencers' = Unlisted(sequencers, which) /\ balance' = balance
    BY <1>14 DEF RemoveFirstLook, RegistryInv, RegistryTypeOK
  <2>2. \A x \in Accounts : SameChallenge(sequencers'[x], sequencers[x])
    BY <1>1, <2>1, UnlistedFacts
  <2> QED BY <1>7, <2>1, <2>2 DEF SameChallenge
<1>15. ASSUME NEW who \in Accounts, NEW sender \in Accounts, NEW n \in Nat,
              Slash(who, n, sender), UNCHANGED now
       PROVE  balance' >= STAKE_DIVISOR * new
  <2>1. \A x \in Accounts : sequencers'[x].stakeAmount = sequencers[x].stakeAmount
    BY <1>15, SlashPreserves
  <2>2. balance' = balance
    BY <1>15 DEF Slash
  <2> QED BY <1>7, <2>1, <2>2
<1>16. ASSUME UNCHANGED <<sequencers, balance>>
       PROVE  balance' >= STAKE_DIVISOR * new
  BY <1>7, <1>16
<1> HIDE DEF new
<1> QED
  BY <1>8, <1>10, <1>11, <1>12, <1>13, <1>14, <1>15, <1>16
  DEF RegistryNext, RegistryCall, registryVars, UpdateStakeRequirement

(* The contract can pay back every stake on record: no sequence of fund,   *)
(* slash, claimChallengeReward and exit pays out what is not covered.      *)
THEOREM StakesAreCovered == RegistrySpec => []Solvent
<1> DEFINE Covered == balance >= STAKE_DIVISOR * StakeSum(sequencers)
<1>1. now = START /\ RegistryInit => Covered
  <2> SUFFICES ASSUME RegistryInit PROVE Covered
    OBVIOUS
  <2> DEFINE g == StakesOf(sequencers)
  <2>1. \A x \in Accounts : g[x] \in Nat /\ g[x] <= 0
    BY DEF RegistryInit, StakesOf, DeletedStatus
  <2> HIDE DEF g
  <2>2. Total(g, Accounts) <= Cardinality(Accounts) * 0 /\ Total(g, Accounts) \in Nat
        /\ Cardinality(Accounts) \in Nat
    BY <2>1, AccountsAssumption, TotalWithin, TotalIsSum, FS_CardinalityType
  <2>3. Total(g, Accounts) = 0
    BY <2>2
  <2>4. StakeSum(sequencers) = 0 /\ balance = 0
    BY <2>3, StakeSumIsTotal DEF g, RegistryInit
  <2> QED BY <2>4
<1>2. RegistryInv /\ Covered /\ [RegistryNext]_<<now, registryVars>> => Covered'
  BY CoveredStep
<1>3. Covered => Solvent
  BY DEF Solvent, StakeSum, MapThenSumSet, MapThenFoldSet
<1> QED BY <1>1, <1>2, <1>3, RegistryInvariant, PTL DEF RegistrySpec

-----------------------------------------------------------------------------
(* The yield router.                                                       *)

(* Amounts are numbers, whatever is divided by what.                       *)
LEMMA QuotientIsNat ==
    ASSUME NEW a \in Nat, NEW b \in Nat, NEW c \in Nat \ {0}
    PROVE  (a * b) \div c \in Nat /\ a \div c \in Nat
<1>1. a * b \in Nat
  OBVIOUS
<1> DEFINE p == a * b
<1>2. p \in Nat
  BY <1>1
<1> HIDE DEF p
<1>3. p \div c \in Nat /\ a \div c \in Nat
  BY <1>2
<1> QED BY <1>3 DEF p

(* What truncating takes off.                                              *)
LEMMA QuotientBounds ==
    ASSUME NEW a \in Nat, NEW b \in Nat \ {0}
    PROVE  a \div b \in Nat /\ b * (a \div b) <= a /\ a < b * (a \div b) + b
<1>1. a = b * (a \div b) + (a % b) /\ a % b \in Nat /\ a % b < b /\ a \div b \in Nat
  OBVIOUS
<1> QED BY <1>1

(* A product grows with its factors.                                       *)
LEMMA ProductGrows ==
    ASSUME NEW d \in Nat, NEW a \in Nat, NEW b \in Nat, a <= b
    PROVE  d * a <= d * b /\ d * a \in Nat
<1>1. PICK k \in Nat : b = a + k
  <2>1. b - a \in Nat /\ b = a + (b - a)
    OBVIOUS
  <2> QED BY <2>1
<1>2. d * (a + k) = d * a + d * k /\ d * a \in Nat /\ d * k \in Nat
  BY Distributes
<1> QED BY <1>1, <1>2

(* What is at least a multiple stays so when it is divided.                *)
LEMMA QuotientAtLeast ==
    ASSUME NEW m \in Nat, NEW b \in Nat \ {0}, NEW c \in Nat, b * c <= m
    PROVE  c <= m \div b
<1> DEFINE y == m \div b
<1>1. y \in Nat /\ m < b * y + b
  BY QuotientBounds
<1> HIDE DEF y
<1>2. SUFFICES ASSUME y + 1 <= c PROVE FALSE
  BY <1>1 DEF y
<1>3. b * (y + 1) <= b * c
  BY <1>1, <1>2, ProductGrows
<1>4. b * (y + 1) = b * y + b * 1 /\ b * 1 = b /\ b * y \in Nat /\ b * c \in Nat
  BY <1>1, Distributes
<1> QED BY <1>1, <1>3, <1>4

(* One entry of a table of a table.                                        *)
LEMMA EntrySet ==
    ASSUME NEW K, NEW L, NEW w \in [K -> [L -> Nat]], NEW t \in K, NEW v \in L, NEW n \in Nat
    PROVE  LET x == [w EXCEPT ![t][v] = n]
           IN  /\ x \in [K -> [L -> Nat]]
               /\ x[t][v] = n
               /\ \A k \in K, l \in L : (k # t \/ l # v) => x[k][l] = w[k][l]
  OBVIOUS

(* What a token with a source is worth is a number.                        *)
LEMMA InvestedFacts ==
    ASSUME RouterTypeOK, NEW t \in Tokens, HasSource(t)
    PROVE  sources[t] \in Vaults /\ Invested(t) \in Nat /\ Yield(t) \in Nat
<1>1. sources[t] \in Vaults /\ value[t] \in [Vaults -> Nat] /\ priorBalances[t] \in Nat
      /\ maxInterest[t] \in Nat
  BY DEF RouterTypeOK, HasSource
<1>2. Invested(t) \in Nat
  BY <1>1 DEF Invested
<1> QED BY <1>1, <1>2 DEF Yield

(* What each call does to the value of the sources and to the principal.   *)
LEMMA TriggerDepositFacts ==
    ASSUME RouterTypeOK, NEW t \in Tokens, NEW a \in Nat, TriggerDeposit(t, a)
    PROVE  /\ RouterTypeOK'
           /\ HasSource(t) /\ Invested(t)' = Invested(t) + a
           /\ priorBalances'[t] = priorBalances[t] + a
           /\ \A x \in Tokens \ {t} : /\ priorBalances'[x] = priorBalances[x]
                                      /\ HasSource(x) => Invested(x)' = Invested(x)
           /\ UNCHANGED <<sources, periodPayouts, paidOut>>
<1>1. /\ HasSource(t)
      /\ priorBalances' = [priorBalances EXCEPT ![t] = @ + a]
      /\ value' = [value EXCEPT ![t][sources[t]] = Invested(t) + a]
      /\ UNCHANGED <<routerConfig, sources, periodPayouts, reportedPeriod, paidOut>>
  BY DEF TriggerDeposit, Invested
<1>2. sources[t] \in Vaults /\ Invested(t) \in Nat /\ Invested(t) + a \in Nat
  BY <1>1, InvestedFacts
<1>3. /\ value \in [Tokens -> [Vaults -> Nat]] /\ sources \in [Tokens -> Vaults \cup {NoVault}]
      /\ priorBalances \in [Tokens -> Nat]
  BY DEF RouterTypeOK
<1>4. /\ value' \in [Tokens -> [Vaults -> Nat]] /\ value'[t][sources[t]] = Invested(t) + a
      /\ \A k \in Tokens, l \in Vaults : k # t => value'[k][l] = value[k][l]
  BY <1>1, <1>2, <1>3, EntrySet
<1>5. RouterTypeOK'
  BY <1>1, <1>3, <1>4 DEF RouterTypeOK, routerConfig
<1>6. \A x \in Tokens \ {t} : HasSource(x) => Invested(x)' = Invested(x)
  BY <1>1, <1>3, <1>4 DEF HasSource, Invested
<1> QED BY <1>1, <1>3, <1>4, <1>5, <1>6 DEF Invested

(* A withdrawal pays a number, its amount when nothing was lost, and never *)
(* less.                                                                   *)
LEMMA UserAmountFacts ==
    ASSUME RouterTypeOK, NEW t \in Tokens, NEW a \in Nat, HasSource(t),
           priorBalances[t] > Invested(t) => Invested(t) > 0
    PROVE  /\ UserAmount(t, a) \in Nat
           /\ a <= UserAmount(t, a)
           /\ priorBalances[t] > Invested(t) \/ UserAmount(t, a) = a
<1> DEFINE p == priorBalances[t]
           i == Invested(t)
           q == (p * FIXED_BASE) \div i
<1>1. p \in Nat /\ i \in Nat /\ FIXED_BASE \in Nat \ {0}
  BY InvestedFacts, RouterAssumption DEF RouterTypeOK
<1>2. UserAmount(t, a) = IF p > i THEN (q * a) \div FIXED_BASE ELSE a
  BY DEF UserAmount
<1> SUFFICES /\ UserAmount(t, a) \in Nat
             /\ a <= UserAmount(t, a)
             /\ p > i \/ UserAmount(t, a) = a
  OBVIOUS
<1>3. i = 0 => ~(p > i)
  OBVIOUS
<1> HIDE DEF p, i
<1>4. CASE p > i
  <2>1. i \in Nat \ {0}
    BY <1>1, <1>3, <1>4
  <2>2. q \in Nat
    BY <1>1, <2>1, QuotientIsNat
  <2>3. FIXED_BASE <= q
    <3> DEFINE m == p * FIXED_BASE
    <3>1. FIXED_BASE * i <= FIXED_BASE * p
      BY <1>1, <1>4, ProductGrows
    <3>2. m \in Nat /\ i * FIXED_BASE <= m
      BY <1>1, <3>1
    <3> HIDE DEF m
    <3>3. FIXED_BASE <= m \div i
      BY <1>1, <2>1, <3>2, QuotientAtLeast
    <3> QED BY <3>3 DEF m
  <2> HIDE DEF q
  <2> DEFINE m == q * a
  <2>4. m \in Nat /\ FIXED_BASE * a <= m
    <3>1. a * FIXED_BASE <= a * q
      BY <1>1, <2>2, <2>3, ProductGrows
    <3> QED BY <1>1, <2>2, <3>1
  <2> HIDE DEF m
  <2>5. a <= m \div FIXED_BASE /\ m \div FIXED_BASE \in Nat
    BY <1>1, <2>4, QuotientAtLeast, QuotientBounds
  <2> QED BY <1>2, <1>4, <2>5 DEF m
<1> QED BY <1>1, <1>2, <1>4

(* A withdrawal takes what it pays off both sides.                         *)
LEMMA TriggerWithdrawFacts ==
    ASSUME RouterTypeOK, NEW t \in Tokens, NEW a \in Nat, TriggerWithdraw(t, a)
    PROVE  /\ RouterTypeOK'
           /\ HasSource(t)
           /\ \E paid \in Nat : /\ Invested(t)' = Invested(t) - paid
                                /\ priorBalances'[t] = priorBalances[t] - paid
                                /\ priorBalances' = [priorBalances EXCEPT ![t] = @ - paid]
                                /\ a <= paid /\ paid <= priorBalances[t]
                                /\ priorBalances[t] > Invested(t) \/ paid = a
           /\ \A x \in Tokens \ {t} : /\ priorBalances'[x] = priorBalances[x]
                                      /\ HasSource(x) => Invested(x)' = Invested(x)
           /\ UNCHANGED <<sources, periodPayouts, paidOut>>
<1> DEFINE paid == UserAmount(t, a)
<1>1. /\ HasSource(t)
      /\ priorBalances[t] > Invested(t) => Invested(t) > 0
      /\ paid <= Invested(t) /\ paid <= priorBalances[t]
      /\ priorBalances' = [priorBalances EXCEPT ![t] = @ - paid]
      /\ value' = [value EXCEPT ![t][sources[t]] = Invested(t) - paid]
      /\ UNCHANGED <<routerConfig, sources, periodPayouts, reportedPeriod, paidOut>>
  BY DEF TriggerWithdraw, Invested
<1>2. paid \in Nat /\ a <= paid /\ (priorBalances[t] > Invested(t) \/ paid = a)
  BY <1>1, UserAmountFacts
<1> HIDE DEF paid
<1>3. /\ value \in [Tokens -> [Vaults -> Nat]] /\ sources \in [Tokens -> Vaults \cup {NoVault}]
      /\ priorBalances \in [Tokens -> Nat]
  BY DEF RouterTypeOK
<1>4. sources[t] \in Vaults /\ Invested(t) \in Nat /\ Invested(t) - paid \in Nat
      /\ priorBalances[t] - paid \in Nat
  BY <1>1, <1>2, <1>3, InvestedFacts
<1>5. /\ value' \in [Tokens -> [Vaults -> Nat]] /\ value'[t][sources[t]] = Invested(t) - paid
      /\ \A k \in Tokens, l \in Vaults : k # t => value'[k][l] = value[k][l]
  BY <1>1, <1>3, <1>4, EntrySet
<1>6. RouterTypeOK'
  BY <1>1, <1>3, <1>4, <1>5 DEF RouterTypeOK, routerConfig
<1>7. \A x \in Tokens \ {t} : HasSource(x) => Invested(x)' = Invested(x)
  BY <1>1, <1>3, <1>5 DEF HasSource, Invested
<1>8. Invested(t)' = Invested(t) - paid /\ priorBalances'[t] = priorBalances[t] - paid
  BY <1>1, <1>3, <1>5 DEF Invested
<1> QED BY <1>1, <1>2, <1>3, <1>6, <1>7, <1>8

(* Recording the yield of a period, in poke and in recognizeYield.         *)
LEMMA RecordFacts ==
    ASSUME RouterTypeOK, NEW ts \in SUBSET Tokens, CurrentPeriod \in Periods, Record(ts)
    PROVE  /\ periodPayouts' \in [Tokens -> [Periods -> Nat]]
           /\ priorBalances' \in [Tokens -> Nat]
           /\ \A t \in Tokens :
                  \/ /\ priorBalances'[t] = priorBalances[t]
                     /\ periodPayouts'[t] = periodPayouts[t]
                  \/ /\ HasSource(t)
                     /\ priorBalances'[t] = priorBalances[t] + Yield(t)
                     /\ periodPayouts[t][CurrentPeriod] = 0
                     /\ periodPayouts'[t][CurrentPeriod] = Yield(t)
                     /\ \A p \in Periods \ {CurrentPeriod} :
                            periodPayouts'[t][p] = periodPayouts[t][p]
<1> DEFINE fresh == {t \in ts : periodPayouts[t][CurrentPeriod] = 0}
<1>1. /\ periodPayouts \in [Tokens -> [Periods -> Nat]] /\ priorBalances \in [Tokens -> Nat]
      /\ fresh \subseteq Tokens
  BY DEF RouterTypeOK
<1>2. /\ \A t \in fresh : HasSource(t)
      /\ periodPayouts' = [t \in Tokens |->
             IF t \in fresh THEN [periodPayouts[t] EXCEPT ![CurrentPeriod] = Yield(t)]
             ELSE periodPayouts[t]]
      /\ priorBalances' = [t \in Tokens |->
             IF t \in fresh THEN priorBalances[t] + Yield(t) ELSE priorBalances[t]]
  BY DEF Record
<1>3. \A t \in fresh : /\ HasSource(t) /\ Yield(t) \in Nat
                       /\ periodPayouts[t][CurrentPeriod] = 0
  BY <1>1, <1>2, InvestedFacts
<1> HIDE DEF fresh
<1>4. ASSUME NEW t \in fresh
      PROVE  /\ periodPayouts'[t] \in [Periods -> Nat]
             /\ periodPayouts'[t][CurrentPeriod] = Yield(t)
             /\ \A p \in Periods \ {CurrentPeriod} : periodPayouts'[t][p] = periodPayouts[t][p]
             /\ priorBalances'[t] = priorBalances[t] + Yield(t) /\ priorBalances'[t] \in Nat
  <2>1. periodPayouts'[t] = [periodPayouts[t] EXCEPT ![CurrentPeriod] = Yield(t)]
    BY <1>1, <1>2
  <2>2. periodPayouts[t] \in [Periods -> Nat] /\ Yield(t) \in Nat
    BY <1>1, <1>3
  <2>3. priorBalances'[t] = priorBalances[t] + Yield(t) /\ priorBalances[t] \in Nat
    BY <1>1, <1>2
  <2> QED BY <2>1, <2>2, <2>3
<1>5. \A t \in Tokens \ fresh : /\ priorBalances'[t] = priorBalances[t]
                               /\ periodPayouts'[t] = periodPayouts[t]
  BY <1>2
<1>6. periodPayouts' \in [Tokens -> [Periods -> Nat]]
  <2>1. \A t \in Tokens : periodPayouts'[t] \in [Periods -> Nat]
    BY <1>1, <1>4, <1>5
  <2>2. periodPayouts' = [t \in Tokens |-> periodPayouts'[t]]
    BY <1>2
  <2> QED BY <2>1, <2>2
<1>7. priorBalances' \in [Tokens -> Nat]
  <2>1. \A t \in Tokens : priorBalances'[t] \in Nat
    BY <1>1, <1>4, <1>5
  <2>2. priorBalances' = [t \in Tokens |-> priorBalances'[t]]
    BY <1>2
  <2> QED BY <2>1, <2>2
<1> QED BY <1>3, <1>4, <1>5, <1>6, <1>7

(* Paying a sequencer its share.                                           *)
LEMMA ClaimIsNat ==
    ASSUME RouterTypeOK, NEW t \in Tokens, NEW e \in Nat, Period(e) \in Periods,
           NEW share \in Nat
    PROVE  Claim(t, e, share) \in Nat
<1>1. periodPayouts[t][Period(e)] \in Nat
  BY DEF RouterTypeOK
<1> DEFINE q == periodPayouts[t][Period(e)] \div EPOCHS_PER_PERIOD
<1>2. q \in Nat
  BY <1>1, QuotientIsNat, RouterAssumption
<1> HIDE DEF q
<1>3. (q * share) \div FIXED_BASE \in Nat
  BY <1>2, QuotientIsNat, RouterAssumption
<1> QED BY <1>3 DEF Claim, q

(* A claim is taken off the source and marked as paid.                     *)
LEMMA ClaimedFacts ==
    ASSUME RouterTypeOK, NEW t \in Tokens, NEW s, NEW e \in Nat, NEW b, NEW f, NEW share \in Nat,
           SequencerWithdrawAsset(t, s, e, b, f, share)
    PROVE  /\ RouterTypeOK'
           /\ HasSource(t) /\ Period(e) \in Periods /\ Claim(t, e, share) \in Nat
           /\ <<s, e, t>> \notin paidOut
           /\ paidOut' = paidOut \cup {<<s, e, t>>}
           /\ Invested(t)' = Invested(t) - Claim(t, e, share)
           /\ \A x \in Tokens \ {t} : HasSource(x) => Invested(x)' = Invested(x)
           /\ UNCHANGED <<sources, priorBalances, periodPayouts>>
<1> DEFINE paid == Claim(t, e, share)
<1>1. /\ HasSource(t) /\ Period(e) \in Periods /\ paid <= Invested(t)
      /\ <<s, e, t>> \notin paidOut
      /\ paidOut' = paidOut \cup {<<s, e, t>>}
      /\ value' = [value EXCEPT ![t][sources[t]] = Invested(t) - paid]
      /\ UNCHANGED <<routerConfig, sources, priorBalances, periodPayouts, reportedPeriod>>
  BY DEF SequencerWithdrawAsset, Invested
<1>2. paid \in Nat
  BY <1>1, ClaimIsNat
<1> HIDE DEF paid
<1>3. value \in [Tokens -> [Vaults -> Nat]] /\ sources \in [Tokens -> Vaults \cup {NoVault}]
  BY DEF RouterTypeOK
<1>4. sources[t] \in Vaults /\ Invested(t) \in Nat /\ Invested(t) - paid \in Nat
  BY <1>1, <1>2, <1>3, InvestedFacts
<1>5. /\ value' \in [Tokens -> [Vaults -> Nat]] /\ value'[t][sources[t]] = Invested(t) - paid
      /\ \A k \in Tokens, l \in Vaults : k # t => value'[k][l] = value[k][l]
  BY <1>1, <1>3, <1>4, EntrySet
<1>6. RouterTypeOK'
  BY <1>1, <1>3, <1>5 DEF RouterTypeOK, routerConfig
<1>7. \A x \in Tokens \ {t} : HasSource(x) => Invested(x)' = Invested(x)
  BY <1>1, <1>3, <1>5 DEF HasSource, Invested
<1>8. Invested(t)' = Invested(t) - paid
  BY <1>1, <1>3, <1>5 DEF Invested
<1> QED BY <1>1, <1>2, <1>6, <1>7, <1>8 DEF paid

(* Moving to another vault, and the market.                                *)
LEMMA MigrationFacts ==
    ASSUME RouterTypeOK, NEW t \in Tokens, NEW v \in Vaults, ChangeYieldSource(t, v)
    PROVE  /\ RouterTypeOK'
           /\ sources'[t] \in Vaults
           /\ Invested(t)' \in Nat
           /\ HasSource(t) => Invested(t)' >= Invested(t)
           /\ \A x \in Tokens \ {t} : sources'[x] = sources[x] /\ value'[x] = value[x]
           /\ UNCHANGED <<priorBalances, periodPayouts, paidOut>>
<1> DEFINE moved == IF HasSource(t) THEN Invested(t) ELSE idle[t]
           emptied == [w \in Vaults |-> IF w = sources[t] THEN 0 ELSE value[t][w]]
<1>1. /\ value' = [value EXCEPT ![t] = [emptied EXCEPT ![v] = @ + moved]]
      /\ idle' = IF HasSource(t) THEN idle ELSE [idle EXCEPT ![t] = 0]
      /\ sources' = [sources EXCEPT ![t] = v]
      /\ UNCHANGED <<tracked, maxInterest, priorBalances, periodPayouts, reportedPeriod, paidOut>>
  BY DEF ChangeYieldSource
<1>2. /\ value \in [Tokens -> [Vaults -> Nat]] /\ sources \in [Tokens -> Vaults \cup {NoVault}]
      /\ idle \in [Tokens -> Nat]
  BY DEF RouterTypeOK
<1>3. moved \in Nat /\ (HasSource(t) => moved = Invested(t))
  BY <1>2, InvestedFacts
<1>4. emptied \in [Vaults -> Nat]
  BY <1>2
<1> HIDE DEF moved, emptied
<1> DEFINE row == [emptied EXCEPT ![v] = @ + moved]
<1>5. row \in [Vaults -> Nat] /\ row[v] = emptied[v] + moved /\ row[v] >= moved
  BY <1>3, <1>4
<1> HIDE DEF row
<1>6. /\ value' \in [Tokens -> [Vaults -> Nat]] /\ value'[t] = row
      /\ \A x \in Tokens \ {t} : value'[x] = value[x]
  BY <1>1, <1>2, <1>5 DEF row
<1>7. /\ sources' \in [Tokens -> Vaults \cup {NoVault}] /\ sources'[t] = v
      /\ \A x \in Tokens \ {t} : sources'[x] = sources[x]
  BY <1>1, <1>2
<1>8. idle' \in [Tokens -> Nat]
  BY <1>1, <1>2
<1>9. RouterTypeOK'
  BY <1>1, <1>6, <1>7, <1>8 DEF RouterTypeOK
<1>10. Invested(t)' = row[v] /\ row[v] \in Nat
  BY <1>5, <1>6, <1>7 DEF Invested
<1>11. sources'[t] \in Vaults
  BY <1>7
<1>12. HasSource(t) => Invested(t)' >= Invested(t)
  BY <1>3, <1>5, <1>10
<1>13. \A x \in Tokens \ {t} : sources'[x] = sources[x] /\ value'[x] = value[x]
  BY <1>6, <1>7
<1>14. UNCHANGED <<priorBalances, periodPayouts, paidOut>>
  BY <1>1
<1>15. Invested(t)' \in Nat
  BY <1>10
<1> QED BY <1>9, <1>11, <1>12, <1>13, <1>14, <1>15

(* The market moves the value of one source.                               *)
LEMMA ReturnFacts ==
    ASSUME RouterTypeOK, NEW t \in Tokens, NEW v \in Vaults, NEW worth \in Nat,
           VaultReturn(t, v, worth)
    PROVE  /\ RouterTypeOK'
           /\ worth >= value[t][v] =>
                  \A x \in Tokens : HasSource(x) => Invested(x)' >= Invested(x)
           /\ UNCHANGED <<sources, priorBalances, periodPayouts, paidOut>>
<1>1. /\ value' = [value EXCEPT ![t][v] = worth]
      /\ UNCHANGED <<routerConfig, sources, priorBalances, periodPayouts, reportedPeriod, paidOut>>
  BY DEF VaultReturn
<1>2. value \in [Tokens -> [Vaults -> Nat]] /\ sources \in [Tokens -> Vaults \cup {NoVault}]
  BY DEF RouterTypeOK
<1>3. /\ value' \in [Tokens -> [Vaults -> Nat]] /\ value'[t][v] = worth
      /\ \A k \in Tokens, l \in Vaults : (k # t \/ l # v) => value'[k][l] = value[k][l]
  BY <1>1, <1>2, EntrySet
<1>4. RouterTypeOK'
  BY <1>1, <1>3 DEF RouterTypeOK, routerConfig
<1>5. ASSUME worth >= value[t][v], NEW x \in Tokens, HasSource(x)
      PROVE  Invested(x)' >= Invested(x)
  <2>1. sources[x] \in Vaults /\ sources'[x] = sources[x] /\ value[x][sources[x]] \in Nat
    BY <1>1, <1>2, <1>5 DEF HasSource
  <2>2. value'[x][sources[x]] >= value[x][sources[x]]
    BY <1>3, <1>5, <2>1
  <2> QED BY <2>1, <2>2 DEF Invested
<1> QED BY <1>1, <1>4, <1>5

(* The shares of one quota: a part of a sum that is at most b, of q.       *)
LEMMA ShareOfQuota ==
    ASSUME NEW q \in Nat, NEW b \in Nat \ {0}, NEW share \in Nat
    PROVE  (q * share) \div b \in Nat /\ b * ((q * share) \div b) <= q * share
<1> DEFINE a == q * share
<1>1. a \in Nat
  OBVIOUS
<1> HIDE DEF a
<1>2. a \div b \in Nat /\ b * (a \div b) <= a
  BY <1>1, QuotientBounds
<1> QED BY <1>2 DEF a
=============================================================================
