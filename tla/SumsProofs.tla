----------------------------- MODULE SumsProofs -----------------------------
(***************************************************************************)
(* What the proofs need to know of sums over finite sets.  The induction   *)
(* over the set is a minimal counterexample: of the subsets for which a    *)
(* fact fails there would be a smallest one (SmallestSet), which is the    *)
(* sum over one element less plus that element.                            *)
(***************************************************************************)
EXTENDS Sums, FiniteSetTheorems, WellFoundedInduction, TLAPS

\* A non-empty set of natural numbers has a least element.
LEMMA LeastNumber ==
  ASSUME NEW K \in SUBSET Nat, K # {}
  PROVE  \E m \in K : \A n \in K : m <= n
<1> DEFINE R == {ss \in Nat \X Nat : ss[1] < ss[2]}
<1>1. IsWellFoundedOn(R, Nat)
  BY NatLessThanWellFounded DEF OpToRel
<1> HIDE DEF R
<1>2. \E m \in K : \A n \in K : <<n, m>> \notin R
  BY <1>1, WFMin
<1>3. PICK m \in K : \A n \in K : <<n, m>> \notin R
  BY <1>2
<1>4. ASSUME NEW n \in K PROVE m <= n
  <2>1. <<n, m>> \notin R
    BY <1>3
  <2>2. n \in Nat /\ m \in Nat
    OBVIOUS
  <2>3. ~(n < m)
    BY <2>1, <2>2 DEF R
  <2> QED BY <2>2, <2>3
<1> QED BY <1>4

\* The element that CHOOSE takes, which is the one the fold takes.
AnyOf(T) == CHOOSE x \in T : TRUE

\* g is the sum of f over every set of Ts, by the recursion of the fold.
SumsUp(f, Ts, g) ==
  g = [T \in Ts |-> IF T = {} THEN 0 ELSE f[AnyOf(T)] + g[T \ {AnyOf(T)}]]

SumsOf(f, S, g) == SumsUp(f, SUBSET S, g)

\* SumOver is the value of the function the fold defines by CHOOSE.
LEMMA Expand ==
  ASSUME NEW f, NEW S
  PROVE  SumOver(f, S) = (CHOOSE g : SumsOf(f, S, g))[S]
  BY Zenon DEF SumOver, MapThenSumSet, MapThenFoldSet, SumsOf, SumsUp, AnyOf

\* Among the subsets of a finite set that are not as they should be is a smallest one.
LEMMA SmallestSet ==
  ASSUME NEW S, IsFiniteSet(S), NEW Bad \in SUBSET SUBSET S, Bad # {}
  PROVE  \E T \in Bad : \A U \in Bad : Cardinality(T) <= Cardinality(U)
<1> DEFINE K == {Cardinality(T) : T \in Bad}
<1>1. K \in SUBSET Nat /\ K # {}
  BY FS_Subset, FS_CardinalityType
<1>2. PICK m \in K : \A n \in K : m <= n
  <2> HIDE DEF K
  <2> QED BY <1>1, LeastNumber
<1>3. PICK T \in Bad : m = Cardinality(T)
  OBVIOUS
<1> QED BY <1>2, <1>3

\* There is such a function over the subsets of a finite set.
LEMMA SumExists ==
  ASSUME NEW f, NEW S, IsFiniteSet(S)
  PROVE  \E g : SumsOf(f, S, g)
<1> DEFINE Upto(n) == {T \in SUBSET S : Cardinality(T) <= n}
           K == {n \in Nat : ~ \E g : SumsUp(f, Upto(n), g)}
<1>1. ASSUME NEW T \in SUBSET S
      PROVE  /\ IsFiniteSet(T) /\ Cardinality(T) \in Nat /\ Cardinality(T) <= Cardinality(S)
             /\ T # {} => /\ AnyOf(T) \in T /\ T \ {AnyOf(T)} \in SUBSET S
                          /\ Cardinality(T \ {AnyOf(T)}) = Cardinality(T) - 1
             /\ Cardinality(T) = 0 <=> T = {}
  <2>1. IsFiniteSet(T) /\ Cardinality(T) \in Nat /\ Cardinality(T) <= Cardinality(S)
    BY FS_Subset, FS_CardinalityType
  <2>2. Cardinality(T) = 0 <=> T = {}
    BY <2>1, FS_EmptySet
  <2>3. T # {} => AnyOf(T) \in T
    BY DEF AnyOf
  <2>4. T # {} => Cardinality(T \ {AnyOf(T)}) = Cardinality(T) - 1
    BY <2>1, <2>3, FS_RemoveElement
  <2> QED BY <2>1, <2>2, <2>3, <2>4
<1>2. 0 \notin K
  <2> DEFINE g == [T \in Upto(0) |-> 0]
  <2>1. ASSUME NEW T \in Upto(0) PROVE T = {}
    <3>1. T \in SUBSET S /\ Cardinality(T) <= 0
      OBVIOUS
    <3>2. Cardinality(T) \in Nat
      BY <3>1, <1>1
    <3>3. Cardinality(T) = 0
      BY <3>1, <3>2
    <3> QED BY <3>1, <3>3, <1>1
  <2>2. g = [T \in Upto(0) |-> IF T = {} THEN 0 ELSE f[AnyOf(T)] + g[T \ {AnyOf(T)}]]
    BY <2>1
  <2>3. SumsUp(f, Upto(0), g)
    BY <2>2 DEF SumsOf, SumsUp
  <2> QED BY <2>3
<1>3. ASSUME NEW n \in Nat, n \notin K PROVE n + 1 \notin K
  <2>1. PICK g : SumsUp(f, Upto(n), g)
    BY <1>3
  <2> DEFINE h == [T \in Upto(n + 1) |-> IF T = {} THEN 0 ELSE f[AnyOf(T)] + g[T \ {AnyOf(T)}]]
  <2>2. ASSUME NEW T \in Upto(n)
        PROVE  T \in Upto(n + 1) /\ g[T] = h[T]
    <3>1. T \in Upto(n + 1)
      <4>1. T \in SUBSET S /\ Cardinality(T) <= n
        OBVIOUS
      <4>2. Cardinality(T) \in Nat
        BY <4>1, <1>1
      <4> QED BY <4>1, <4>2
    <3>2. g[T] = IF T = {} THEN 0 ELSE f[AnyOf(T)] + g[T \ {AnyOf(T)}]
      BY <2>1 DEF SumsOf, SumsUp
    <3> QED BY <3>1, <3>2
  <2>3. ASSUME NEW T \in Upto(n + 1), T # {}
        PROVE  T \ {AnyOf(T)} \in Upto(n)
    BY <1>1, <1>3, <2>3
  <2>4. h = [T \in Upto(n + 1) |-> IF T = {} THEN 0 ELSE f[AnyOf(T)] + h[T \ {AnyOf(T)}]]
    BY <2>2, <2>3
  <2>5. SumsUp(f, Upto(n + 1), h)
    BY <2>4 DEF SumsOf, SumsUp
  <2> QED BY <2>5
<1>4. K = {}
  <2> SUFFICES ASSUME K # {} PROVE FALSE
    OBVIOUS
  <2> HIDE DEF K
  <2>1. K \in SUBSET Nat
    BY DEF K
  <2>2. PICK m \in K : \A n \in K : m <= n
    BY <2>1, LeastNumber
  <2>3. m \in Nat /\ m # 0
    BY <2>1, <1>2
  <2>4. m - 1 \in Nat /\ m - 1 \notin K
    BY <2>2, <2>3, <2>1
  <2>5. (m - 1) + 1 \notin K
    BY <2>4, <1>3
  <2> QED BY <2>2, <2>3, <2>5
<1>5. Cardinality(S) \in Nat
  BY FS_CardinalityType
<1>6. Upto(Cardinality(S)) = SUBSET S
  BY <1>1
<1> QED BY <1>4, <1>5, <1>6 DEF SumsOf

\* Two such functions agree wherever both are defined.
LEMMA SumUnique ==
  ASSUME NEW S, NEW R, IsFiniteSet(S), S \subseteq R,
         NEW f, NEW g, NEW h, SumsOf(f, S, g), SumsOf(f, R, h)
  PROVE  g[S] = h[S]
<1> DEFINE K == {Cardinality(T) : T \in {U \in SUBSET S : g[U] # h[U]}}
<1>1. ASSUME NEW T \in SUBSET S
      PROVE  IsFiniteSet(T) /\ Cardinality(T) \in Nat
  BY FS_Subset, FS_CardinalityType
<1> SUFFICES ASSUME K # {} PROVE FALSE
  <2>1. ASSUME K = {} PROVE g[S] = h[S]
    BY <2>1
  <2> QED BY <2>1
<1>2. K \in SUBSET Nat
  BY <1>1
<1>3. PICK m \in K : \A n \in K : m <= n
  <2> HIDE DEF K
  <2> QED BY <1>2, LeastNumber
<1>4. PICK T \in SUBSET S : g[T] # h[T] /\ Cardinality(T) = m
  BY <1>3
<1>5. g[{}] = 0 /\ h[{}] = 0
  BY DEF SumsOf, SumsUp
<1>6. T # {}
  BY <1>4, <1>5
<1>7. AnyOf(T) \in T
  BY <1>6 DEF AnyOf
<1> DEFINE U == T \ {AnyOf(T)}
<1>8. g[T] = f[AnyOf(T)] + g[U] /\ h[T] = f[AnyOf(T)] + h[U]
  BY <1>6 DEF SumsOf, SumsUp
<1>9. g[U] # h[U]
  BY <1>8, <1>4
<1>10. U \in SUBSET S /\ Cardinality(U) = Cardinality(T) - 1 /\ Cardinality(T) \in Nat
  BY <1>1, <1>7, FS_RemoveElement
<1>11. Cardinality(U) \in K
  BY <1>9, <1>10
<1>12. m <= Cardinality(U)
  <2> HIDE DEF K
  <2> QED BY <1>3, <1>11
<1> QED BY <1>4, <1>10, <1>12

\* The sum over nothing is zero.
LEMMA SumEmpty ==
  ASSUME NEW f
  PROVE  SumOver(f, {}) = 0
<1>1. PICK g : SumsOf(f, {}, g)
  BY SumExists, FS_EmptySet
<1>2. SumsOf(f, {}, CHOOSE h : SumsOf(f, {}, h))
  BY <1>1
<1> QED BY <1>2, Expand DEF SumsOf, SumsUp

\* The sum over a set, by the element that CHOOSE takes.
LEMMA SumPick ==
  ASSUME NEW f, NEW S, IsFiniteSet(S), S # {}
  PROVE  SumOver(f, S) = f[AnyOf(S)] + SumOver(f, S \ {AnyOf(S)})
<1>1. PICK U : U = S \ {AnyOf(S)}
  OBVIOUS
<1>2. IsFiniteSet(U) /\ U \subseteq S
  BY <1>1, FS_Subset
<1>3. PICK g : g = CHOOSE i : SumsOf(f, S, i)
  OBVIOUS
<1>4. PICK h : h = CHOOSE i : SumsOf(f, U, i)
  OBVIOUS
<1>5. SumsOf(f, S, g)
  BY <1>3, SumExists
<1>6. SumsOf(f, U, h)
  BY <1>2, <1>4, SumExists
<1>7. SumOver(f, S) = g[S] /\ SumOver(f, U) = h[U]
  BY <1>3, <1>4, Expand
<1>8. h[U] = g[U]
  BY <1>2, <1>5, <1>6, SumUnique
<1>9. g[S] = f[AnyOf(S)] + g[U]
  BY <1>1, <1>5 DEF SumsOf, SumsUp
<1> QED BY <1>1, <1>7, <1>8, <1>9

\* Equal summands have equal sums.
LEMMA SumEqual ==
  ASSUME NEW S, IsFiniteSet(S), NEW f, NEW g, \A x \in S : f[x] = g[x]
  PROVE  SumOver(f, S) = SumOver(g, S)
<1> DEFINE Bad == {U \in SUBSET S : SumOver(f, U) # SumOver(g, U)}
<1> SUFFICES ASSUME Bad # {} PROVE FALSE
  OBVIOUS
<1>1. PICK T \in Bad : \A U \in Bad : Cardinality(T) <= Cardinality(U)
  BY SmallestSet
<1>2. T # {}
  BY SumEmpty
<1>3. AnyOf(T) \in T /\ IsFiniteSet(T)
  BY <1>2, FS_Subset DEF AnyOf
<1> DEFINE U == T \ {AnyOf(T)}
<1>4. SumOver(f, T) = f[AnyOf(T)] + SumOver(f, U) /\ SumOver(g, T) = g[AnyOf(T)] + SumOver(g, U)
  BY <1>2, <1>3, SumPick
<1>5. U \in Bad
  BY <1>3, <1>4
<1>6. Cardinality(T) \in Nat /\ Cardinality(U) = Cardinality(T) - 1
  BY <1>3, FS_RemoveElement, FS_CardinalityType
<1>7. Cardinality(T) <= Cardinality(U)
  <2> HIDE DEF Bad
  <2> QED BY <1>1, <1>5
<1> QED BY <1>6, <1>7

\* The sum of integers is an integer.
LEMMA SumType ==
  ASSUME NEW S, IsFiniteSet(S), NEW f, \A x \in S : f[x] \in Int
  PROVE  SumOver(f, S) \in Int
<1> DEFINE Bad == {U \in SUBSET S : SumOver(f, U) \notin Int}
<1> SUFFICES ASSUME Bad # {} PROVE FALSE
  OBVIOUS
<1>1. PICK T \in Bad : \A U \in Bad : Cardinality(T) <= Cardinality(U)
  BY SmallestSet
<1>2. T # {}
  BY SumEmpty
<1>3. AnyOf(T) \in T /\ IsFiniteSet(T)
  BY <1>2, FS_Subset DEF AnyOf
<1> DEFINE U == T \ {AnyOf(T)}
<1>4. SumOver(f, T) = f[AnyOf(T)] + SumOver(f, U)
  BY <1>2, <1>3, SumPick
<1>5. U \in Bad
  BY <1>3, <1>4
<1>6. Cardinality(T) \in Nat /\ Cardinality(U) = Cardinality(T) - 1
  BY <1>3, FS_RemoveElement, FS_CardinalityType
<1>7. Cardinality(T) <= Cardinality(U)
  <2> HIDE DEF Bad
  <2> QED BY <1>1, <1>5
<1> QED BY <1>6, <1>7

\* A sum is any one of its summands and the sum of the others.
LEMMA SumRemove ==
  ASSUME NEW S, IsFiniteSet(S), NEW f, \A x \in S : f[x] \in Int, NEW x \in S
  PROVE  SumOver(f, S) = f[x] + SumOver(f, S \ {x})
<1> DEFINE Bad == {U \in SUBSET S : \E e \in U : SumOver(f, U) # f[e] + SumOver(f, U \ {e})}
<1> SUFFICES ASSUME Bad # {} PROVE FALSE
  OBVIOUS
<1>1. PICK T \in Bad : \A U \in Bad : Cardinality(T) <= Cardinality(U)
  BY SmallestSet
<1>2. PICK e \in T : SumOver(f, T) # f[e] + SumOver(f, T \ {e})
  OBVIOUS
<1>3. IsFiniteSet(T) /\ T \in SUBSET S /\ Cardinality(T) \in Nat
  BY FS_Subset, FS_CardinalityType
<1> DEFINE c == AnyOf(T)
           V == (T \ {c}) \ {e}
<1>4. c \in T
  BY <1>2 DEF AnyOf
<1> HIDE DEF c
<1>5. SumOver(f, T) = f[c] + SumOver(f, T \ {c})
  BY <1>3, <1>4, SumPick DEF c
<1>6. c # e
  BY <1>2, <1>5
<1>7. ASSUME NEW d \in T, NEW a \in T \ {d}
      PROVE  SumOver(f, T \ {d}) = f[a] + SumOver(f, (T \ {d}) \ {a})
  <2>1. T \ {d} \notin Bad
    <3>1. Cardinality(T \ {d}) = Cardinality(T) - 1
      BY <1>3, FS_RemoveElement
    <3> HIDE DEF Bad
    <3> QED BY <1>1, <1>3, <3>1
  <2>2. T \ {d} \in SUBSET S
    BY <1>3
  <2> QED BY <2>1, <2>2
<1>8. SumOver(f, T \ {c}) = f[e] + SumOver(f, V)
  BY <1>4, <1>6, <1>7
<1>9. SumOver(f, T \ {e}) = f[c] + SumOver(f, V)
  <2>1. (T \ {e}) \ {c} = V
    OBVIOUS
  <2> QED BY <1>4, <1>6, <1>7, <2>1
<1>10. f[c] \in Int /\ f[e] \in Int /\ SumOver(f, V) \in Int
  <2>1. V \in SUBSET S /\ c \in S /\ e \in S
    BY <1>3, <1>4
  <2>2. IsFiniteSet(V) /\ \A y \in V : f[y] \in Int
    BY <2>1, FS_Subset
  <2> QED BY <2>1, <2>2, SumType
<1> QED BY <1>2, <1>5, <1>8, <1>9, <1>10

\* A summand more.
LEMMA SumAdd ==
  ASSUME NEW S, IsFiniteSet(S), NEW f, NEW x, x \notin S, \A y \in S \cup {x} : f[y] \in Int
  PROVE  SumOver(f, S \cup {x}) = f[x] + SumOver(f, S)
<1>1. IsFiniteSet(S \cup {x})
  BY FS_AddElement
<1>2. (S \cup {x}) \ {x} = S
  OBVIOUS
<1> QED BY <1>1, <1>2, SumRemove

\* One summand changes.
LEMMA SumChange ==
  ASSUME NEW S, IsFiniteSet(S), NEW x \in S, NEW f, NEW g,
         \A y \in S : f[y] \in Int /\ g[y] \in Int, \A y \in S \ {x} : f[y] = g[y]
  PROVE  SumOver(g, S) = SumOver(f, S) + g[x] - f[x]
<1>1. IsFiniteSet(S \ {x})
  BY FS_Subset
<1>2. SumOver(g, S \ {x}) = SumOver(f, S \ {x}) /\ SumOver(f, S \ {x}) \in Int
  BY <1>1, SumEqual, SumType
<1>3. SumOver(f, S) = f[x] + SumOver(f, S \ {x}) /\ SumOver(g, S) = g[x] + SumOver(g, S \ {x})
  BY SumRemove
<1> QED BY <1>2, <1>3

\* The same summands under other names.
LEMMA SumReindex ==
  ASSUME NEW S, IsFiniteSet(S), NEW R, IsFiniteSet(R), NEW f, NEW g, NEW b,
         \A x \in S : f[x] \in Int /\ g[b[x]] = f[x],
         \A x, y \in S : b[x] = b[y] => x = y,
         R = {b[x] : x \in S}
  PROVE  SumOver(g, R) = SumOver(f, S)
<1> DEFINE Image(U) == {b[x] : x \in U}
           Bad == {U \in SUBSET S : SumOver(g, Image(U)) # SumOver(f, U)}
<1> SUFFICES ASSUME Bad # {} PROVE FALSE
  OBVIOUS
<1>1. PICK T \in Bad : \A U \in Bad : Cardinality(T) <= Cardinality(U)
  BY SmallestSet
<1>2. PICK e \in T : TRUE
  BY SumEmpty
<1> DEFINE U == T \ {e}
<1>3. IsFiniteSet(T) /\ T \in SUBSET S /\ Cardinality(T) \in Nat /\ U \in SUBSET S
  BY FS_Subset, FS_CardinalityType
<1>4. SumOver(f, T) = f[e] + SumOver(f, U)
  BY <1>3, SumRemove
<1>5. SumOver(g, Image(T)) = f[e] + SumOver(g, Image(U))
  <2>1. PICK A : A = Image(T)
    OBVIOUS
  <2>2. PICK k : k = b[e]
    OBVIOUS
  <2>3. IsFiniteSet(A)
    BY <1>3, <2>1, FS_Subset
  <2>4. k \in A /\ g[k] = f[e] /\ \A y \in A : g[y] \in Int
    BY <1>3, <2>1, <2>2
  <2>5. A \ {k} = Image(U)
    BY <1>3, <2>1, <2>2
  <2>6. SumOver(g, A) = g[k] + SumOver(g, A \ {k})
    BY <2>3, <2>4, SumRemove
  <2> QED BY <2>1, <2>4, <2>5, <2>6
<1>6. U \in Bad
  BY <1>3, <1>4, <1>5
<1>7. Cardinality(U) = Cardinality(T) - 1
  BY <1>3, FS_RemoveElement
<1>8. Cardinality(T) <= Cardinality(U)
  <2> HIDE DEF Bad
  <2> QED BY <1>1, <1>6
<1> QED BY <1>3, <1>7, <1>8

\* Greater summands have a greater sum.
LEMMA SumMonotone ==
  ASSUME NEW S, IsFiniteSet(S), NEW f, NEW g, \A x \in S : f[x] \in Int /\ g[x] \in Int /\ f[x] <= g[x]
  PROVE  SumOver(f, S) <= SumOver(g, S)
<1> DEFINE Bad == {U \in SUBSET S : ~ (SumOver(f, U) <= SumOver(g, U))}
<1> SUFFICES ASSUME Bad # {} PROVE FALSE
  OBVIOUS
<1>1. PICK T \in Bad : \A U \in Bad : Cardinality(T) <= Cardinality(U)
  BY SmallestSet
<1>2. T # {}
  BY SumEmpty
<1>3. PICK x \in T : TRUE
  BY <1>2
<1>4. IsFiniteSet(T) /\ Cardinality(T) \in Nat /\ \A y \in T : y \in S
  BY FS_Subset, FS_CardinalityType
<1> DEFINE U == T \ {x}
<1>5. SumOver(f, T) = f[x] + SumOver(f, U) /\ SumOver(g, T) = g[x] + SumOver(g, U)
  BY <1>4, SumRemove
<1>6. Cardinality(U) = Cardinality(T) - 1 /\ IsFiniteSet(U)
  BY <1>4, FS_RemoveElement
<1>7. SumOver(f, U) \in Int /\ SumOver(g, U) \in Int
  BY <1>4, <1>6, SumType
<1>8. U \in Bad
  BY <1>4, <1>5, <1>7
<1>9. Cardinality(T) <= Cardinality(U)
  <2> HIDE DEF Bad
  <2> QED BY <1>1, <1>8
<1> QED BY <1>4, <1>6, <1>9

\* The sums of two functions add up to the sum of their sum.
LEMMA SumPlus ==
  ASSUME NEW S, IsFiniteSet(S), NEW f, NEW g, NEW h,
         \A x \in S : f[x] \in Int /\ g[x] \in Int /\ h[x] = f[x] + g[x]
  PROVE  SumOver(h, S) = SumOver(f, S) + SumOver(g, S)
<1> DEFINE Bad == {U \in SUBSET S : SumOver(h, U) # SumOver(f, U) + SumOver(g, U)}
<1> SUFFICES ASSUME Bad # {} PROVE FALSE
  OBVIOUS
<1>1. PICK T \in Bad : \A U \in Bad : Cardinality(T) <= Cardinality(U)
  BY SmallestSet
<1>2. T # {}
  <2> SUFFICES ASSUME T = {} PROVE FALSE
    OBVIOUS
  <2>1. SumOver(h, T) = 0 /\ SumOver(f, T) = 0 /\ SumOver(g, T) = 0
    BY SumEmpty
  <2> QED BY <2>1
<1>3. PICK x \in T : TRUE
  BY <1>2
<1>4. IsFiniteSet(T) /\ Cardinality(T) \in Nat /\ \A y \in T : y \in S /\ h[y] \in Int
  BY FS_Subset, FS_CardinalityType
<1> DEFINE U == T \ {x}
<1>5. /\ SumOver(f, T) = f[x] + SumOver(f, U)
      /\ SumOver(g, T) = g[x] + SumOver(g, U)
      /\ SumOver(h, T) = h[x] + SumOver(h, U)
  BY <1>4, SumRemove
<1>6. Cardinality(U) = Cardinality(T) - 1 /\ IsFiniteSet(U)
  BY <1>4, FS_RemoveElement
<1>7. SumOver(f, U) \in Int /\ SumOver(g, U) \in Int
  BY <1>4, <1>6, SumType
<1>8. U \in Bad
  BY <1>4, <1>5, <1>7
<1>9. Cardinality(T) <= Cardinality(U)
  <2> HIDE DEF Bad
  <2> QED BY <1>1, <1>8
<1> QED BY <1>4, <1>6, <1>9

\* A sum of zeros is zero.
LEMMA SumZero ==
  ASSUME NEW S, IsFiniteSet(S), NEW f, \A x \in S : f[x] = 0
  PROVE  SumOver(f, S) = 0
<1> DEFINE Bad == {U \in SUBSET S : SumOver(f, U) # 0}
<1> SUFFICES ASSUME Bad # {} PROVE FALSE
  OBVIOUS
<1>1. PICK T \in Bad : \A U \in Bad : Cardinality(T) <= Cardinality(U)
  BY SmallestSet
<1>2. T # {}
  BY SumEmpty
<1>3. AnyOf(T) \in T /\ IsFiniteSet(T) /\ Cardinality(T) \in Nat
  BY <1>2, FS_Subset, FS_CardinalityType DEF AnyOf
<1> DEFINE U == T \ {AnyOf(T)}
<1>4. SumOver(f, T) = f[AnyOf(T)] + SumOver(f, U)
  BY <1>2, <1>3, SumPick
<1>5. f[AnyOf(T)] = 0
  BY <1>3
<1>6. SumOver(f, U) # 0
  BY <1>4, <1>5
<1>7. U \in Bad
  BY <1>3, <1>6
<1>8. Cardinality(U) = Cardinality(T) - 1
  BY <1>3, FS_RemoveElement
<1>9. Cardinality(T) <= Cardinality(U)
  <2> HIDE DEF Bad
  <2> QED BY <1>1, <1>7
<1> QED BY <1>3, <1>8, <1>9

\* One summand grows by q, or is added with q.
LEMMA SumPut ==
  ASSUME NEW S, IsFiniteSet(S), NEW x, NEW q \in Int, NEW f, NEW g,
         \A y \in S : f[y] \in Int, \A y \in S \ {x} : g[y] = f[y],
         g[x] = (IF x \in S THEN f[x] ELSE 0) + q
  PROVE  SumOver(g, S \cup {x}) = SumOver(f, S) + q
<1>1. SumOver(f, S) \in Int
  BY SumType
<1>2. CASE x \in S
  <2>1. S \cup {x} = S
    BY <1>2
  <2>2. g[x] = f[x] + q /\ f[x] \in Int
    BY <1>2
  <2>3. \A y \in S : g[y] \in Int
    <3>1. ASSUME NEW y \in S, y # x PROVE g[y] \in Int
      BY <3>1
    <3>2. g[x] \in Int
      BY <2>2
    <3> QED BY <3>1, <3>2
  <2>4. SumOver(g, S) = SumOver(f, S) + g[x] - f[x]
    BY <1>2, <2>3, SumChange
  <2>5. PICK m \in Int, n \in Int : m = SumOver(f, S) /\ n = f[x] /\ g[x] = n + q
    BY <1>1, <2>2
  <2>6. SumOver(g, S) = m + (n + q) - n
    BY <2>4, <2>5
  <2>7. SumOver(g, S) = m + q
    BY <2>5, <2>6
  <2> QED BY <2>1, <2>5, <2>7
<1>3. CASE x \notin S
  <2>1. g[x] = q /\ \A y \in S : g[y] = f[y]
    BY <1>3
  <2>2. \A y \in S \cup {x} : g[y] \in Int
    BY <2>1
  <2>3. SumOver(g, S \cup {x}) = g[x] + SumOver(g, S)
    BY <1>3, <2>2, SumAdd
  <2>4. SumOver(g, S) = SumOver(f, S)
    BY <2>1, SumEqual
  <2> QED BY <1>1, <2>1, <2>3, <2>4
<1> QED BY <1>2, <1>3

\* A common factor.
LEMMA SumScale ==
  ASSUME NEW S, IsFiniteSet(S), NEW c \in Int, NEW f, NEW g,
         \A x \in S : f[x] \in Int /\ g[x] = c * f[x]
  PROVE  SumOver(g, S) = c * SumOver(f, S)
<1> DEFINE Bad == {U \in SUBSET S : SumOver(g, U) # c * SumOver(f, U)}
<1> SUFFICES ASSUME Bad # {} PROVE FALSE
  OBVIOUS
<1>1. PICK T \in Bad : \A U \in Bad : Cardinality(T) <= Cardinality(U)
  BY SmallestSet
<1>2. T # {}
  <2> SUFFICES ASSUME T = {} PROVE FALSE
    OBVIOUS
  <2>1. SumOver(f, T) = 0 /\ SumOver(g, T) = 0 /\ c * 0 = 0
    BY SumEmpty
  <2> QED BY <2>1
<1>3. AnyOf(T) \in T /\ IsFiniteSet(T) /\ Cardinality(T) \in Nat /\ AnyOf(T) \in S
  BY <1>2, FS_Subset, FS_CardinalityType DEF AnyOf
<1> DEFINE U == T \ {AnyOf(T)}
<1>4. /\ SumOver(f, T) = f[AnyOf(T)] + SumOver(f, U)
      /\ SumOver(g, T) = g[AnyOf(T)] + SumOver(g, U)
  BY <1>2, <1>3, SumPick
<1>5. IsFiniteSet(U) /\ Cardinality(U) = Cardinality(T) - 1
  BY <1>3, FS_RemoveElement
<1>6. PICK m \in Int, n \in Int : m = f[AnyOf(T)] /\ n = SumOver(f, U)
  BY <1>3, <1>5, SumType
<1>7. c * (m + n) = c * m + c * n
  OBVIOUS
<1>8. U \in Bad
  BY <1>3, <1>4, <1>6, <1>7
<1>9. Cardinality(T) <= Cardinality(U)
  <2> HIDE DEF Bad
  <2> QED BY <1>1, <1>8
<1> QED BY <1>3, <1>5, <1>9

\* The sum of equal summands.
LEMMA SumConstant ==
  ASSUME NEW S, IsFiniteSet(S), NEW c \in Int, NEW f, \A x \in S : f[x] = c
  PROVE  SumOver(f, S) = c * Cardinality(S)
<1> DEFINE Bad == {U \in SUBSET S : SumOver(f, U) # c * Cardinality(U)}
<1> SUFFICES ASSUME Bad # {} PROVE FALSE
  OBVIOUS
<1>1. PICK T \in Bad : \A U \in Bad : Cardinality(T) <= Cardinality(U)
  BY SmallestSet
<1>2. T # {}
  <2>1. c * 0 = 0
    OBVIOUS
  <2> QED BY <2>1, SumEmpty, FS_EmptySet
<1>3. AnyOf(T) \in T /\ IsFiniteSet(T) /\ AnyOf(T) \in S
  BY <1>2, FS_Subset DEF AnyOf
<1> DEFINE U == T \ {AnyOf(T)}
<1>4. SumOver(f, T) = c + SumOver(f, U)
  BY <1>2, <1>3, SumPick
<1>5. PICK n \in Nat : Cardinality(T) = n + 1 /\ Cardinality(U) = n
  <2>1. Cardinality(T) \in Nat /\ Cardinality(U) = Cardinality(T) - 1 /\ Cardinality(U) \in Nat
    BY <1>3, FS_RemoveElement, FS_CardinalityType, FS_Subset
  <2> QED BY <2>1
<1>6. c + c * n = c * (n + 1)
  OBVIOUS
<1>7. U \in Bad
  BY <1>3, <1>4, <1>5, <1>6
<1>8. Cardinality(T) <= Cardinality(U)
  <2> HIDE DEF Bad
  <2> QED BY <1>1, <1>7
<1> QED BY <1>5, <1>8
=============================================================================
