----------------------------- MODULE FiniteFacts -----------------------------
(***************************************************************************)
(* Facts about finite sets of numbers that the library does not state: a   *)
(* set of natural numbers has a least element, a finite set of integers a  *)
(* greatest one, and the sum of a function with a finite domain does not   *)
(* depend on the order.  An induction is a least counterexample.           *)
(***************************************************************************)
EXTENDS Integers, FiniteSetsExt, Functions, FiniteSetTheorems,
        WellFoundedInduction, TLAPS

\* A set of natural numbers has a least element.
LEMMA Least ==
  ASSUME NEW T, T \subseteq Nat, T # {}
  PROVE  \E m \in T : \A n \in T : m <= n
<1> DEFINE R == OpToRel(<, Nat)
<1>1. IsWellFoundedOn(R, Nat)
  BY NatLessThanWellFounded
<1>2. \E x \in T : \A y \in T : ~(<<y, x>> \in R)
  <2> HIDE DEF R
  <2> QED BY ZenonT(60), <1>1, WFMin
<1>3. PICK m \in T : \A y \in T : ~(<<y, m>> \in R)
  BY <1>2
<1>4. \A n \in Nat : n < m => <<n, m>> \in R
  BY DEF OpToRel
<1> HIDE DEF R
<1>5. \A n \in T : ~(n < m)
  BY Zenon, <1>3, <1>4
<1>6. \A n \in T : m <= n
  BY <1>5
<1> QED BY <1>6

\* Min is the least element.
LEMMA MinIsLeast ==
  ASSUME NEW T, T \subseteq Nat, T # {}
  PROVE  Min(T) \in T /\ \A n \in T : Min(T) <= n
BY Zenon, Least DEF Min

\* Of the subsets of a finite set in B one has no smaller one in B.
LEMMA MinimalSet ==
  ASSUME NEW D, IsFiniteSet(D), NEW B, B \subseteq SUBSET D, B # {}
  PROVE  \E s \in B : \A t \in SUBSET s : t # s => t \notin B
<1>1. \A s \in B : IsFiniteSet(s) /\ Cardinality(s) \in Nat
  BY FS_Subset, FS_CardinalityType
<1> DEFINE K == {Cardinality(s) : s \in B}
<1>2. K \subseteq Nat /\ K # {}
  BY <1>1
<1>3. PICK k \in K : \A j \in K : k <= j
  <2> HIDE DEF K
  <2> QED BY ZenonT(60), <1>2, Least
<1>4. PICK s \in B : Cardinality(s) = k
  BY <1>3
<1>5. ASSUME NEW t \in SUBSET s, t # s, t \in B PROVE FALSE
  <2>1. Cardinality(t) < Cardinality(s)
    BY <1>1, <1>5, FS_Subset
  <2>2. Cardinality(s) <= Cardinality(t)
    BY <1>3, <1>4, <1>5
  <2> QED BY <1>1, <1>5, <2>1, <2>2
<1> QED BY <1>5

\* A finite set of integers has a greatest element.
LEMMA Greatest ==
  ASSUME NEW S, IsFiniteSet(S), S \subseteq Int, S # {}
  PROVE  \E m \in S : \A n \in S : n <= m
<1> DEFINE Top(T) == \E m \in T : \A n \in T : n <= m
           B == {T \in SUBSET S : T # {} /\ ~Top(T)}
<1>1. SUFFICES ASSUME ~Top(S) PROVE FALSE
  OBVIOUS
<1>2. PICK T \in B : \A U \in SUBSET T : U # T => U \notin B
  <2>1. B \subseteq SUBSET S /\ B # {}
    BY <1>1
  <2> HIDE DEF B
  <2> QED BY ZenonT(60), <2>1, MinimalSet
<1>3. PICK x \in T : TRUE
  BY ZenonT(60)
<1>4. T \ {x} = {} \/ Top(T \ {x})
  BY ZenonT(60), <1>2, <1>3
<1>5. CASE T \ {x} = {}
  <2>1. T = {x}
    BY <1>3, <1>5
  <2> QED BY <2>1
<1>6. CASE Top(T \ {x})
  <2>1. PICK m \in T \ {x} : \A n \in T \ {x} : n <= m
    BY <1>6
  <2>2. x \in Int /\ m \in Int /\ T \subseteq Int
    BY <1>3, <2>1
  <2>3. CASE x <= m
    BY <2>1, <2>2, <2>3
  <2>4. CASE m <= x
    BY <1>3, <2>1, <2>2, <2>4
  <2> QED BY <2>2, <2>3, <2>4
<1> QED BY <1>4, <1>5, <1>6

\* Max is the greatest element.
LEMMA MaxIsGreatest ==
  ASSUME NEW S, IsFiniteSet(S), S \subseteq Int, S # {}
  PROVE  Max(S) \in S /\ \A n \in S : n <= Max(S)
<1>1. \E m \in S : \A n \in S : m >= n
  BY ZenonT(60), Greatest
<1>2. Max(S) \in S /\ \A n \in S : Max(S) >= n
  BY Zenon, <1>1 DEF Max
<1> QED BY <1>2

-----------------------------------------------------------------------------
(***************************************************************************)
(* The sum of the values of a function with a finite domain.               *)
(***************************************************************************)

Some(s) == CHOOSE x \in s : TRUE

\* g has the sum of f over every subset of the domain.
Sums(f, g) ==
  g = [s \in SUBSET DOMAIN f |->
         IF s = {} THEN 0 ELSE f[Some(s)] + g[s \ {Some(s)}]]

LEMMA SumIsFold ==
  ASSUME NEW f PROVE SumFunction(f) = (CHOOSE g : Sums(f, g))[DOMAIN f]
BY Zenon DEF SumFunction, SumFunctionOnSet, FoldFunctionOnSet, MapThenFoldSet,
             Sums, Some

LEMMA SomeIsIn == ASSUME NEW s, s # {} PROVE Some(s) \in s
BY Zenon DEF Some

\* The recursion over the subsets has a solution.
LEMMA SumsExist ==
  ASSUME NEW f, IsFiniteSet(DOMAIN f), f \in [DOMAIN f -> Int]
  PROVE  \E g : Sums(f, g)
<1> DEFINE D == DOMAIN f
           Upto(n) == {s \in SUBSET D : Cardinality(s) <= n}
           Value(g, s) == IF s = {} THEN 0 ELSE f[Some(s)] + g[s \ {Some(s)}]
           Part(n, g) == /\ g \in [Upto(n) -> Int]
                         /\ \A s \in Upto(n) : g[s] = Value(g, s)
           Bad == {n \in Nat : ~\E g : Part(n, g)}
<1>1. \A s \in SUBSET D : /\ IsFiniteSet(s) /\ Cardinality(s) \in Nat
                          /\ Cardinality(s) <= Cardinality(D)
  BY FS_Subset, FS_CardinalityType
<1>2. \A s \in SUBSET D : s # {} =>
        /\ Some(s) \in D /\ f[Some(s)] \in Int /\ s \ {Some(s)} \in SUBSET D
        /\ Cardinality(s \ {Some(s)}) = Cardinality(s) - 1
  <2>1. SUFFICES ASSUME NEW s \in SUBSET D, s # {}
                 PROVE  /\ Some(s) \in D /\ f[Some(s)] \in Int
                        /\ s \ {Some(s)} \in SUBSET D
                        /\ Cardinality(s \ {Some(s)}) = Cardinality(s) - 1
    OBVIOUS
  <2>2. Some(s) \in s
    BY <2>1, SomeIsIn
  <2>3. Cardinality(s \ {Some(s)}) = Cardinality(s) - 1
    BY <1>1, <2>2, FS_RemoveElement
  <2> QED BY <2>2, <2>3
<1>3. \A s \in SUBSET D : Cardinality(s) = 0 => s = {}
  BY <1>1, FS_EmptySet
<1>4. \E g : Part(0, g)
  <2> DEFINE g == [s \in Upto(0) |-> 0]
  <2>1. \A s \in Upto(0) : s = {}
    BY <1>1, <1>3
  <2>2. Part(0, g)
    BY <2>1
  <2> QED BY ZenonT(60), <2>2
<1>5. ASSUME NEW n \in Nat, n > 0, NEW g, Part(n - 1, g)
      PROVE  \E h : Part(n, h)
  <2> DEFINE h == [s \in Upto(n) |-> Value(g, s)]
  <2>1. \A s \in Upto(n) : s # {} => s \ {Some(s)} \in Upto(n - 1)
    BY <1>1, <1>2, <1>5
  <2>2. \A s \in Upto(n) : Value(g, s) \in Int
    BY <1>2, <1>5, <2>1
  <2>3. Upto(n - 1) \subseteq Upto(n)
    BY <1>1, <1>5
  <2>4. \A s \in Upto(n - 1) : h[s] = g[s]
    BY <1>5, <2>3
  <2>5. \A s \in Upto(n) : h[s] = Value(h, s)
    BY ZenonT(60), <2>1, <2>4
  <2>6. Part(n, h)
    BY ZenonT(60), <2>2, <2>5
  <2> HIDE DEF h
  <2> QED BY ZenonT(60), <2>6
<1>6. Bad = {}
  <2> HIDE DEF Part
  <2>1. SUFFICES ASSUME Bad # {} PROVE FALSE
    OBVIOUS
  <2>2. PICK n \in Bad : \A m \in Bad : n <= m
    <3>1. Bad \subseteq Nat
      OBVIOUS
    <3> HIDE DEF Bad
    <3> QED BY <2>1, <3>1, Least
  <2>3. n > 0
    BY <1>4, <2>2
  <2>4. n - 1 \in Nat /\ ~(n <= n - 1)
    BY <2>3
  <2>5. \E g : Part(n - 1, g)
    BY <2>2, <2>4
  <2> QED BY <1>5, <2>3, <2>5
<1>7. PICK g : Part(Cardinality(D), g)
  BY ZenonT(60), <1>1, <1>6
<1>8. Upto(Cardinality(D)) = SUBSET D
  BY <1>1
<1>9. Sums(f, g)
  BY ZenonT(60), <1>7, <1>8 DEF Sums
<1> QED BY <1>9

\* In a solution any element may be taken off first.
LEMMA SumsSolved ==
  ASSUME NEW f, IsFiniteSet(DOMAIN f), f \in [DOMAIN f -> Int],
         NEW g, Sums(f, g)
  PROVE  /\ g[{}] = 0
         /\ \A s \in SUBSET DOMAIN f :
              g[s] \in Int /\ \A x \in s : g[s] = f[x] + g[s \ {x}]
<1> DEFINE D == DOMAIN f
           Right(s) == g[s] \in Int /\ \A x \in s : g[s] = f[x] + g[s \ {x}]
           B == {s \in SUBSET D : ~Right(s)}
<1>1. \A s \in SUBSET D :
        g[s] = IF s = {} THEN 0 ELSE f[Some(s)] + g[s \ {Some(s)}]
  BY ZenonT(60) DEF Sums
<1>2. g[{}] = 0
  BY ZenonT(60), <1>1
<1>3. SUFFICES ASSUME B # {} PROVE FALSE
  BY ZenonT(60), <1>2
<1>4. PICK s \in B : \A t \in SUBSET s : t # s => t \notin B
  <2>1. B \subseteq SUBSET D
    OBVIOUS
  <2> HIDE DEF B
  <2> QED BY <1>3, <2>1, MinimalSet
<1>5. s # {}
  <2>1. Right({})
    BY <1>2
  <2>2. ~Right(s)
    OBVIOUS
  <2> HIDE DEF Right
  <2> QED BY Zenon, <2>1, <2>2
<1> DEFINE c == Some(s)
<1>6. c \in s
  BY <1>5, SomeIsIn
<1> HIDE DEF c
<1>7. ASSUME NEW x \in s PROVE s \ {x} \in SUBSET D /\ Right(s \ {x})
  <2>1. s \ {x} \in SUBSET s /\ s \ {x} # s /\ s \ {x} \in SUBSET D
    OBVIOUS
  <2> QED BY <1>4, <2>1
<1>8. g[s] = f[c] + g[s \ {c}] /\ g[s \ {c}] \in Int /\ f[c] \in Int
  BY ZenonT(60), <1>1, <1>5, <1>6, <1>7 DEF c
<1>9. ASSUME NEW x \in s, x # c PROVE g[s] = f[x] + g[s \ {x}]
  <2>1. (s \ {c}) \ {x} = (s \ {x}) \ {c}
    OBVIOUS
  <2>2. /\ x \in s \ {c} /\ c \in s \ {x} /\ f[x] \in Int
        /\ (s \ {x}) \ {c} \in SUBSET D
    BY <1>6, <1>9
  <2>3. g[s \ {c}] = f[x] + g[(s \ {c}) \ {x}]
    BY ZenonT(60), <1>6, <1>7, <2>2
  <2>4. g[s \ {x}] = f[c] + g[(s \ {x}) \ {c}]
    BY ZenonT(60), <1>7, <2>2
  <2>5. g[(s \ {x}) \ {c}] \in Int
    <3>1. /\ (s \ {x}) \ {c} \in SUBSET s /\ (s \ {x}) \ {c} # s
      BY <1>6
    <3> QED BY <1>4, <2>2, <3>1
  <2>6. \A p, q, r \in Int : p + (q + r) = q + (p + r)
    OBVIOUS
  <2> DEFINE rest == g[(s \ {x}) \ {c}]
  <2>7. f[c] + (f[x] + rest) = f[x] + (f[c] + rest)
    BY Zenon, <1>8, <2>2, <2>5, <2>6
  <2>8. g[s \ {c}] = f[x] + rest /\ g[s \ {x}] = f[c] + rest
    BY Zenon, <2>1, <2>3, <2>4
  <2> HIDE DEF rest
  <2> QED BY Zenon, <1>8, <2>7, <2>8
<1>10. g[s] \in Int
  BY <1>8
<1>11. Right(s)
  BY Zenon, <1>8, <1>9, <1>10
<1> QED BY <1>4, <1>11

\* Two functions that agree have the same sums.
LEMMA SumsAgree ==
  ASSUME NEW f, IsFiniteSet(DOMAIN f), f \in [DOMAIN f -> Int],
         NEW h, IsFiniteSet(DOMAIN h), h \in [DOMAIN h -> Int],
         NEW S, S \subseteq DOMAIN f, S \subseteq DOMAIN h,
         \A x \in S : f[x] = h[x],
         NEW g, Sums(f, g), NEW k, Sums(h, k)
  PROVE  g[S] = k[S]
<1> DEFINE B == {s \in SUBSET S : g[s] # k[s]}
<1>1. IsFiniteSet(S)
  BY FS_Subset
<1>2. SUFFICES ASSUME B # {} PROVE FALSE
  OBVIOUS
<1>3. PICK s \in B : \A t \in SUBSET s : t # s => t \notin B
  <2>1. B \subseteq SUBSET S
    OBVIOUS
  <2> HIDE DEF B
  <2> QED BY <1>1, <1>2, <2>1, MinimalSet
<1>4. s # {}
  BY ZenonT(60), SumsSolved
<1>5. PICK x \in s : TRUE
  BY <1>4
<1>6. g[s] = f[x] + g[s \ {x}] /\ k[s] = h[x] + k[s \ {x}]
  <2>1. s \in SUBSET DOMAIN f /\ s \in SUBSET DOMAIN h
    OBVIOUS
  <2>2. g[s] = f[x] + g[s \ {x}]
    BY <1>5, <2>1, SumsSolved
  <2>3. k[s] = h[x] + k[s \ {x}]
    BY <1>5, <2>1, SumsSolved
  <2> QED BY <2>2, <2>3
<1>7. g[s \ {x}] = k[s \ {x}]
  BY <1>3, <1>5
<1> QED BY <1>3, <1>5, <1>6, <1>7

\* The sum of the empty function.
LEMMA SumEmpty ==
  ASSUME NEW f, DOMAIN f = {}, f \in [DOMAIN f -> Int]
  PROVE  SumFunction(f) = 0
<1>1. IsFiniteSet(DOMAIN f)
  BY FS_EmptySet
<1>2. Sums(f, CHOOSE g : Sums(f, g))
  BY Zenon, <1>1, SumsExist
<1> QED BY ZenonT(60), <1>1, <1>2, SumsSolved, SumIsFold

\* One element is taken off the domain.
LEMMA SumRemove ==
  ASSUME NEW f, IsFiniteSet(DOMAIN f), f \in [DOMAIN f -> Int],
         NEW x \in DOMAIN f,
         NEW h, DOMAIN h = DOMAIN f \ {x}, h \in [DOMAIN h -> Int],
         \A y \in DOMAIN h : h[y] = f[y]
  PROVE  SumFunction(f) = f[x] + SumFunction(h)
<1>1. IsFiniteSet(DOMAIN h)
  BY FS_Subset
<1>2. PICK g : Sums(f, g) /\ SumFunction(f) = g[DOMAIN f]
  BY Zenon, SumsExist, SumIsFold
<1>3. PICK k : Sums(h, k) /\ SumFunction(h) = k[DOMAIN h]
  BY Zenon, <1>1, SumsExist, SumIsFold
<1>4. g[DOMAIN f] = f[x] + g[DOMAIN f \ {x}]
  BY <1>2, SumsSolved
<1>5. k[DOMAIN h] = g[DOMAIN h]
  <2>1. DOMAIN h \subseteq DOMAIN f
    OBVIOUS
  <2> QED BY <1>1, <1>2, <1>3, <2>1, SumsAgree
<1> QED BY <1>2, <1>3, <1>4, <1>5

\* The sum is an integer, and depends on the values only.
LEMMA SumType ==
  ASSUME NEW f, IsFiniteSet(DOMAIN f), f \in [DOMAIN f -> Int]
  PROVE  SumFunction(f) \in Int
<1>1. PICK g : Sums(f, g) /\ SumFunction(f) = g[DOMAIN f]
  BY Zenon, SumsExist, SumIsFold
<1> QED BY <1>1, SumsSolved

\* A sum of natural numbers is one, and at least each of them.
LEMMA SumNat ==
  ASSUME NEW f, IsFiniteSet(DOMAIN f), f \in [DOMAIN f -> Nat]
  PROVE  /\ SumFunction(f) \in Nat
         /\ \A x \in DOMAIN f : f[x] <= SumFunction(f)
<1>1. f \in [DOMAIN f -> Int]
  OBVIOUS
<1>2. PICK g : Sums(f, g) /\ SumFunction(f) = g[DOMAIN f]
  BY Zenon, <1>1, SumsExist, SumIsFold
<1>3. /\ g[{}] = 0
      /\ \A s \in SUBSET DOMAIN f :
           g[s] \in Int /\ \A x \in s : g[s] = f[x] + g[s \ {x}]
  BY <1>1, <1>2, SumsSolved
<1> DEFINE B == {s \in SUBSET DOMAIN f : ~(g[s] \in Nat)}
<1>4. B = {}
  <2>1. SUFFICES ASSUME B # {} PROVE FALSE
    OBVIOUS
  <2>2. PICK s \in B : \A t \in SUBSET s : t # s => t \notin B
    <3>1. B \subseteq SUBSET DOMAIN f
      OBVIOUS
    <3> HIDE DEF B
    <3> QED BY <2>1, <3>1, MinimalSet
  <2>3. s # {}
    <3>1. g[{}] \in Nat /\ ~(g[s] \in Nat)
      BY <1>3
    <3> QED BY Zenon, <3>1
  <2>4. PICK x \in s : TRUE
    BY <2>3
  <2>5. g[s \ {x}] \in Nat /\ f[x] \in Nat
    BY <2>2, <2>4
  <2> QED BY <1>3, <2>2, <2>4, <2>5
<1>5. ASSUME NEW x \in DOMAIN f PROVE f[x] <= g[DOMAIN f]
  <2>1. g[DOMAIN f \ {x}] \in Nat /\ f[x] \in Nat
    BY <1>4
  <2>2. g[DOMAIN f] = f[x] + g[DOMAIN f \ {x}]
    BY <1>3
  <2>3. \A a, b \in Nat : a <= a + b
    OBVIOUS
  <2> QED BY Zenon, <2>1, <2>2, <2>3
<1> QED BY <1>2, <1>4, <1>5

\* One value changes.
LEMMA SumChange ==
  ASSUME NEW f, IsFiniteSet(DOMAIN f), f \in [DOMAIN f -> Int],
         NEW x \in DOMAIN f,
         NEW h, DOMAIN h = DOMAIN f, h \in [DOMAIN h -> Int],
         \A y \in DOMAIN f : y # x => h[y] = f[y]
  PROVE  SumFunction(h) = SumFunction(f) - f[x] + h[x]
<1> DEFINE rest == [y \in DOMAIN f \ {x} |-> f[y]]
<1>1. /\ DOMAIN rest = DOMAIN f \ {x} /\ rest \in [DOMAIN rest -> Int]
      /\ \A y \in DOMAIN rest : rest[y] = f[y] /\ rest[y] = h[y]
  OBVIOUS
<1>2. IsFiniteSet(DOMAIN rest)
  BY <1>1, FS_Subset
<1> HIDE DEF rest
<1>3. SumFunction(f) = f[x] + SumFunction(rest)
  BY <1>1, SumRemove
<1>4. SumFunction(h) = h[x] + SumFunction(rest)
  BY <1>1, SumRemove
<1>5. SumFunction(rest) \in Int /\ f[x] \in Int /\ h[x] \in Int
  BY <1>1, <1>2, SumType
<1> QED BY <1>3, <1>4, <1>5

\* A sum of zeros.
LEMMA SumZero ==
  ASSUME NEW f, IsFiniteSet(DOMAIN f), \A x \in DOMAIN f : f[x] = 0,
         f \in [DOMAIN f -> Int]
  PROVE  SumFunction(f) = 0
<1>1. PICK g : Sums(f, g) /\ SumFunction(f) = g[DOMAIN f]
  BY Zenon, SumsExist, SumIsFold
<1>2. /\ g[{}] = 0
      /\ \A s \in SUBSET DOMAIN f :
           g[s] \in Int /\ \A x \in s : g[s] = f[x] + g[s \ {x}]
  BY SMTT(30), <1>1, SumsSolved
<1> DEFINE B == {s \in SUBSET DOMAIN f : g[s] # 0}
<1>3. B = {}
  <2>1. SUFFICES ASSUME B # {} PROVE FALSE
    OBVIOUS
  <2>2. PICK s \in B : \A t \in SUBSET s : t # s => t \notin B
    <3>1. B \subseteq SUBSET DOMAIN f
      OBVIOUS
    <3> HIDE DEF B
    <3> QED BY <2>1, <3>1, MinimalSet
  <2>3. s # {}
    BY ZenonT(60), <1>2
  <2>4. PICK x \in s : TRUE
    BY <2>3
  <2>5. g[s \ {x}] = 0 /\ f[x] = 0
    BY <2>2, <2>4
  <2> QED BY <1>2, <2>2, <2>4, <2>5
<1> QED BY <1>1, <1>3

=============================================================================
