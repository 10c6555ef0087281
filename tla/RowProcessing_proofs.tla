------------------------ MODULE RowProcessing_proofs ------------------------
(***************************************************************************)
(* The three invariants of the rows, for files of any length, any rows,    *)
(* mappings and factors.                                                   *)
(*                                                                         *)
(* BadRowIsolated: each row the parser returns has the record made of it,  *)
(* so that what cannot be quantized or stored comes of a row that spoils   *)
(* the file, and each such row comes to be refused.                        *)
(*                                                                         *)
(* OutliersAreFew: the positive quantities can be sorted, and what exceeds *)
(* the median has its place in the upper half.                             *)
(*                                                                         *)
(* RowsAccountedFor: what the validator lets pass the normalizer converts, *)
(* and the sum over a set is that of the parts it is divided into,         *)
(* whatever the order of the addends.                                      *)
(***************************************************************************)
EXTENDS RowProcessing, FunctionTheorems, FiniteSetTheorems, WellFoundedInduction, TLAPS

-----------------------------------------------------------------------------
(***************************************************************************)
(* Induction over finite sets and numbers                                  *)
(***************************************************************************)

\* Among finite sets there is one that includes none of the others.
LEMMA MinimalSet ==
    ASSUME NEW S, NEW T, T \subseteq FiniteSubsetsOf(S), T # {}
    PROVE  \E X \in T : \A Y \in T : Y \subseteq X => Y = X
<1>1. PICK X \in T : \A Y \in T : <<Y, X>> \notin StrictSubsetOrdering(S)
  BY FS_StrictSubsetOrderingWellFounded, WFMin
<1>2. \A Y \in T : Y \in SUBSET S
  BY DEF FiniteSubsetsOf
<1>3. ASSUME NEW Y \in T, Y \subseteq X, Y # X
      PROVE  FALSE
  <2>1. <<Y, X>> \in StrictSubsetOrdering(S)
    BY <1>2, <1>3 DEF StrictSubsetOrdering
  <2> QED
    BY <1>1, <2>1
<1> QED
  BY <1>3

\* What holds of a finite set whenever it holds of its parts holds of all of them.
LEMMA SubsetsIn ==
    ASSUME NEW S, IsFiniteSet(S), NEW I,
           \A X \in SUBSET S : (\A Y \in SUBSET X : Y # X => Y \in I) => X \in I
    PROVE  SUBSET S \subseteq I
<1> DEFINE T == (SUBSET S) \ I
<1> SUFFICES ASSUME T # {}
             PROVE  FALSE
  OBVIOUS
<1>1. T \subseteq FiniteSubsetsOf(S)
  BY FS_Subset DEF FiniteSubsetsOf
<1>2. PICK X \in T : \A Y \in T : Y \subseteq X => Y = X
  <2> HIDE DEF T
  <2> QED
    BY <1>1, MinimalSet
<1>3. \A Y \in SUBSET X : Y # X => Y \in SUBSET S /\ Y \notin T
  BY <1>2
<1> QED
  BY <1>2, <1>3

-----------------------------------------------------------------------------
(***************************************************************************)
(* Sums                                                                    *)
(***************************************************************************)

\* The addend that comes first.
First(s) == CHOOSE x \in s : TRUE

\* The sums of the sets of a domain, each in the order of CHOOSE.
IsSum(f, domain) ==
    f = [s \in domain |-> IF s = {} THEN 0 ELSE calcs[First(s)].co2e + f[s \ {First(s)}]]

\* SumOf() is one of these sums.
LEMMA SumExpanded ==
    ASSUME NEW ns
    PROVE  SumOf(ns) = (CHOOSE f : IsSum(f, SUBSET ns))[ns]
BY DEF SumOf, MapThenSumSet, MapThenFoldSet, IsSum, First

\* Two of them agree on what they both sum.
LEMMA SumsAgree ==
    ASSUME NEW S, IsFiniteSet(S), NEW f, NEW g, NEW T, IsSum(f, SUBSET S), IsSum(g, SUBSET T),
           S \subseteq T
    PROVE  \A X \in SUBSET S : f[X] = g[X]
<1> DEFINE I == {X \in SUBSET S : f[X] = g[X]}
<1>1. ASSUME NEW X \in SUBSET S, \A Y \in SUBSET X : Y # X => Y \in I
      PROVE  X \in I
  <2>1. CASE X = {}
    BY <2>1 DEF IsSum
  <2>2. CASE X # {}
    <3>1. First(X) \in X
      BY <2>2 DEF First
    <3>2. f[X \ {First(X)}] = g[X \ {First(X)}]
      BY <1>1, <3>1
    <3>3. f[X] = calcs[First(X)].co2e + f[X \ {First(X)}]
      BY <2>2 DEF IsSum
    <3>4. g[X] = calcs[First(X)].co2e + g[X \ {First(X)}]
      BY <2>2 DEF IsSum
    <3> QED
      BY <3>2, <3>3, <3>4
  <2> QED
    BY <2>1, <2>2
<1> HIDE DEF I
<1>2. SUBSET S \subseteq I
  BY <1>1, SubsetsIn
<1> QED
  BY <1>2 DEF I

\* The sums of all parts of a finite set.
LEMMA SumExists ==
    ASSUME NEW S, IsFiniteSet(S)
    PROVE  \E f : IsSum(f, SUBSET S)
<1> DEFINE I == {X \in SUBSET S : \E f : IsSum(f, SUBSET X)}
<1>1. ASSUME NEW X \in SUBSET S, \A Y \in SUBSET X : Y # X => Y \in I
      PROVE  X \in I
  <2> DEFINE F(Y) == CHOOSE f : IsSum(f, SUBSET Y)
             g == [s \in SUBSET X |-> IF s = {} THEN 0
                     ELSE calcs[First(s)].co2e + F(s \ {First(s)})[s \ {First(s)}]]
  <2>1. \A Y \in SUBSET X : Y # X => IsSum(F(Y), SUBSET Y)
    BY <1>1
  <2>2. \A Y \in SUBSET X : IsFiniteSet(Y)
    BY FS_Subset
  <2>3. ASSUME NEW Y \in SUBSET X, Y # X
        PROVE  g[Y] = F(Y)[Y]
    <3>1. IsSum(F(Y), SUBSET Y)
      BY <2>1, <2>3
    <3>2. CASE Y = {}
      <4>1. F(Y)[Y] = 0
        BY <3>1, <3>2 DEF IsSum
      <4> QED
        BY <3>2, <4>1
    <3>3. CASE Y # {}
      <4> DEFINE Z == Y \ {First(Y)}
      <4>1. First(Y) \in Y
        BY <3>3 DEF First
      <4>2. IsSum(F(Z), SUBSET Z) /\ IsFiniteSet(Z)
        BY <2>1, <2>2, <4>1
      <4>3. F(Z)[Z] = F(Y)[Z]
        <5>1. PICK h : h = F(Z)
          OBVIOUS
        <5>2. PICK k : k = F(Y)
          OBVIOUS
        <5> HIDE DEF F
        <5>3. IsSum(h, SUBSET Z) /\ IsSum(k, SUBSET Y) /\ Z \subseteq Y
          BY <3>1, <4>2, <5>1, <5>2
        <5>4. IsFiniteSet(Z)
          BY <4>2
        <5> HIDE DEF Z
        <5>5. \A V \in SUBSET Z : h[V] = k[V]
          BY <5>3, <5>4, SumsAgree
        <5> QED
          BY <5>1, <5>2, <5>5
      <4>4. F(Y)[Y] = calcs[First(Y)].co2e + F(Y)[Z]
        <5> HIDE DEF F
        <5> QED
          BY <3>1, <3>3 DEF IsSum
      <4> QED
        BY <3>3, <4>3, <4>4
    <3> QED
      BY <3>2, <3>3
  <2>4. ASSUME NEW s \in SUBSET X, s # {}
        PROVE  F(s \ {First(s)})[s \ {First(s)}] = g[s \ {First(s)}]
    <3>1. First(s) \in s
      BY <2>4 DEF First
    <3> HIDE DEF g, F
    <3> QED
      BY <2>3, <3>1
  <2>5. IsSum(g, SUBSET X)
    <3>1. ASSUME NEW s \in SUBSET X
          PROVE  g[s] = IF s = {} THEN 0 ELSE calcs[First(s)].co2e + g[s \ {First(s)}]
      <4>1. CASE s = {}
        BY <4>1
      <4>2. CASE s # {}
        <5>1. g[s] = calcs[First(s)].co2e + F(s \ {First(s)})[s \ {First(s)}]
          BY <4>2
        <5> HIDE DEF g, F
        <5> QED
          BY <2>4, <4>2, <5>1
      <4> QED
        BY <4>1, <4>2
    <3>2. g = [s \in SUBSET X |-> g[s]]
      OBVIOUS
    <3> HIDE DEF g
    <3> QED
      BY <3>1, <3>2 DEF IsSum
  <2> QED
    BY <2>5
<1> HIDE DEF I
<1>2. SUBSET S \subseteq I
  BY <1>1, SubsetsIn
<1> QED
  BY <1>2 DEF I

\* A sum is that of any element and of the rest.
Adds(f, X) ==
    /\ f[X] \in Int
    /\ X = {} => f[X] = 0
    /\ \A n \in X : f[X] = calcs[n].co2e + f[X \ {n}]

LEMMA SumStep ==
    ASSUME NEW S, IsFiniteSet(S), \A n \in S : calcs[n].co2e \in Int, NEW f, IsSum(f, SUBSET S)
    PROVE  \A X \in SUBSET S : Adds(f, X)
<1> DEFINE I == {X \in SUBSET S : f[X] \in Int /\ \A n \in X : f[X] = calcs[n].co2e + f[X \ {n}]}
<1>1. ASSUME NEW X \in SUBSET S, \A Y \in SUBSET X : Y # X => Y \in I
      PROVE  X \in I
  <2>1. CASE X = {}
    BY <2>1 DEF IsSum
  <2>2. CASE X # {}
    <3> DEFINE c == First(X)
    <3>1. c \in X
      BY <2>2 DEF First
    <3>2. f[X] = calcs[c].co2e + f[X \ {c}]
      BY <2>2 DEF IsSum
    <3>3. X \ {c} \in I
      BY <1>1, <3>1
    <3>4. f[X] \in Int /\ calcs[c].co2e \in Int
      BY <3>1, <3>2, <3>3
    <3> HIDE DEF c
    <3>5. ASSUME NEW n \in X
          PROVE  f[X] = calcs[n].co2e + f[X \ {n}]
      <4>1. CASE n = c
        BY <3>2, <4>1
      <4>2. CASE n # c
        <5>1. f[X \ {c}] = calcs[n].co2e + f[(X \ {c}) \ {n}]
          BY <3>3, <4>2
        <5>2. X \ {n} \in I /\ c \in X \ {n}
          BY <1>1, <3>1, <4>2
        <5>3. f[X \ {n}] = calcs[c].co2e + f[(X \ {n}) \ {c}]
          BY <5>2
        <5>4. (X \ {n}) \ {c} = (X \ {c}) \ {n} /\ (X \ {c}) \ {n} \in SUBSET X
              /\ (X \ {c}) \ {n} # X
          BY <3>1
        <5>5. (X \ {c}) \ {n} \in I
          BY <1>1, <5>4
        <5>6. calcs[n].co2e \in Int /\ f[(X \ {c}) \ {n}] \in Int
          BY <5>5
        <5>7. f[X \ {n}] = calcs[c].co2e + f[(X \ {c}) \ {n}]
          BY <5>3, <5>4
        <5>8. f[X] = calcs[c].co2e + (calcs[n].co2e + f[(X \ {c}) \ {n}])
          BY <3>2, <5>1
        <5> HIDE DEF I
        <5> QED
          BY <3>4, <5>6, <5>7, <5>8
      <4> QED
        BY <4>1, <4>2
    <3> QED
      BY <3>4, <3>5
  <2> QED
    BY <2>1, <2>2
<1>2. SUBSET S \subseteq I
  <2> HIDE DEF I
  <2> QED
    BY <1>1, SubsetsIn
<1>3. {} \in SUBSET S /\ f[{}] = 0
  BY DEF IsSum
<1> QED
  BY <1>2, <1>3 DEF Adds

\* The sum of two sets without common elements.
LEMMA SumDisjoint ==
    ASSUME NEW S, IsFiniteSet(S), \A n \in S : calcs[n].co2e \in Int, NEW f, IsSum(f, SUBSET S),
           NEW A \in SUBSET S, NEW B \in SUBSET S, A \cap B = {}
    PROVE  f[A \cup B] = f[A] + f[B]
<1> DEFINE I == {X \in SUBSET B : f[A \cup X] = f[A] + f[X]}
<1>0. IsFiniteSet(B)
  BY FS_Subset
<1>4. PICK P : P = SUBSET S
  OBVIOUS
<1>2. \A X \in P : Adds(f, X)
  <2>1. \A X \in SUBSET S : Adds(f, X)
    BY SumStep
  <2> QED
    BY <1>4, <2>1
<1>1. ASSUME NEW X \in SUBSET B, \A Y \in SUBSET X : Y # X => Y \in I
      PROVE  X \in I
  <2>3. A \in P /\ X \in P /\ A \cup X \in P /\ \A n \in X : n \in A \cup X /\ X \ {n} \in P /\ n \in S
    BY <1>4
  <2> HIDE DEF I
  <2>0. f[A] \in Int /\ f[X] \in Int
    BY <1>2, <2>3 DEF Adds
  <2>1. CASE X = {}
    <3>1. f[X] = 0 /\ A \cup X = A
      BY <2>1, <1>2, <2>3 DEF Adds
    <3>2. f[A] = f[A] + 0
      BY <2>0
    <3> QED
      BY <2>1, <3>1, <3>2 DEF I
  <2>2. CASE X # {}
    <3>1. PICK n \in X : TRUE
      BY <2>2
    <3>2. X \ {n} \in I
      BY <1>1, <3>1
    <3>3. f[X] = calcs[n].co2e + f[X \ {n}]
      BY <1>2, <2>3 DEF Adds
    <3>4. f[A \cup X] = calcs[n].co2e + f[(A \cup X) \ {n}]
      BY <1>2, <2>3 DEF Adds
    <3>5. (A \cup X) \ {n} = A \cup (X \ {n})
      OBVIOUS
    <3>6. f[X \ {n}] \in Int /\ calcs[n].co2e \in Int
      BY <1>2, <2>3 DEF Adds
    <3>7. f[A \cup (X \ {n})] = f[A] + f[X \ {n}]
      BY <3>2 DEF I
    <3>8. f[A \cup X] = calcs[n].co2e + (f[A] + f[X \ {n}])
      BY <3>4, <3>5, <3>7
    <3>9. f[A \cup X] = f[A] + f[X]
      <4> HIDE DEF I
      <4> QED
        BY <2>0, <3>3, <3>6, <3>8
    <3> QED
      BY <3>9 DEF I
  <2> QED
    BY <2>1, <2>2
<1> HIDE DEF I
<1>3. SUBSET B \subseteq I
  BY <1>0, <1>1, SubsetsIn
<1> QED
  BY <1>3 DEF I

\* SumOf() among the sums of a larger set.
LEMMA SumOfIs ==
    ASSUME NEW S, IsFiniteSet(S), NEW f, IsSum(f, SUBSET S), NEW X \in SUBSET S
    PROVE  SumOf(X) = f[X]
<1>1. IsFiniteSet(X)
  BY FS_Subset
<1>2. PICK g : g = CHOOSE h : IsSum(h, SUBSET X)
  OBVIOUS
<1>3. IsSum(g, SUBSET X)
  BY <1>1, <1>2, SumExists
<1>4. g[X] = f[X]
  BY <1>1, <1>3, SumsAgree
<1> QED
  BY <1>2, <1>4, SumExpanded

\* A sum by classes adds up.
LEMMA SumOfUnion ==
    ASSUME NEW S, IsFiniteSet(S), \A n \in S : calcs[n].co2e \in Int,
           NEW A \in SUBSET S, NEW B \in SUBSET S, A \cap B = {}
    PROVE  SumOf(A \cup B) = SumOf(A) + SumOf(B) /\ SumOf(A) \in Int
<1>1. PICK f : IsSum(f, SUBSET S)
  BY SumExists
<1>2. f[A \cup B] = f[A] + f[B]
  BY <1>1, SumDisjoint
<1>4. f[A] \in Int
  BY <1>1, SumStep DEF Adds
<1>3. SumOf(A \cup B) = f[A \cup B] /\ SumOf(A) = f[A] /\ SumOf(B) = f[B]
  BY <1>1, SumOfIs
<1> QED
  BY <1>2, <1>3, <1>4


-----------------------------------------------------------------------------
(***************************************************************************)
(* Sorting                                                                 *)
(***************************************************************************)

\* A finite set has a greatest element.
LEMMA GreatestOf ==
    ASSUME NEW S, IsFiniteSet(S), NEW v, \A x \in S : v[x] \in Int, S # {}
    PROVE  \E x \in S : \A y \in S : v[y] <= v[x]
<1> DEFINE I == {X \in SUBSET S : X # {} => \E x \in X : \A y \in X : v[y] <= v[x]}
<1>1. ASSUME NEW X \in SUBSET S, \A Y \in SUBSET X : Y # X => Y \in I
      PROVE  X \in I
  <2> SUFFICES ASSUME X # {}
               PROVE  \E x \in X : \A y \in X : v[y] <= v[x]
    OBVIOUS
  <2>1. PICK a \in X : TRUE
    OBVIOUS
  <2>2. X \ {a} \in I
    BY <1>1, <2>1
  <2>3. CASE X \ {a} = {}
    <3>1. \A y \in X : y = a /\ v[a] \in Int
      BY <2>1, <2>3
    <3> QED
      BY <2>1, <3>1
  <2>4. CASE X \ {a} # {}
    <3>1. PICK b \in X \ {a} : \A y \in X \ {a} : v[y] <= v[b]
      BY <2>2, <2>4
    <3>2. v[a] \in Int /\ v[b] \in Int /\ \A y \in X : v[y] \in Int
      BY <2>1, <3>1
    <3>3. CASE v[a] <= v[b]
      <4>1. \A y \in X : v[y] <= v[b]
        BY <3>1, <3>2, <3>3
      <4> QED
        BY <3>1, <4>1
    <3>4. CASE ~(v[a] <= v[b])
      <4>1. \A y \in X : v[y] <= v[a]
        BY <3>1, <3>2, <3>4
      <4> QED
        BY <2>1, <4>1
    <3> QED
      BY <3>3, <3>4
  <2> QED
    BY <2>3, <2>4
<1> HIDE DEF I
<1>2. SUBSET S \subseteq I
  BY <1>1, SubsetsIn
<1>3. S \in I
  BY <1>2
<1> QED
  BY <1>3 DEF I

\* The elements of X in the order of v.
IsSort(p, v, X) ==
    /\ p \in Bijection(1..Cardinality(X), X)
    /\ \A i, j \in 1..Cardinality(X) : i < j => v[p[i]] <= v[p[j]]

\* A finite set can be sorted: its greatest element goes last.
LEMMA SortExists ==
    ASSUME NEW S, IsFiniteSet(S), NEW v, \A x \in S : v[x] \in Int
    PROVE  \E p : IsSort(p, v, S)
<1> DEFINE I == {X \in SUBSET S : \E p : IsSort(p, v, X)}
<1>1. ASSUME NEW X \in SUBSET S, \A Y \in SUBSET X : Y # X => Y \in I
      PROVE  X \in I
  <2>0. IsFiniteSet(X)
    BY FS_Subset
  <2>1. CASE X = {}
    <3>1. Cardinality(X) = 0 /\ 1..0 = {}
      BY <2>1, FS_EmptySet
    <3> DEFINE p == [i \in {} |-> i]
    <3>2. p \in [{} -> {}]
      OBVIOUS
    <3>3. p \in Bijection({}, {})
      <4> HIDE DEF p
      <4> QED
        BY <3>2, Fun_IsBij
    <3>4. IsSort(p, v, X)
      <4> HIDE DEF p
      <4> QED
        BY <2>1, <3>1, <3>3 DEF IsSort
    <3> QED
      BY <3>4
  <2>2. CASE X # {}
    <3>1. PICK m \in X : \A y \in X : v[y] <= v[m]
      BY <2>0, <2>2, GreatestOf
    <3>2. PICK Y : Y = X \ {m}
      OBVIOUS
    <3>3. Y \in I
      BY <1>1, <3>2
    <3>4. PICK p : IsSort(p, v, Y)
      BY <3>3
    <3>5. PICK k : k = Cardinality(X)
      OBVIOUS
    <3>6. k \in Nat /\ k > 0 /\ Cardinality(Y) = k - 1
      <4>1. k \in Nat
        BY <2>0, <3>5, FS_CardinalityType
      <4>2. k # 0
        BY <2>0, <2>2, <3>5, FS_EmptySet
      <4>3. Cardinality(Y) = k - 1
        BY <2>0, <3>2, <3>5, FS_RemoveElement
      <4> QED
        BY <4>1, <4>2, <4>3
    <3>7. /\ p \in [1..(k - 1) -> Y]
          /\ \A i, j \in 1..(k - 1) : p[i] = p[j] => i = j
          /\ \A y \in Y : \E i \in 1..(k - 1) : p[i] = y
          /\ \A i, j \in 1..(k - 1) : i < j => v[p[i]] <= v[p[j]]
      <4>1. p \in Bijection(1..(k - 1), Y)
        BY <3>4, <3>6 DEF IsSort
      <4>2. \A i, j \in 1..(k - 1) : i < j => v[p[i]] <= v[p[j]]
        BY <3>4, <3>6 DEF IsSort
      <4>3. /\ p \in [1..(k - 1) -> Y]
            /\ \A i, j \in 1..(k - 1) : p[i] = p[j] => i = j
            /\ \A y \in Y : \E i \in 1..(k - 1) : p[i] = y
        <5>1. PICK D : D = 1..(k - 1)
          OBVIOUS
        <5>2. p \in Bijection(D, Y)
          BY <4>1, <5>1
        <5>3. /\ p \in [D -> Y]
              /\ \A i, j \in D : p[i] = p[j] => i = j
              /\ \A y \in Y : \E i \in D : p[i] = y
          BY <5>2, Fun_BijectionProperties
        <5> QED
          BY <5>1, <5>3
      <4> QED
        BY <4>1, <4>2, <4>3
    <3> DEFINE q == [i \in 1..k |-> IF i = k THEN m ELSE p[i]]
    <3>8. \A i \in 1..k : q[i] = IF i = k THEN m ELSE p[i]
      OBVIOUS
    <3>9. k \in 1..k /\ \A i \in 1..k : i # k => i \in 1..(k - 1)
      BY <3>6
    <3>10. \A i \in 1..(k - 1) : i \in 1..k /\ i # k
      BY <3>6
    <3>11. q \in [1..k -> X]
      BY <3>1, <3>2, <3>7, <3>9
    <3> HIDE DEF q
    <3>12. \A i, j \in 1..k : q[i] = q[j] => i = j
      BY <3>2, <3>7, <3>8, <3>9
    <3>13. \A x \in X : \E i \in 1..k : q[i] = x
      <4>1. ASSUME NEW x \in X
            PROVE  \E i \in 1..k : q[i] = x
        <5>1. CASE x = m
          BY <3>8, <3>9, <5>1
        <5>2. CASE x # m
          <6>1. PICK i \in 1..(k - 1) : p[i] = x
            BY <3>2, <3>7, <5>2
          <6> QED
            BY <3>8, <3>10, <6>1
        <5> QED
          BY <5>1, <5>2
      <4> QED
        BY <4>1
    <3>14. q \in Bijection(1..k, X)
      BY <3>11, <3>12, <3>13, Fun_IsBij
    <3>15. ASSUME NEW i \in 1..k, NEW j \in 1..k, i < j
           PROVE  v[q[i]] <= v[q[j]]
      <4>1. i # k /\ i \in 1..(k - 1)
        BY <3>6, <3>15
      <4>2. CASE j = k
        BY <3>1, <3>8, <3>11, <4>2
      <4>3. CASE j # k
        <5>1. j \in 1..(k - 1)
          BY <3>9, <4>3
        <5> QED
          BY <3>7, <3>8, <3>15, <4>1, <4>3, <5>1
      <4> QED
        BY <4>2, <4>3
    <3>16. IsSort(q, v, X)
      BY <3>5, <3>14, <3>15 DEF IsSort
    <3> QED
      BY <3>16
  <2> QED
    BY <2>1, <2>2
<1> HIDE DEF I
<1>2. SUBSET S \subseteq I
  BY <1>1, SubsetsIn
<1>3. S \in I
  BY <1>2
<1> QED
  BY <1>3 DEF I

-----------------------------------------------------------------------------
(***************************************************************************)
(* The median                                                              *)
(***************************************************************************)

\* A distance is a quantity as well.
LEMMA QuantityType ==
    ASSUME NEW src, NEW row, IsQuantity(row.quantity)
    PROVE  IsQuantity(Quantity(src, row)) /\ Quantity(src, row).n \in Int
BY DEF IsQuantity, Quantity, Distance, NoQuantity, NaN, Number

\* The rows of the baseline, at their places in it.
LEMMA BaselineSorted ==
    ASSUME NEW src, NEW rows, IsFiniteSet(DOMAIN rows),
           \A n \in DOMAIN rows : IsQuantity(rows[n].quantity)
    PROVE  LET P == Positive(src, rows)
               k == Cardinality(P)
           IN  /\ k \in Nat
               /\ \E p \in Bijection(1..k, P) :
                    /\ Baseline(src, rows) = [i \in 1..k |-> Quantity(src, rows[p[i]]).n]
                    /\ \A i, j \in 1..k : i < j =>
                         Quantity(src, rows[p[i]]).n <= Quantity(src, rows[p[j]]).n
<1>1. PICK P : P = Positive(src, rows)
  OBVIOUS
<1>2. PICK k : k = Cardinality(P)
  OBVIOUS
<1>3. P \subseteq DOMAIN rows /\ IsFiniteSet(P) /\ k \in Nat
  BY <1>1, <1>2, FS_Subset, FS_CardinalityType DEF Positive, Parsed
<1> DEFINE v == [n \in P |-> Quantity(src, rows[n]).n]
<1>4. \A n \in P : v[n] = Quantity(src, rows[n]).n /\ v[n] \in Int
  BY <1>3, QuantityType
<1> HIDE DEF v
<1>5. PICK p : IsSort(p, v, P)
  BY <1>3, <1>4, SortExists
<1>6. ASSUME NEW q \in Bijection(1..k, P)
      PROVE  InOrder(src, rows, q) <=> \A i, j \in 1..k : i < j =>
                Quantity(src, rows[q[i]]).n <= Quantity(src, rows[q[j]]).n
  <2>1. DOMAIN q = 1..k
    BY Fun_BijectionProperties
  <2> QED
    BY <2>1 DEF InOrder
<1>7. p \in Bijection(1..k, P) /\ InOrder(src, rows, p)
  <2>1. p \in Bijection(1..k, P)
    BY <1>2, <1>5 DEF IsSort
  <2>2. \A i \in 1..k : p[i] \in P
    <3>1. p \in [1..k -> P]
      BY <2>1, Fun_BijectionProperties
    <3> QED
      BY <3>1
  <2>3. \A i, j \in 1..k : i < j => Quantity(src, rows[p[i]]).n <= Quantity(src, rows[p[j]]).n
    BY <1>2, <1>4, <1>5, <2>2 DEF IsSort
  <2> QED
    BY <1>6, <2>1, <2>3
<1>8. PICK q : q = CHOOSE r \in Bijection(1..k, P) : InOrder(src, rows, r)
  OBVIOUS
<1>9. q \in Bijection(1..k, P) /\ InOrder(src, rows, q)
  BY <1>7, <1>8
<1>10. Baseline(src, rows) = [i \in 1..k |-> Quantity(src, rows[q[i]]).n]
  BY <1>1, <1>2, <1>8 DEF Baseline
<1> QED
  BY <1>1, <1>2, <1>3, <1>6, <1>9, <1>10

\* An outlier has its place in the upper half of the baseline: half of it is not
\* more than the median.
LEMMA OutliersBound ==
    ASSUME NEW src, NEW rows, IsFiniteSet(DOMAIN rows),
           \A n \in DOMAIN rows : IsQuantity(rows[n].quantity)
    PROVE  2 * Cardinality({n \in Parsed(rows) : IsOutlier(src, rows, Quantity(src, rows[n]))})
             <= Len(Baseline(src, rows))
<1> DEFINE O == {n \in Parsed(rows) : IsOutlier(src, rows, Quantity(src, rows[n]))}
<1>1. PICK P : P = Positive(src, rows)
  OBVIOUS
<1>2. PICK k : k = Cardinality(P)
  OBVIOUS
<1>3. PICK b : b = Baseline(src, rows)
  OBVIOUS
<1>4. k \in Nat /\ \E p \in Bijection(1..k, P) :
        /\ b = [i \in 1..k |-> Quantity(src, rows[p[i]]).n]
        /\ \A i, j \in 1..k : i < j => Quantity(src, rows[p[i]]).n <= Quantity(src, rows[p[j]]).n
  BY <1>1, <1>2, <1>3, BaselineSorted
<1>5. PICK p \in Bijection(1..k, P) :
        /\ b = [i \in 1..k |-> Quantity(src, rows[p[i]]).n]
        /\ \A i, j \in 1..k : i < j => Quantity(src, rows[p[i]]).n <= Quantity(src, rows[p[j]]).n
  BY <1>4
<1>6. p \in [1..k -> P] /\ \A n \in P : \E i \in 1..k : p[i] = n
  <2>1. PICK D : D = 1..k
    OBVIOUS
  <2>2. p \in [D -> P] /\ \A n \in P : \E i \in D : p[i] = n
    <3>1. p \in Bijection(D, P)
      BY <1>5, <2>1
    <3> QED
      BY <3>1, Fun_BijectionProperties
  <2> QED
    BY <2>1, <2>2
<1>7. \A i \in 1..k : b[i] = Quantity(src, rows[p[i]]).n
  BY <1>5
<1>8. \A n \in P : n \in DOMAIN rows /\ Quantity(src, rows[n]).n \in Int /\ Quantity(src, rows[n]).n > 0
  BY <1>1, QuantityType DEF Positive, Parsed
<1>9. \A i \in 1..k : b[i] \in Int /\ b[i] > 0
  BY <1>6, <1>7, <1>8
<1>10. \A i, j \in 1..k : i < j => b[i] <= b[j]
  BY <1>5, <1>7
<1>11. Len(b) = k
  BY <1>4, <1>5
<1>12. PICK h : h = k \div 2
  OBVIOUS
<1>13. h \in Nat /\ (k % 2 = 1 => k = 2 * h + 1) /\ (k % 2 # 1 => k = 2 * h)
  BY <1>4, <1>12
<1>14. PICK m : m = TwiceMedian(src, rows)
  OBVIOUS
<1>15. m = IF k % 2 = 1 THEN 2 * b[h + 1] ELSE b[h] + b[h + 1]
  BY <1>3, <1>11, <1>12, <1>14 DEF TwiceMedian
\* The first place of the upper half.
<1>16. PICK u : u = k - h + 1
  OBVIOUS
<1>17. u \in Nat /\ u >= 1
  BY <1>4, <1>13, <1>16
<1>18. ASSUME NEW i \in 1..k, i < u
       PROVE  2 * b[i] <= 2 * m
  <2>1. CASE k % 2 = 1
    <3>1. h + 1 \in 1..k /\ i <= h + 1
      BY <1>13, <1>16, <1>18, <2>1
    <3>2. b[i] <= b[h + 1] /\ b[h + 1] > 0 /\ b[h + 1] \in Int /\ b[i] \in Int
      <4>1. b[h + 1] > 0 /\ b[h + 1] \in Int /\ b[i] \in Int
        BY <1>9, <3>1
      <4>2. CASE i = h + 1
        BY <4>1, <4>2
      <4>3. CASE i # h + 1
        <5>1. i < h + 1
          BY <1>13, <3>1, <4>3
        <5> QED
          BY <1>10, <3>1, <4>1, <5>1
      <4> QED
        BY <4>2, <4>3
    <3>3. m = 2 * b[h + 1]
      BY <1>15, <2>1
    <3> QED
      BY <3>2, <3>3
  <2>2. CASE k % 2 # 1
    <3>1. h \in 1..k /\ h + 1 \in 1..k /\ i <= h
      BY <1>13, <1>16, <1>18, <2>2
    <3>2. b[h] > 0 /\ b[h + 1] > 0 /\ b[h] \in Int /\ b[h + 1] \in Int /\ b[i] \in Int
      BY <1>9, <3>1
    <3>3. b[i] <= b[h]
      <4>1. CASE i = h
        BY <3>2, <4>1
      <4>2. CASE i # h
        <5>1. i < h
          BY <1>13, <3>1, <4>2
        <5> QED
          BY <1>10, <3>1, <5>1
      <4> QED
        BY <4>1, <4>2
    <3>4. m = b[h] + b[h + 1]
      BY <1>15, <2>2
    <3> QED
      BY <3>2, <3>3, <3>4
  <2> QED
    BY <2>1, <2>2
<1>19. k > 0 => m \in Int /\ m > 0
  <2>1. k > 0 => h + 1 \in 1..k
    BY <1>4, <1>13
  <2>2. k > 0 => b[h + 1] \in Int /\ b[h + 1] > 0
    BY <1>9, <2>1
  <2>3. k > 0 /\ k % 2 # 1 => h \in 1..k
    BY <1>4, <1>13
  <2>4. k > 0 /\ k % 2 # 1 => b[h] \in Int /\ b[h] > 0
    BY <1>9, <2>3
  <2> QED
    BY <1>15, <2>2, <2>4
<1>20. ASSUME NEW n \in O
       PROVE  \E i \in u..k : p[i] = n
  <2>1. n \in DOMAIN rows /\ n \in Parsed(rows) /\ k > 0
        /\ 2 * Quantity(src, rows[n]).n > 5 * m
    BY <1>3, <1>11, <1>14 DEF IsOutlier, Parsed
  <2>2. Quantity(src, rows[n]).n \in Int
    BY <2>1, QuantityType
  <2>3. Quantity(src, rows[n]).n > 0
    BY <1>19, <2>1, <2>2
  <2>4. n \in P
    BY <1>1, <2>1, <2>3 DEF Positive
  <2>5. PICK i \in 1..k : p[i] = n
    BY <1>6, <2>4
  <2>6. b[i] = Quantity(src, rows[n]).n
    BY <1>7, <2>5
  <2>7. ~(i < u)
    <3> SUFFICES ASSUME i < u
                 PROVE  FALSE
      OBVIOUS
    <3>1. 2 * b[i] <= 2 * m
      BY <1>18
    <3> QED
      BY <1>19, <2>1, <2>2, <2>6, <3>1
  <2>8. i \in u..k
    BY <1>4, <1>17, <2>7
  <2> QED
    BY <2>5, <2>8
<1>21. Cardinality(O) <= h
  <2> DEFINE q == [i \in u..k |-> p[i]]
             D == {p[i] : i \in u..k}
  <2>1. q \in [u..k -> D] /\ \A d \in D : \E i \in u..k : q[i] = d
    OBVIOUS
  <2>2. O \subseteq D
    BY <1>20
  <2>3. IsFiniteSet(u..k) /\ Cardinality(u..k) = h
    <3>1. IsFiniteSet(u..k) /\ Cardinality(u..k) = IF u > k THEN 0 ELSE k - u + 1
      BY <1>4, <1>17, FS_Interval
    <3> QED
      BY <1>4, <1>13, <1>16, <3>1
  <2> HIDE DEF q, D, O
  <2>4. q \in Surjection(u..k, D)
    BY <2>1, Fun_IsSurj
  <2>5. IsFiniteSet(D) /\ Cardinality(D) <= h
    BY <2>3, <2>4, FS_Surjection
  <2>6. IsFiniteSet(O) /\ Cardinality(O) <= Cardinality(D)
    BY <2>2, <2>5, FS_Subset
  <2>7. Cardinality(O) \in Nat /\ Cardinality(D) \in Nat
    BY <2>5, <2>6, FS_CardinalityType
  <2> QED
    BY <1>13, <2>5, <2>6, <2>7
<1>22. Cardinality(O) \in Nat
  <2>1. O \in SUBSET DOMAIN rows
    BY DEF Parsed
  <2> HIDE DEF O
  <2>2. IsFiniteSet(O)
    BY <2>1, FS_Subset
  <2> QED
    BY <2>2, FS_CardinalityType
<1>23. 2 * Cardinality(O) <= k
  <2> HIDE DEF O
  <2>1. k >= 2 * h
    BY <1>4, <1>13
  <2> QED
    BY <1>4, <1>13, <1>21, <1>22, <2>1
<1> QED
  BY <1>3, <1>11, <1>23

-----------------------------------------------------------------------------
(***************************************************************************)
(* The rows, step by step                                                  *)
(***************************************************************************)

\* The records that may be made of what the parser returned.
Made == {RecordOf(n) : n \in Parsed(file)}

\* The parser has read the file to its end, and the rows up to done have their
\* records.
ReadInv ==
    /\ \A n \in DOMAIN file : file[n].read # "raises"
    /\ errors = Cardinality({n \in DOMAIN file : file[n].read = "error"})
    /\ Len(records) = Cardinality({n \in Parsed(file) : n <= done})
    /\ \A n \in Parsed(file) : n <= done =>
          /\ \E i \in DOMAIN records : records[i] = RecordOf(n)
          /\ IsFailed(source, file[n]) \/ Quantity(source, file[n]).is # "infinite"

\* The rows have gone in.
StoredInv == Left = {} /\ \A i \in DOMAIN records : Storable(records[i])

Stored == {"stored", "calculated", "uncalculated"}

\* Each record is that of its row, each calculation that of its record; a batch
\* is only given up for a row that spoils it.
RowsInv ==
    /\ source \in Sources
    /\ file \in Seq(Rows[source])
    /\ done \in 0..Len(file) /\ errors \in Nat
    /\ records \in Seq(Made)
    /\ at \in {"parsing", "rows", "aborted"} \cup Stored
    /\ at = "parsing" => done = 0 /\ records = <<>>
    /\ at = "aborted" => \E n \in DOMAIN file : Spoils(file[n])
    /\ at \in {"rows"} \cup Stored => ReadInv
    /\ at \in Stored => StoredInv
    /\ at = "calculated" => calcs = [n \in DOMAIN records |-> Calculation(records[n])]

\* Nothing is done yet.
LEMMA RowsInit == Init => RowsInv
<1> SUFFICES ASSUME Init
             PROVE  RowsInv
  OBVIOUS
<1>1. source \in Sources /\ file \in Seq(Rows[source])
  <2>1. PICK n \in 1..MaxRows : file \in [1..n -> Rows[source]]
    BY DEF Init
  <2>2. n \in Nat
    BY BoundAssumption
  <2>3. file \in Seq(Rows[source])
    BY <2>1, <2>2
  <2> QED
    BY <2>3 DEF Init
<1>2. Len(file) \in Nat
  BY <1>1
<1> QED
  BY <1>1, <1>2 DEF Init, RowsInv, Stored

\* The rows of a file are rows of its source.
LEMMA RowType ==
    ASSUME RowsInv, NEW n \in DOMAIN file
    PROVE  source \in Sources /\ file[n] \in Rows[source] /\ IsQuantity(file[n].quantity)
<1>1. file[n] \in Rows[source] /\ source \in Sources
  BY DEF RowsInv
<1> QED
  BY <1>1, RowsAssumption

\* What a quantity is multiplied by is a number.
LEMMA ConversionType ==
    ASSUME NEW src, NEW row
    PROVE  Conversion(src, row) \in Nat
<1>1. \A u \in DOMAIN SAP_TO_LITERS : SAP_TO_LITERS[u] \in Nat \ {0}
  BY DEF SAP_TO_LITERS
<1>2. \A u \in DOMAIN UTILITY_TO_KWH : UTILITY_TO_KWH[u] \in Nat \ {0}
  BY DEF UTILITY_TO_KWH
<1>3. \A c \in DOMAIN FLIGHT_CLASS_MULTIPLIERS : FLIGHT_CLASS_MULTIPLIERS[c] \in Nat \ {0}
  BY DEF FLIGHT_CLASS_MULTIPLIERS
<1> QED
  BY <1>1, <1>2, <1>3 DEF Conversion

\* A file is read once: its records stay what they are.
LEMMA MadeKept ==
    ASSUME UNCHANGED <<source, file>>
    PROVE  Made' = Made
<1>1. source' = source /\ file' = file
  OBVIOUS
<1>2. \A n : RecordOf(n)' = RecordOf(n)
  BY <1>1 DEF RecordOf, Value, IsFailed, FailedSap, FailedUtility, FailedTravel, Normalizes,
              IsSuspicious, SuspectSap, SuspectUtility, SuspectTravel, Scope
<1> QED
  BY <1>1, <1>2 DEF Made, Parsed

\* A record names its row.
LEMMA MadeFields ==
    ASSUME NEW r \in Made
    PROVE  /\ r.row \in DOMAIN file
           /\ r = RecordOf(r.row)
<1>1. PICK n \in Parsed(file) : r = RecordOf(n)
  BY DEF Made
<1>2. r.row = n /\ n \in DOMAIN file
  BY <1>1 DEF RecordOf, Parsed
<1> QED
  BY <1>1, <1>2

\* What the validator lets pass the normalizer knows how to convert.
LEMMA PassesNormalize ==
    ASSUME NEW src \in Sources, NEW row \in Rows[src], ~IsFailed(src, row)
    PROVE  Normalizes(src, row)
<1>1. src \in AllSources
  BY SourcesAssumption
<1>2. Quantity(src, row) # NoQuantity
  BY <1>1 DEF AllSources, IsFailed, FailedSap, FailedUtility, FailedTravel, Quantity
<1>3. CASE src = "SAP_FUEL"
  <2>1. row.unit \in VALID_SAP_UNITS
    BY <1>3 DEF IsFailed, FailedSap
  <2>2. \A u \in VALID_SAP_UNITS : u \in DOMAIN SAP_TO_LITERS /\ SAP_TO_LITERS[u] # 0
    BY DEF VALID_SAP_UNITS, SAP_TO_LITERS
  <2>3. Conversion(src, row) # 0
    BY <1>3, <2>1, <2>2 DEF Conversion
  <2> QED
    BY <1>2, <2>3 DEF Normalizes
<1>4. CASE src = "UTILITY_ELECTRICITY"
  <2>1. row.unit \in DOMAIN UTILITY_TO_KWH
    BY <1>4, UnitsAssumption
  <2>2. Unit(src, row) = row.unit
    BY <1>2, <1>4 DEF Unit, Quantity
  <2>3. \A u \in DOMAIN UTILITY_TO_KWH : UTILITY_TO_KWH[u] # 0
    BY DEF UTILITY_TO_KWH
  <2>4. Conversion(src, row) # 0
    BY <1>4, <2>1, <2>2, <2>3 DEF Conversion
  <2> QED
    BY <1>2, <2>4 DEF Normalizes
<1>5. CASE src = "CORP_TRAVEL"
  <2>1. \A c \in DOMAIN FLIGHT_CLASS_MULTIPLIERS : FLIGHT_CLASS_MULTIPLIERS[c] # 0
    BY DEF FLIGHT_CLASS_MULTIPLIERS
  <2>2. Conversion(src, row) # 0
    BY <1>5, <2>1 DEF Conversion
  <2> QED
    BY <1>2, <2>2 DEF Normalizes
<1> QED
  BY <1>1, <1>3, <1>4, <1>5 DEF AllSources

\* The loop takes the next row the parser returned.
LEMMA LeftMin ==
    ASSUME file \in Seq(Rows[source]), Left # {}
    PROVE  Min(Left) \in Left /\ \A n \in Left : Min(Left) <= n
<1>1. Left \subseteq DOMAIN file /\ DOMAIN file = 1..Len(file) /\ Len(file) \in Nat
  BY DEF Left, Parsed
<1>2. IsFiniteSet(Left)
  <2>1. IsFiniteSet(DOMAIN file)
    BY <1>1, FS_Interval
  <2> QED
    BY <1>1, <2>1, FS_Subset
<1>3. PICK S : S = Left
  OBVIOUS
<1> DEFINE v == [n \in S |-> -n]
<1>4. \A n \in S : n \in Int /\ v[n] = -n /\ v[n] \in Int
  BY <1>1, <1>3
<1> HIDE DEF v
<1>5. PICK m \in S : \A n \in S : v[n] <= v[m]
  BY <1>2, <1>3, <1>4, GreatestOf
<1>6. \A n \in S : m <= n
  BY <1>4, <1>5
<1>7. Min(S) \in S /\ \A n \in S : Min(S) <= n
  BY <1>5, <1>6 DEF Min
<1> QED
  BY <1>3, <1>7

\* Only a row with an infinite quantity that passes validation cannot be quantized.
LEMMA RaisesSpoils ==
    ASSUME RowsInv, NormalizeRaises
    PROVE  \E n \in DOMAIN file : Spoils(file[n])
<1>1. Min(Left) \in Left
  BY LeftMin DEF NormalizeRaises, RowsInv
<1>2. Min(Left) \in DOMAIN file /\ Row.read = "row"
  BY <1>1 DEF Left, Parsed, Row
<1>3. ~IsFailed(source, Row) /\ Quantity(source, Row).is = "infinite"
  BY DEF NormalizeRaises, Quantizes
<1>4. Spoils(Row)
  BY <1>2, <1>3 DEF Spoils, Fits
<1> QED
  BY <1>2, <1>4 DEF Row

\* What is stored of a row: its value if it passes, as the column holds it.
LEMMA StorableIs ==
    ASSUME RowsInv, NEW n \in Parsed(file),
           IsFailed(source, file[n]) \/ Quantity(source, file[n]).is # "infinite"
    PROVE  Storable(RecordOf(n)) <=> ~Spoils(file[n])
<1>1. n \in DOMAIN file /\ file[n].read = "row"
  BY DEF Parsed
<1>2. source \in Sources /\ file[n] \in Rows[source] /\ IsQuantity(file[n].quantity)
  BY <1>1, RowType
<1>3. RecordOf(n).row = n
  BY DEF RecordOf
<1>4. ValueLimit \in Nat /\ ValueLimit > 0
  BY BoundAssumption
<1>5. CASE IsFailed(source, file[n])
  <2>1. RecordOf(n).value = NoQuantity
    BY <1>5 DEF RecordOf
  <2>2. Storable(RecordOf(n)) <=> file[n].payload
    BY <1>3, <1>4, <2>1 DEF Storable, NoQuantity
  <2> QED
    BY <1>1, <1>5, <2>2 DEF Spoils
<1>6. CASE ~IsFailed(source, file[n])
  <2>1. Normalizes(source, file[n])
    BY <1>2, <1>6, PassesNormalize
  <2>2. RecordOf(n).value = Value(file[n])
    BY <1>6, <2>1 DEF RecordOf
  <2>3. PICK q : q = Quantity(source, file[n])
    OBVIOUS
  <2>4. PICK c : c = Conversion(source, file[n])
    OBVIOUS
  <2>5. IsQuantity(q) /\ q.n \in Int /\ c \in Nat
    BY <1>2, <2>3, <2>4, QuantityType, ConversionType
  <2>6. q # NoQuantity /\ q.is # "infinite"
    BY <1>6, <2>1, <2>3 DEF Normalizes
  <2>7. CASE q.is = "nan"
    <3>1. RecordOf(n).value.is = "nan"
      BY <2>2, <2>3, <2>7 DEF Value, NaN
    <3>2. ~Storable(RecordOf(n)) /\ ~Fits(file[n])
      BY <2>3, <2>7, <3>1 DEF Storable, Fits
    <3> QED
      BY <1>1, <1>6, <3>2 DEF Spoils
  <2>8. CASE q.is = "number"
    <3>1. RecordOf(n).value = Number(q.n * c)
      BY <2>2, <2>3, <2>4, <2>8 DEF Value
    <3>2. Storable(RecordOf(n)) <=> file[n].payload /\ q.n * c < ValueLimit
      BY <1>3, <3>1 DEF Storable, Number
    <3>3. Fits(file[n]) <=> q.n * c < ValueLimit
      BY <2>3, <2>4, <2>8 DEF Fits
    <3> QED
      BY <1>1, <1>6, <3>2, <3>3 DEF Spoils
  <2>9. q.is \in {"number", "nan"}
    BY <2>5, <2>6 DEF IsQuantity, NaN
  <2> QED
    BY <2>7, <2>8, <2>9
<1> QED
  BY <1>5, <1>6

\* Where every row has its record, the records say which rows spoil the file.
LEMMA RefusedIs ==
    ASSUME RowsInv, ReadInv, Left = {}
    PROVE  (\A i \in DOMAIN records : Storable(records[i])) <=> \A n \in DOMAIN file : ~Spoils(file[n])
<1>1. done \in Nat /\ DOMAIN file = 1..Len(file) /\ Len(file) \in Nat
  BY DEF RowsInv
<1>2. \A n \in Parsed(file) : n <= done
  BY <1>1 DEF Left, Parsed
<1>3. ASSUME NEW n \in Parsed(file)
      PROVE  /\ \E i \in DOMAIN records : records[i] = RecordOf(n)
             /\ Storable(RecordOf(n)) <=> ~Spoils(file[n])
  BY <1>2, StorableIs DEF ReadInv
<1>4. ASSUME \A i \in DOMAIN records : Storable(records[i]), NEW n \in DOMAIN file
      PROVE  ~Spoils(file[n])
  <2>1. CASE n \in Parsed(file)
    BY <1>3, <1>4, <2>1
  <2>2. CASE n \notin Parsed(file)
    BY <2>2 DEF Parsed, Spoils, ReadInv
  <2> QED
    BY <2>1, <2>2
<1>5. ASSUME \A n \in DOMAIN file : ~Spoils(file[n]), NEW i \in DOMAIN records
      PROVE  Storable(records[i])
  <2>1. PICK n \in Parsed(file) : records[i] = RecordOf(n)
    BY DEF RowsInv, Made
  <2>2. n \in DOMAIN file
    BY DEF Parsed
  <2> QED
    BY <1>3, <1>5, <2>1, <2>2
<1> QED
  BY <1>4, <1>5

\* The rows are what they are, whatever becomes of them.
LEMMA SpoilsKept ==
    ASSUME UNCHANGED <<source, file>>
    PROVE  /\ \A n : Spoils(file[n])' <=> Spoils(file[n])
           /\ Parsed(file)' = Parsed(file)
           /\ \A n : RecordOf(n)' = RecordOf(n)
           /\ \A n : IsFailed(source, file[n])' <=> IsFailed(source, file[n])
           /\ \A r : Storable(r)' <=> Storable(r)
<1>1. source' = source /\ file' = file
  OBVIOUS
<1>2. \A n : RecordOf(n)' = RecordOf(n)
  BY <1>1 DEF RecordOf, Value, IsFailed, FailedSap, FailedUtility, FailedTravel, Normalizes,
              IsSuspicious, SuspectSap, SuspectUtility, SuspectTravel, Scope
<1>3. \A n : IsFailed(source, file[n])' <=> IsFailed(source, file[n])
  BY <1>1 DEF IsFailed, FailedSap, FailedUtility, FailedTravel
<1>4. \A n : Fits(file[n])' <=> Fits(file[n])
  BY <1>1 DEF Fits
<1>5. \A n : Spoils(file[n])' <=> Spoils(file[n])
  BY <1>1, <1>3, <1>4 DEF Spoils
<1> QED
  BY <1>1, <1>2, <1>3, <1>5 DEF Parsed, Storable

\* parse(): either the whole file or nothing.
LEMMA ParseStep ==
    ASSUME RowsInv, Parse
    PROVE  RowsInv'
<1>1. /\ UNCHANGED <<source, file, done, records, calcs>>
      /\ at = "parsing" /\ done = 0 /\ records = <<>>
  BY DEF Parse, RowsInv
<1>2. Made' = Made /\ \A n : Spoils(file[n])' <=> Spoils(file[n])
  BY <1>1, MadeKept, SpoilsKept
<1>3. /\ source \in Sources /\ file \in Seq(Rows[source]) /\ errors \in Nat
      /\ done \in 0..Len(file) /\ records \in Seq(Made)
  BY DEF RowsInv
<1>4. CASE \E n \in DOMAIN file : file[n].read = "raises"
  <2>1. at' = "aborted" /\ errors' = errors
    BY <1>4 DEF Parse
  <2>2. \E n \in DOMAIN file : Spoils(file[n])
    BY <1>4 DEF Spoils
  <2> QED
    BY <1>1, <1>2, <1>3, <2>1, <2>2 DEF RowsInv, Stored
<1>5. CASE ~\E n \in DOMAIN file : file[n].read = "raises"
  <2>1. at' = "rows" /\ errors' = Cardinality({n \in DOMAIN file : file[n].read = "error"})
    BY <1>5 DEF Parse
  <2>2. errors' \in Nat
    <3>1. DOMAIN file = 1..Len(file) /\ Len(file) \in Nat
      BY <1>3
    <3>2. IsFiniteSet({n \in DOMAIN file : file[n].read = "error"})
      <4>1. IsFiniteSet(DOMAIN file)
        BY <3>1, FS_Interval
      <4> QED
        BY <4>1, FS_Subset
    <3> QED
      BY <2>1, <3>2, FS_CardinalityType
  <2>3. \A n \in Parsed(file) : ~(n <= 0)
    <3>1. DOMAIN file = 1..Len(file) /\ Len(file) \in Nat
      BY <1>3
    <3> QED
      BY <3>1 DEF Parsed
  <2>4. Cardinality({n \in Parsed(file) : n <= 0}) = 0
    <3>1. {n \in Parsed(file) : n <= 0} = {}
      BY <2>3
    <3> QED
      BY <3>1, FS_EmptySet
  <2>5. Parsed(file)' = Parsed(file)
    BY <1>1, SpoilsKept
  <2>6. ReadInv'
    <3>1. Len(records) = 0
      BY <1>1
    <3>2. /\ (\A n \in DOMAIN file : file[n].read # "raises")'
          /\ (errors = Cardinality({n \in DOMAIN file : file[n].read = "error"}))'
      BY <1>1, <1>5, <2>1
    <3>3. (Len(records) = Cardinality({n \in Parsed(file) : n <= done}))'
      BY <1>1, <2>4, <2>5, <3>1
    <3>4. \A n \in Parsed(file)' : ~(n <= done')
      BY <1>1, <2>3, <2>5
    <3> QED
      BY <3>2, <3>3, <3>4 DEF ReadInv
  <2> QED
    BY <1>1, <1>2, <1>3, <2>1, <2>2, <2>6 DEF RowsInv, Stored
<1> QED
  BY <1>4, <1>5

\* A record for the next row.
LEMMA RecordStep ==
    ASSUME RowsInv, MakeRecord
    PROVE  RowsInv'
<1>1. /\ UNCHANGED <<source, file, errors, calcs>> /\ at = "rows" /\ at' = "rows"
      /\ done' = Min(Left) /\ records' = Append(records, RecordOf(Min(Left)))
  BY DEF MakeRecord
<1>2. /\ Made' = Made /\ Parsed(file)' = Parsed(file)
      /\ \A n : RecordOf(n)' = RecordOf(n)
      /\ \A n : IsFailed(source, file[n])' <=> IsFailed(source, file[n])
  BY <1>1, MadeKept, SpoilsKept
<1>3. /\ source \in Sources /\ file \in Seq(Rows[source]) /\ errors \in Nat
      /\ done \in 0..Len(file) /\ records \in Seq(Made) /\ ReadInv
      /\ DOMAIN file = 1..Len(file) /\ Len(file) \in Nat
  BY <1>1 DEF RowsInv
<1>4. PICK m : m = Min(Left)
  OBVIOUS
<1>5. m \in Left /\ \A n \in Left : m <= n
  BY <1>3, <1>4, LeftMin DEF MakeRecord
<1>6. m \in Parsed(file) /\ m \in DOMAIN file /\ m > done
  BY <1>5 DEF Left, Parsed
<1>7. RecordOf(m) \in Made
  BY <1>6 DEF Made
<1>8. /\ records' = Append(records, RecordOf(m)) /\ records' \in Seq(Made)
      /\ Len(records') = Len(records) + 1 /\ Len(records) \in Nat
      /\ records'[Len(records) + 1] = RecordOf(m) /\ Len(records) + 1 \in DOMAIN records'
      /\ \A i \in DOMAIN records : i \in DOMAIN records' /\ records'[i] = records[i]
  BY <1>1, <1>3, <1>4, <1>7
<1>9. \A n \in Parsed(file) : n <= m <=> n <= done \/ n = m
  <2>1. \A n \in Parsed(file) : n \in Int
    BY <1>3 DEF Parsed
  <2>2. \A n \in Parsed(file) : n > done => m <= n
    BY <1>5 DEF Left
  <2> QED
    BY <1>3, <1>6, <2>1, <2>2
<1>10. Len(records') = Cardinality({n \in Parsed(file) : n <= m})
  <2>1. PICK D : D = {n \in Parsed(file) : n <= done}
    OBVIOUS
  <2>2. IsFiniteSet(D) /\ m \notin D
    <3>1. IsFiniteSet(DOMAIN file) /\ D \in SUBSET DOMAIN file
      BY <1>3, <2>1, FS_Interval DEF Parsed
    <3>2. m \notin D
      BY <1>3, <1>6, <2>1
    <3> QED
      BY <3>1, <3>2, FS_Subset
  <2>3. {n \in Parsed(file) : n <= m} = D \cup {m}
    BY <1>6, <1>9, <2>1
  <2>4. Cardinality(D \cup {m}) = Cardinality(D) + 1
    BY <2>2, FS_AddElement
  <2>5. Len(records) = Cardinality(D)
    BY <1>3, <2>1 DEF ReadInv
  <2> QED
    BY <1>8, <2>3, <2>4, <2>5
<1>11. ASSUME NEW n \in Parsed(file), n <= m
       PROVE  /\ \E i \in DOMAIN records' : records'[i] = RecordOf(n)
              /\ IsFailed(source, file[n]) \/ Quantity(source, file[n]).is # "infinite"
  <2>1. CASE n <= done
    <3>1. \E i \in DOMAIN records : records[i] = RecordOf(n)
      BY <1>3, <2>1 DEF ReadInv
    <3>2. IsFailed(source, file[n]) \/ Quantity(source, file[n]).is # "infinite"
      BY <1>3, <2>1 DEF ReadInv
    <3> QED
      BY <1>8, <3>1, <3>2
  <2>2. CASE n = m
    <3>1. IsFailed(source, file[m]) \/ Quantity(source, file[m]).is # "infinite"
      BY <1>4 DEF MakeRecord, Quantizes, Row
    <3> QED
      BY <1>8, <2>2, <3>1
  <2> QED
    BY <1>9, <1>11, <2>1, <2>2
<1>12. ReadInv'
  <2>1. /\ (\A n \in DOMAIN file : file[n].read # "raises")'
        /\ (errors = Cardinality({n \in DOMAIN file : file[n].read = "error"}))'
    BY <1>1, <1>3 DEF ReadInv
  <2>2. (Len(records) = Cardinality({n \in Parsed(file) : n <= done}))'
    BY <1>1, <1>2, <1>4, <1>10
  <2>3. \A n \in Parsed(file)' : n <= done' =>
          /\ \E i \in DOMAIN records' : records'[i] = RecordOf(n)'
          /\ IsFailed(source, file[n])' \/ (Quantity(source, file[n]).is # "infinite")'
    BY <1>1, <1>2, <1>4, <1>11
  <2> QED
    BY <2>1, <2>2, <2>3 DEF ReadInv
<1>13. done' \in 0..Len(file)
  BY <1>1, <1>3, <1>4, <1>6
<1> QED
  BY <1>1, <1>2, <1>3, <1>8, <1>12, <1>13 DEF RowsInv, Stored

\* All the rows go in, or none.
LEMMA StoreStep ==
    ASSUME RowsInv, StoreRecords
    PROVE  RowsInv'
<1>1. /\ UNCHANGED <<source, file, done, errors, calcs>> /\ at = "rows" /\ Left = {}
  BY DEF StoreRecords
<1>2. /\ Made' = Made /\ Parsed(file)' = Parsed(file)
      /\ \A n : RecordOf(n)' = RecordOf(n)
      /\ \A n : IsFailed(source, file[n])' <=> IsFailed(source, file[n])
      /\ \A n : Spoils(file[n])' <=> Spoils(file[n])
      /\ \A r : Storable(r)' <=> Storable(r)
  BY <1>1, MadeKept, SpoilsKept
<1>3. /\ source \in Sources /\ file \in Seq(Rows[source]) /\ errors \in Nat
      /\ done \in 0..Len(file) /\ records \in Seq(Made) /\ ReadInv
  BY <1>1 DEF RowsInv
<1>4. CASE \A i \in DOMAIN records : Storable(records[i])
  <2>1. at' = "stored" /\ records' = records
    BY <1>4 DEF StoreRecords
  <2>2. ReadInv'
    BY <1>1, <1>2, <1>3, <2>1 DEF ReadInv
  <2>3. StoredInv'
    BY <1>1, <1>2, <1>4, <2>1 DEF StoredInv, Left
  <2> QED
    BY <1>1, <1>2, <1>3, <2>1, <2>2, <2>3 DEF RowsInv, Stored
<1>5. CASE ~\A i \in DOMAIN records : Storable(records[i])
  <2>1. at' = "aborted" /\ records' = <<>>
    BY <1>5 DEF StoreRecords
  <2>2. \E n \in DOMAIN file : Spoils(file[n])
    BY <1>1, <1>3, <1>5, RefusedIs
  <2>3. records' \in Seq(Made)
    BY <2>1
  <2> QED
    BY <1>1, <1>2, <1>3, <2>1, <2>2, <2>3 DEF RowsInv, Stored
<1> QED
  BY <1>4, <1>5

\* Each step keeps the invariant, and so does none.
LEMMA RowsStep ==
    ASSUME RowsInv, [Next]_vars
    PROVE  RowsInv'
<1>1. UNCHANGED <<source, file>>
  BY DEF Next, Parse, MakeRecord, NormalizeRaises, StoreRecords, Calculate, vars
<1>2. /\ Made' = Made /\ Parsed(file)' = Parsed(file)
      /\ \A n : RecordOf(n)' = RecordOf(n)
      /\ \A n : IsFailed(source, file[n])' <=> IsFailed(source, file[n])
      /\ \A n : Spoils(file[n])' <=> Spoils(file[n])
      /\ \A r : Storable(r)' <=> Storable(r)
      /\ \A r : Calculation(r)' = Calculation(r)
  BY <1>1, MadeKept, SpoilsKept DEF Calculation, ActivityType, ActivityDate, KeyOf, Mapped
<1>3. /\ source \in Sources /\ file \in Seq(Rows[source]) /\ errors \in Nat
      /\ done \in 0..Len(file) /\ records \in Seq(Made)
  BY DEF RowsInv
<1>4. ASSUME UNCHANGED <<done, errors, records>>
      PROVE  (ReadInv => ReadInv') /\ (StoredInv => StoredInv')
  BY <1>1, <1>2, <1>4 DEF ReadInv, StoredInv, Left
<1>5. CASE NormalizeRaises
  <2>1. at' = "aborted" /\ records' = <<>> /\ done' = done /\ errors' = errors
    BY <1>5 DEF NormalizeRaises
  <2>2. \E n \in DOMAIN file : Spoils(file[n])
    BY <1>5, RaisesSpoils
  <2>3. records' \in Seq(Made)
    BY <2>1
  <2> QED
    BY <1>1, <1>2, <1>3, <2>1, <2>2, <2>3 DEF RowsInv, Stored
<1>6. CASE Calculate
  <2>1. at = "stored" /\ UNCHANGED <<done, errors, records>>
    BY <1>6 DEF Calculate
  <2>2. /\ at' \in {"calculated", "uncalculated"}
        /\ at' = "calculated" => calcs' = [n \in DOMAIN records |-> Calculation(records[n])]
    BY <1>6 DEF Calculate
  <2>3. (at = "calculated" => calcs = [n \in DOMAIN records |-> Calculation(records[n])])'
    BY <1>2, <2>1, <2>2
  <2>4. ReadInv' /\ StoredInv'
    BY <1>4, <2>1 DEF RowsInv, Stored
  <2> QED
    BY <1>1, <1>2, <1>3, <2>1, <2>2, <2>3, <2>4 DEF RowsInv, Stored
<1>7. CASE UNCHANGED vars
  <2>1. UNCHANGED <<at, done, errors, records, calcs>>
    BY <1>7 DEF vars
  <2>2. (at = "calculated" => calcs = [n \in DOMAIN records |-> Calculation(records[n])])'
    BY <1>2, <2>1 DEF RowsInv
  <2>3. (at = "aborted" => \E n \in DOMAIN file : Spoils(file[n]))'
    BY <1>1, <1>2, <2>1 DEF RowsInv
  <2> QED
    BY <1>1, <1>2, <1>3, <1>4, <2>1, <2>2, <2>3 DEF RowsInv, Stored
<1> QED
  BY <1>5, <1>6, <1>7, ParseStep, RecordStep, StoreStep DEF Next

\* The invariant holds in every state.
LEMMA RowsCorrect == Spec => []RowsInv
BY RowsInit, RowsStep, PTL DEF Spec

-----------------------------------------------------------------------------
(***************************************************************************)
(* Theorems                                                                *)
(***************************************************************************)

\* A file is given up if, and only if, it holds a row that the parser raises on, that
\* jsonb refuses, or whose value passes validation and does not fit: no other bad row
\* takes the file with it, and none of these leaves the others alone, in any file.
THEOREM IsolatedTheorem == Spec => []BadRowIsolated
<1>1. ASSUME RowsInv
      PROVE  BadRowIsolated
  <2>1. BatchStatus = "FAILED" => at = "aborted"
    BY DEF BatchStatus
  <2>2. BatchStatus = "FAILED" => \E n \in DOMAIN file : Spoils(file[n])
    BY <1>1, <2>1 DEF RowsInv
  <2>3. ASSUME at \in Stored
        PROVE  \A n \in DOMAIN file : ~Spoils(file[n])
    <3>1. ReadInv /\ StoredInv
      BY <1>1, <2>3 DEF RowsInv
    <3> QED
      BY <1>1, <3>1, RefusedIs DEF StoredInv
  <2> QED
    BY <2>2, <2>3 DEF BadRowIsolated, Stored
<1> QED
  BY RowsCorrect, <1>1, PTL

\* The rows flagged as outliers are at most half of those with a positive quantity,
\* for any number of rows and any quantities.
THEOREM OutliersTheorem == Spec => []OutliersAreFew
<1>1. ASSUME RowsInv
      PROVE  OutliersAreFew
  <2>1. \A n \in DOMAIN file : IsQuantity(file[n].quantity)
    BY <1>1, RowType
  <2>2. IsFiniteSet(DOMAIN file)
    <3>1. DOMAIN file = 1..Len(file) /\ Len(file) \in Nat
      BY <1>1 DEF RowsInv
    <3> QED
      BY <3>1, FS_Interval
  <2> QED
    BY <2>1, <2>2, OutliersBound DEF OutliersAreFew
<1> QED
  BY RowsCorrect, <1>1, PTL

\* Validator and normalizer say the same of a record.
LEMMA MadeAgrees ==
    ASSUME RowsInv, NEW r \in Made
    PROVE  /\ r.status = "FAILED" <=> IsFailed(source, file[r.row])
           /\ r.status = "FAILED" <=> r.value = NoQuantity
           /\ r.status # "FAILED" => r.scope \in 1..3
           /\ r.value.n \in Int
<1>1. PICK n \in DOMAIN file : r = RecordOf(n) /\ r.row = n
  BY MadeFields
<1>2. source \in Sources /\ file[n] \in Rows[source] /\ IsQuantity(file[n].quantity)
  BY RowType
<1>3. Quantity(source, file[n]).n \in Int /\ Conversion(source, file[n]) \in Nat
  BY <1>2, QuantityType, ConversionType
<1>4. Value(file[n]) # NoQuantity /\ Value(file[n]).n \in Int
  <2>1. Quantity(source, file[n]).n * Conversion(source, file[n]) \in Int
    BY <1>3
  <2> QED
    BY <2>1 DEF Value, NaN, Number, NoQuantity
<1>5. CASE IsFailed(source, file[n])
  BY <1>1, <1>5 DEF RecordOf, NoQuantity
<1>6. CASE ~IsFailed(source, file[n])
  <2>1. Normalizes(source, file[n])
    BY <1>2, <1>6, PassesNormalize
  <2>2. Scope(source) \in 1..3
    BY DEF Scope
  <2>3. r.status \in {"SUSPICIOUS", "DRAFT"} /\ r.value = Value(file[n]) /\ r.scope = Scope(source)
    BY <1>1, <1>6, <2>1 DEF RecordOf
  <2> QED
    BY <1>1, <1>4, <1>6, <2>2, <2>3
<1> QED
  BY <1>5, <1>6

\* A calculation follows the status of its record.
LEMMA CalculationAgrees ==
    ASSUME RowsInv, NEW r \in Made
    PROVE  LET c == Calculation(r)
           IN  /\ c.status = "EXCLUDED_FAILED" <=> r.status = "FAILED"
               /\ c.scope = r.scope
               /\ c.co2e \in Int
<1>1. r.value.n \in Int
  BY MadeAgrees
<1>2. PICK type : type = ActivityType(file[r.row])
  OBVIOUS
<1>3. PICK date : date = ActivityDate(file[r.row])
  OBVIOUS
<1>4. HasFactor(type, date) => r.value.n * Factors[type].rate \in Int
  <2>1. ASSUME HasFactor(type, date)
        PROVE  Factors[type].rate \in Int
    BY <2>1, FactorsAssumption DEF HasFactor
  <2> QED
    BY <1>1, <2>1
<1> QED
  BY <1>2, <1>3, <1>4 DEF Calculation

\* Total, scopes and months of a calculated batch.
LEMMA TotalsAgree ==
    ASSUME RowsInv, at = "calculated"
    PROVE  /\ Total = TotalBy(1) + TotalBy(2) + TotalBy(3)
           /\ Total # Series => \E n \in DOMAIN calcs : calcs[n].date = NoDate
<1>1. DOMAIN calcs = DOMAIN records /\ \A n \in DOMAIN calcs : records[n] \in Made /\ calcs[n] = Calculation(records[n])
  BY DEF RowsInv
<1>2. IsFiniteSet(Calculated)
  <2>1. Len(records) \in Nat /\ DOMAIN calcs = 1..Len(records)
    BY <1>1 DEF RowsInv
  <2>2. IsFiniteSet(DOMAIN calcs)
    BY <2>1, FS_Interval
  <2>3. Calculated \in SUBSET DOMAIN calcs
    BY DEF Calculated
  <2> QED
    BY <2>2, <2>3, FS_Subset
<1>3. \A n \in Calculated : calcs[n].co2e \in Int /\ calcs[n].scope \in 1..3
  <2>1. ASSUME NEW n \in Calculated
        PROVE  calcs[n].co2e \in Int /\ calcs[n].scope \in 1..3
    <3>1. n \in DOMAIN calcs /\ calcs[n].status = "CALCULATED"
      BY DEF Calculated
    <3>2. calcs[n].co2e \in Int /\ calcs[n].scope = records[n].scope /\ records[n].status # "FAILED"
      BY <1>1, <3>1, CalculationAgrees
    <3> QED
      BY <1>1, <3>1, <3>2, MadeAgrees
  <2> QED
    BY <2>1
<1>4. Total = TotalBy(1) + TotalBy(2) + TotalBy(3)
  <2> DEFINE Of(s) == {n \in Calculated : calcs[n].scope = s}
  <2>1. PICK A : A = Of(1)
    OBVIOUS
  <2>2. PICK B : B = Of(2)
    OBVIOUS
  <2>3. PICK C : C = Of(3)
    OBVIOUS
  <2>4. /\ A \in SUBSET Calculated /\ B \in SUBSET Calculated /\ C \in SUBSET Calculated
        /\ A \cup B \in SUBSET Calculated
        /\ A \cap B = {} /\ (A \cup B) \cap C = {}
        /\ (A \cup B) \cup C = Calculated
    BY <1>3, <2>1, <2>2, <2>3
  <2>5. TotalBy(1) = SumOf(A) /\ TotalBy(2) = SumOf(B) /\ TotalBy(3) = SumOf(C)
    BY <2>1, <2>2, <2>3 DEF TotalBy
  <2> HIDE DEF Of
  <2>6. SumOf(A \cup B) = SumOf(A) + SumOf(B)
    BY <1>2, <1>3, <2>4, SumOfUnion
  <2>7. SumOf((A \cup B) \cup C) = SumOf(A \cup B) + SumOf(C)
    BY <1>2, <1>3, <2>4, SumOfUnion
  <2>8. Total = SumOf(A) + SumOf(B) + SumOf(C)
    BY <2>4, <2>6, <2>7 DEF Total
  <2> QED
    BY <2>5, <2>8
<1>5. ASSUME Total # Series
      PROVE  \E n \in DOMAIN calcs : calcs[n].date = NoDate
  <2> SUFFICES ASSUME \A n \in DOMAIN calcs : calcs[n].date # NoDate
               PROVE  FALSE
    OBVIOUS
  <2>1. {n \in Calculated : calcs[n].date # NoDate} = Calculated
    BY DEF Calculated
  <2> QED
    BY <1>5, <2>1 DEF Total, Series
<1> QED
  BY <1>4, <1>5

\* Each row that is not blank is a record or an error.
LEMMA NoneLost ==
    ASSUME RowsInv, at \in Stored
    PROVE  Len(records) + errors = Cardinality({n \in DOMAIN file : file[n].read # "blank"})
<1>1. ReadInv /\ Left = {} /\ done \in Nat /\ DOMAIN file = 1..Len(file) /\ Len(file) \in Nat
  BY DEF RowsInv, StoredInv
<1>2. \A n \in DOMAIN file : file[n].read \in Reads
  BY RowsAssumption DEF RowsInv
<1>3. PICK P : P = Parsed(file)
  OBVIOUS
<1>4. PICK E : E = {n \in DOMAIN file : file[n].read = "error"}
  OBVIOUS
<1>5. IsFiniteSet(P) /\ IsFiniteSet(E)
  <2>1. IsFiniteSet(DOMAIN file) /\ P \in SUBSET DOMAIN file /\ E \in SUBSET DOMAIN file
    BY <1>1, <1>3, <1>4, FS_Interval DEF Parsed
  <2> QED
    BY <2>1, FS_Subset
<1>6. P \cap E = {} /\ P \cup E = {n \in DOMAIN file : file[n].read # "blank"}
  BY <1>1, <1>2, <1>3, <1>4 DEF Parsed, Reads, ReadInv
<1>7. Cardinality(P \cup E) = Cardinality(P) + Cardinality(E)
  <2>1. Cardinality(P \cap E) = 0
    BY <1>6, FS_EmptySet
  <2>2. Cardinality(P) \in Nat /\ Cardinality(E) \in Nat
    BY <1>5, FS_CardinalityType
  <2>3. Cardinality(P \cup E) = Cardinality(P) + Cardinality(E) - Cardinality(P \cap E)
    BY <1>5, FS_Union
  <2> QED
    BY <2>1, <2>2, <2>3
<1>8. Len(records) = Cardinality(P) /\ errors = Cardinality(E)
  <2>1. {n \in Parsed(file) : n <= done} = Parsed(file)
    BY <1>1 DEF Left, Parsed
  <2> QED
    BY <1>1, <1>3, <1>4, <2>1 DEF ReadInv
<1> QED
  BY <1>6, <1>7, <1>8

\* No row is lost or counted twice between file and dashboard: each is an error or a
\* record, validator, normalizer and calculation agree on it, and the sums by scope
\* add up to the total, for any file, mappings and factors.
THEOREM AccountedTheorem == Spec => []RowsAccountedFor
<1>1. ASSUME RowsInv
      PROVE  RowsAccountedFor
  <2>1. \A n \in DOMAIN records : records[n] \in Made
    BY <1>1 DEF RowsInv
  <2>2. \A n \in DOMAIN records :
           records[n].status = "FAILED" <=> IsFailed(source, file[records[n].row])
    BY <1>1, <2>1, MadeAgrees
  <2>3. at \in Stored =>
           Len(records) + errors = Cardinality({n \in DOMAIN file : file[n].read # "blank"})
    BY <1>1, NoneLost
  <2>4. ASSUME at = "calculated"
        PROVE  \A n \in DOMAIN calcs :
                  calcs[n].status = "EXCLUDED_FAILED" <=> records[n].value = NoQuantity
    <3>1. DOMAIN calcs = DOMAIN records /\ \A n \in DOMAIN calcs : calcs[n] = Calculation(records[n])
      BY <1>1, <2>4 DEF RowsInv
    <3>2. ASSUME NEW n \in DOMAIN calcs
          PROVE  calcs[n].status = "EXCLUDED_FAILED" <=> records[n].value = NoQuantity
      <4>1. records[n] \in Made /\ calcs[n] = Calculation(records[n])
        BY <2>1, <3>1
      <4>2. calcs[n].status = "EXCLUDED_FAILED" <=> records[n].status = "FAILED"
        BY <1>1, <4>1, CalculationAgrees
      <4>3. records[n].status = "FAILED" <=> records[n].value = NoQuantity
        BY <1>1, <4>1, MadeAgrees
      <4> QED
        BY <4>2, <4>3
    <3> QED
      BY <3>2
  <2>5. at = "calculated" => /\ Total = TotalBy(1) + TotalBy(2) + TotalBy(3)
                             /\ Total # Series => \E n \in DOMAIN calcs : calcs[n].date = NoDate
    BY <1>1, TotalsAgree
  <2> QED
    BY <2>2, <2>3, <2>4, <2>5 DEF RowsAccountedFor, Stored
<1> QED
  BY RowsCorrect, <1>1, PTL

=============================================================================
