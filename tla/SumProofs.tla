----------------------------- MODULE SumProofs -----------------------------
(***************************************************************************)
(* Facts the proofs of several components rest on: induction over numbers, *)
(* what a recursion over 0 .. n and SumFunction of module Functions have   *)
(* for a value.                                                            *)
(***************************************************************************)
EXTENDS Integers, Functions, FiniteSetTheorems, WellFoundedInduction, TLAPS

(* A set of numbers that is not empty has a least one: how the inductions of
   this project are made. *)
LEMMA LeastNumber ==
    ASSUME NEW T, T \subseteq Nat, T # {}
    PROVE  \E x \in T : \A y \in T : ~(y < x)
  <1> DEFINE Less == OpToRel(<, Nat)
  <1>1. IsWellFoundedOn(Less, Nat)
    BY NatLessThanWellFounded, Zenon
  <1>2. \A x, y \in Nat : x < y => <<x, y>> \in Less
    BY DEF OpToRel
  <1> HIDE DEF Less
  <1>3. \E x \in T : \A y \in T : ~(<<y, x>> \in Less)
    BY <1>1, WFMin
  <1> QED
    BY <1>2, <1>3

(* What SumFunction computes: the sums of a function over all of the subsets
   of its domain, each from that of a set with one element less. *)
AnyOf(s) == CHOOSE x \in s : TRUE

Extended(f, sum) ==
    [s \in SUBSET DOMAIN f |->
        IF s = {} THEN 0 ELSE f[AnyOf(s)] + sum[s \ {AnyOf(s)}]]

SubsetSums(f) == CHOOSE sum : sum = Extended(f, sum)

LEMMA SumIs ==
    ASSUME NEW f
    PROVE  SumFunction(f) = SubsetSums(f)[DOMAIN f]
  BY DEF SumFunction, SumFunctionOnSet, FoldFunctionOnSet, MapThenFoldSet,
         SubsetSums, Extended, AnyOf

LEMMA AnyOfIs ==
    ASSUME NEW s, s # {}
    PROVE  AnyOf(s) \in s
  BY DEF AnyOf

(* A finite set is smaller without one of its elements. *)
LEMMA Smaller ==
    ASSUME NEW s, IsFiniteSet(s), NEW x \in s
    PROVE  /\ IsFiniteSet(s \ {x})
           /\ Cardinality(s) \in Nat /\ Cardinality(s) # 0
           /\ Cardinality(s \ {x}) = Cardinality(s) - 1
  BY FS_RemoveElement, FS_CardinalityType, FS_EmptySet

(* The recursion of SumFunction has a solution. *)
LEMMA SumsExist ==
    ASSUME NEW S, IsFiniteSet(S), NEW f \in [S -> Int]
    PROVE  /\ \A s \in SUBSET S : SubsetSums(f)[s] \in Int
           /\ SubsetSums(f) = Extended(f, SubsetSums(f))
  <1> DEFINE Sums == [SUBSET S -> Int]
             Upto(n) == \E sum \in Sums : \A s \in SUBSET S :
                           Cardinality(s) <= n => sum[s] = Extended(f, sum)[s]
             Missing == {n \in Nat : ~Upto(n)}
  <1>1. \A s \in SUBSET S : IsFiniteSet(s) /\ Cardinality(s) \in Nat
    BY FS_Subset, FS_CardinalityType
  <1>2. ASSUME NEW sum \in Sums
        PROVE  Extended(f, sum) \in Sums
    BY AnyOfIs DEF Extended
  <1>3. ASSUME NEW n \in Nat, n # 0 => Upto(n - 1)
        PROVE  Upto(n)
    <2>1. PICK sum \in Sums : n # 0 => \A s \in SUBSET S :
             Cardinality(s) <= n - 1 => sum[s] = Extended(f, sum)[s]
      <3>1. [s \in SUBSET S |-> 0] \in Sums
        OBVIOUS
      <3> QED
        BY <1>3, <3>1
    <2> DEFINE next == Extended(f, sum)
    <2>2. next \in Sums
      BY <1>2
    <2>3. ASSUME NEW s \in SUBSET S, Cardinality(s) <= n
          PROVE  next[s] = Extended(f, next)[s]
      <3>1. CASE s = {}
        BY <3>1 DEF Extended
      <3>2. CASE s # {}
        <4> DEFINE x == AnyOf(s)
                   less == s \ {x}
        <4>1. x \in s /\ less \in SUBSET S
          BY <3>2, AnyOfIs
        <4>2. n # 0 /\ Cardinality(less) <= n - 1
          BY <1>1, <2>3, <4>1, Smaller
        <4>3. sum[less] = next[less]
          BY <2>1, <4>1, <4>2
        <4>4. next[s] = f[x] + sum[less]
          BY <3>2 DEF Extended
        <4>5. Extended(f, next)[s] = f[x] + next[less]
          BY <3>2 DEF Extended
        <4> QED
          BY <4>3, <4>4, <4>5
      <3> QED
        BY <3>1, <3>2
    <2> HIDE DEF next, Sums
    <2> QED
      BY <2>2, <2>3
  <1>4. Missing = {}
    <2> HIDE DEF Upto
    <2> SUFFICES ASSUME Missing # {} PROVE FALSE
      OBVIOUS
    <2>1. PICK n \in Missing : \A k \in Missing : ~(k < n)
      BY LeastNumber, Missing \subseteq Nat
    <2>2. n # 0 => n - 1 \in Nat /\ n - 1 \notin Missing
      BY <2>1
    <2> QED
      BY <1>3, <2>1, <2>2
  <1>5. Upto(Cardinality(S))
    <2> HIDE DEF Upto
    <2>1. Cardinality(S) \in Nat
      BY FS_CardinalityType
    <2> QED
      BY <1>4, <2>1
  <1>6. \A s \in SUBSET S : Cardinality(s) <= Cardinality(S)
    BY FS_Subset
  <1>7. PICK sum \in Sums :
           \A s \in SUBSET S : sum[s] = Extended(f, sum)[s]
    BY <1>5, <1>6
  <1>8. sum = Extended(f, sum)
    <2>1. sum = [s \in SUBSET S |-> sum[s]]
      BY Zenon
    <2>2. Extended(f, sum) = [s \in SUBSET S |-> Extended(f, sum)[s]]
      BY <1>2, Zenon
    <2>3. [s \in SUBSET S |-> sum[s]] = [s \in SUBSET S |-> Extended(f, sum)[s]]
      BY <1>7, Zenon
    <2> QED
      BY <2>1, <2>2, <2>3, Zenon
  <1>9. SubsetSums(f) = Extended(f, SubsetSums(f))
    BY <1>8 DEF SubsetSums
  <1> DEFINE all == SubsetSums(f)
             Wrong == {n \in Nat : \E s \in SUBSET S :
                          Cardinality(s) = n /\ all[s] \notin Int}
  <1>10. Wrong = {}
    <2> SUFFICES ASSUME Wrong # {} PROVE FALSE
      OBVIOUS
    <2>1. PICK n \in Wrong : \A k \in Wrong : ~(k < n)
      BY LeastNumber, Wrong \subseteq Nat
    <2>2. PICK s \in SUBSET S : Cardinality(s) = n /\ all[s] \notin Int
      BY <2>1
    <2>3. all[s] = IF s = {} THEN 0 ELSE f[AnyOf(s)] + all[s \ {AnyOf(s)}]
      BY <1>9 DEF Extended
    <2>4. s # {}
      BY <2>2, <2>3
    <2>5. /\ AnyOf(s) \in s
          /\ Cardinality(s \ {AnyOf(s)}) = n - 1 /\ n \in Nat /\ n # 0
      BY <1>1, <2>2, <2>4, AnyOfIs, Smaller
    <2>6. n - 1 \notin Wrong /\ n - 1 \in Nat /\ s \ {AnyOf(s)} \in SUBSET S
      BY <2>1, <2>5
    <2>7. all[s \ {AnyOf(s)}] \in Int
      BY <2>5, <2>6
    <2> QED
      BY <2>2, <2>3, <2>4, <2>5, <2>7
  <1>11. \A s \in SUBSET S : all[s] \in Int
    BY <1>1, <1>10
  <1> QED
    BY <1>9, <1>11

(* One step of the recursion. *)
LEMMA SumsStep ==
    ASSUME NEW S, IsFiniteSet(S), NEW f \in [S -> Int]
    PROVE  /\ SubsetSums(f)[{}] = 0
           /\ \A s \in SUBSET S : s # {} =>
                /\ AnyOf(s) \in s
                /\ SubsetSums(f)[s]
                     = f[AnyOf(s)] + SubsetSums(f)[s \ {AnyOf(s)}]
  <1> DEFINE all == SubsetSums(f)
  <1>1. all = Extended(f, all)
    BY SumsExist
  <1> HIDE DEF all
  <1>2. \A s \in SUBSET S : all[s] =
           IF s = {} THEN 0 ELSE f[AnyOf(s)] + all[s \ {AnyOf(s)}]
    BY <1>1 DEF Extended
  <1> QED
    BY <1>2, AnyOfIs DEF all

(* The order in which the elements are taken does not matter. *)
LEMMA SumWithout ==
    ASSUME NEW S, IsFiniteSet(S), NEW f \in [S -> Int],
           NEW T \in SUBSET S, NEW z \in T, NEW R, R = T \ {z}
    PROVE  SubsetSums(f)[T] = f[z] + SubsetSums(f)[R]
  <1> DEFINE all == SubsetSums(f)
             Splits(s) == \A y \in s : all[s] = f[y] + all[s \ {y}]
             Wrong == {n \in Nat : \E s \in SUBSET S :
                          Cardinality(s) = n /\ ~Splits(s)}
  <1>1. \A s \in SUBSET S : IsFiniteSet(s) /\ Cardinality(s) \in Nat
    BY FS_Subset, FS_CardinalityType
  <1>2. \A s \in SUBSET S : all[s] \in Int
    BY SumsExist
  <1>3. \A s \in SUBSET S : s # {} =>
            AnyOf(s) \in s /\ all[s] = f[AnyOf(s)] + all[s \ {AnyOf(s)}]
    BY SumsStep
  <1> HIDE DEF all
  <1>4. Wrong = {}
    <2> SUFFICES ASSUME Wrong # {} PROVE FALSE
      OBVIOUS
    <2>1. PICK n \in Wrong : \A k \in Wrong : ~(k < n)
      BY LeastNumber, Wrong \subseteq Nat
    <2>2. PICK s \in SUBSET S : Cardinality(s) = n /\ ~Splits(s)
      BY <2>1
    <2>3. PICK y \in s : all[s] # f[y] + all[s \ {y}]
      BY <2>2
    <2> DEFINE x == AnyOf(s)
    <2>4. x \in s /\ x # y /\ all[s] = f[x] + all[s \ {x}]
      BY <1>3, <2>3
    <2>5. /\ Cardinality(s \ {x}) = n - 1 /\ Cardinality(s \ {y}) = n - 1
          /\ n - 1 \in Nat /\ n - 1 < n
      <3> HIDE DEF x, Wrong, Splits
      <3>1. /\ Cardinality(s) \in Nat /\ Cardinality(s) # 0
            /\ Cardinality(s \ {x}) = Cardinality(s) - 1
            /\ Cardinality(s \ {y}) = Cardinality(s) - 1
        BY <1>1, <2>3, <2>4, Smaller
      <3> QED
        BY <2>2, <3>1
    <2>6. n - 1 \notin Wrong
      BY <2>1, <2>5
    <2>7. s \ {x} \in SUBSET S /\ s \ {y} \in SUBSET S
      OBVIOUS
    <2>8. Splits(s \ {x}) /\ Splits(s \ {y})
      BY <2>5, <2>6, <2>7
    <2>9. /\ all[s \ {x}] = f[y] + all[(s \ {x}) \ {y}]
          /\ all[s \ {y}] = f[x] + all[(s \ {y}) \ {x}]
      BY <2>3, <2>4, <2>8
    <2>10. (s \ {x}) \ {y} = (s \ {y}) \ {x}
      OBVIOUS
    <2>11. /\ f[x] \in Int /\ f[y] \in Int
           /\ all[(s \ {y}) \ {x}] \in Int
      BY <1>2, <2>3, <2>4
    <2>12. all[s \ {x}] = f[y] + all[(s \ {y}) \ {x}]
      BY <2>9, <2>10
    <2> HIDE DEF x
    <2> QED
      BY <2>3, <2>4, <2>9, <2>11, <2>12
  <1>5. SubsetSums(f)[T] = f[z] + SubsetSums(f)[T \ {z}]
    BY <1>1, <1>4 DEF all
  <1> QED
    BY <1>5

(* The sum over a set does not depend on what the function is elsewhere. *)
LEMMA SumsAgree ==
    ASSUME NEW S, IsFiniteSet(S), NEW f \in [S -> Int],
           NEW R \in SUBSET S, NEW g \in [R -> Int],
           \A x \in R : g[x] = f[x]
    PROVE  SubsetSums(f)[R] = SubsetSums(g)[R]
  <1> DEFINE all == SubsetSums(f)
             part == SubsetSums(g)
             Wrong == {n \in Nat : \E s \in SUBSET R :
                          Cardinality(s) = n /\ all[s] # part[s]}
  <1>1. /\ IsFiniteSet(R)
        /\ \A s \in SUBSET R : IsFiniteSet(s) /\ Cardinality(s) \in Nat
    BY FS_Subset, FS_CardinalityType
  <1>2. /\ all[{}] = 0
        /\ \A s \in SUBSET S : s # {} =>
             AnyOf(s) \in s /\ all[s] = f[AnyOf(s)] + all[s \ {AnyOf(s)}]
    BY SumsStep
  <1>3. /\ part[{}] = 0
        /\ \A s \in SUBSET R : s # {} =>
             AnyOf(s) \in s /\ part[s] = g[AnyOf(s)] + part[s \ {AnyOf(s)}]
    BY <1>1, SumsStep
  <1> HIDE DEF all, part
  <1>4. Wrong = {}
    <2> SUFFICES ASSUME Wrong # {} PROVE FALSE
      OBVIOUS
    <2>1. PICK n \in Wrong : \A k \in Wrong : ~(k < n)
      BY LeastNumber, Wrong \subseteq Nat
    <2>2. PICK s \in SUBSET R : Cardinality(s) = n /\ all[s] # part[s]
      BY <2>1
    <2> DEFINE x == AnyOf(s)
    <2>3. s # {}
      BY <1>2, <1>3, <2>2
    <2>4. /\ x \in s
          /\ all[s] = f[x] + all[s \ {x}]
          /\ part[s] = g[x] + part[s \ {x}]
      BY <1>2, <1>3, <2>3
    <2>5. Cardinality(s \ {x}) = n - 1 /\ n - 1 \in Nat /\ n - 1 < n
      <3> HIDE DEF x, Wrong
      <3>1. /\ Cardinality(s) \in Nat /\ Cardinality(s) # 0
            /\ Cardinality(s \ {x}) = Cardinality(s) - 1
        BY <1>1, <2>4, Smaller
      <3> QED
        BY <2>2, <3>1
    <2>6. n - 1 \notin Wrong /\ s \ {x} \in SUBSET R
      BY <2>1, <2>5
    <2>7. all[s \ {x}] = part[s \ {x}] /\ f[x] = g[x]
      BY <2>4, <2>5, <2>6
    <2> QED
      BY <2>2, <2>4, <2>7
  <1> QED
    BY <1>1, <1>4 DEF all, part

(* What the ledger adds up: a function that is extended at one point. *)
LEMMA SumOfInts ==
    ASSUME NEW S, IsFiniteSet(S), NEW f \in [S -> Int]
    PROVE  SumFunction(f) \in Int
  <1>1. SubsetSums(f)[S] \in Int
    BY SumsExist
  <1> QED
    BY <1>1, SumIs

LEMMA SumOfNothing ==
    ASSUME NEW f \in [{} -> Int]
    PROVE  SumFunction(f) = 0
  BY SumIs, SumsStep, FS_EmptySet

LEMMA SumWithOneMore ==
    ASSUME NEW S, IsFiniteSet(S), NEW z, z \notin S,
           NEW f \in [S \union {z} -> Int], NEW g \in [S -> Int],
           \A x \in S : g[x] = f[x]
    PROVE  SumFunction(f) = f[z] + SumFunction(g)
  <1> DEFINE T == S \union {z}
  <1>1. IsFiniteSet(T) /\ S = T \ {z}
    BY FS_AddElement
  <1>2. SubsetSums(f)[T] = f[z] + SubsetSums(f)[S]
    BY <1>1, SumWithout
  <1>3. SubsetSums(f)[S] = SubsetSums(g)[S]
    BY <1>1, SumsAgree
  <1> QED
    BY <1>2, <1>3, SumIs
-----------------------------------------------------------------------------
(* A recursion over 0 .. n has a solution, whatever its step makes of the
   index and of the value before. *)
LEMMA RecursionHolds ==
    ASSUME NEW n \in Nat, NEW base \in Int, NEW step \in [1 .. n -> [Int -> Int]]
    PROVE  \E g \in [0 .. n -> Int] :
              g[0] = base /\ \A i \in 1 .. n : g[i] = step[i][g[i - 1]]
  <1> DEFINE Solves(g, m) ==
               g[0] = base /\ \A i \in 1 .. m : g[i] = step[i][g[i - 1]]
             Upto(m) == \E g \in [0 .. n -> Int] : Solves(g, m)
             Missing == {m \in 0 .. n : ~Upto(m)}
  <1>1. Upto(0)
    <2>1. [i \in 0 .. n |-> base] \in [0 .. n -> Int]
      OBVIOUS
    <2>2. Solves([i \in 0 .. n |-> base], 0)
      OBVIOUS
    <2> QED
      BY <2>1, <2>2
  <1>2. ASSUME NEW m \in 1 .. n, Upto(m - 1)
        PROVE  Upto(m)
    <2>1. PICK g \in [0 .. n -> Int] : Solves(g, m - 1)
      BY <1>2
    <2> DEFINE h == [g EXCEPT ![m] = step[m][g[m - 1]]]
    <2>2. step[m] \in [Int -> Int] /\ m - 1 \in 0 .. n /\ m \in 0 .. n
      OBVIOUS
    <2>3. h \in [0 .. n -> Int] /\ h[m] = step[m][g[m - 1]]
      BY <2>2
    <2>4. \A i \in 0 .. m - 1 : h[i] = g[i]
      OBVIOUS
    <2> HIDE DEF h
    <2>5. ASSUME NEW i \in 1 .. m
          PROVE  h[i] = step[i][h[i - 1]]
      <3>1. h[i - 1] = g[i - 1]
        BY <2>4
      <3>2. CASE i = m
        BY <2>3, <3>1, <3>2
      <3>3. CASE i # m
        <4>1. i \in 1 .. m - 1 /\ i \in 0 .. m - 1
          BY <3>3
        <4> QED
          BY <2>1, <2>4, <3>1, <4>1
      <3> QED
        BY <3>2, <3>3
    <2>6. h[0] = base
      <3>1. 0 \in 0 .. m - 1
        OBVIOUS
      <3> QED
        BY <2>1, <2>4, <3>1
    <2> QED
      BY <2>3, <2>5, <2>6
  <1>3. Missing = {}
    <2> HIDE DEF Upto
    <2> SUFFICES ASSUME Missing # {} PROVE FALSE
      OBVIOUS
    <2>1. PICK m \in Missing : \A k \in Missing : ~(k < m)
      BY LeastNumber, Missing \subseteq Nat
    <2>2. m \in 1 .. n /\ m - 1 \in 0 .. n /\ m - 1 \notin Missing
      BY <1>1, <2>1
    <2> QED
      BY <1>2, <2>1, <2>2
  <1>4. Upto(n)
    <2> HIDE DEF Upto
    <2>1. n \in 0 .. n
      OBVIOUS
    <2> QED
      BY <1>3, <2>1
  <1> QED
    BY <1>4

(* SumWithout, with its hypotheses as one fact. *)
WithoutOne(S, f, T, z, R) ==
    /\ IsFiniteSet(S) /\ f \in [S -> Int]
    /\ T \in SUBSET S /\ z \in T /\ R = T \ {z}

LEMMA SumOfAllButOne ==
    ASSUME NEW S, NEW f, NEW T, NEW z, NEW R, WithoutOne(S, f, T, z, R)
    PROVE  SubsetSums(f)[T] = f[z] + SubsetSums(f)[R]
  <1>1. /\ IsFiniteSet(S) /\ f \in [S -> Int]
        /\ T \in SUBSET S /\ z \in T /\ R = T \ {z}
    BY DEF WithoutOne
  <1> QED
    BY <1>1, SumWithout

LEMMA SumUpto ==
    ASSUME NEW n \in Nat, NEW f \in [1 .. n -> Int], NEW i \in 1 .. n
    PROVE  SubsetSums(f)[1 .. i] = f[i] + SubsetSums(f)[1 .. i - 1]
  <1>1. IsFiniteSet(1 .. n)
    BY FS_Interval
  <1>2. 1 .. i \in SUBSET (1 .. n) /\ i \in 1 .. i
    OBVIOUS
  <1>3. 1 .. i - 1 = (1 .. i) \ {i}
    OBVIOUS
  <1>4. WithoutOne(1 .. n, f, 1 .. i, i, 1 .. i - 1)
    BY <1>1, <1>2, <1>3 DEF WithoutOne
  <1> QED
    BY <1>4, SumOfAllButOne

(* The same, with its hypotheses and its conclusion as one fact each. *)
Steps(n, base, step) ==
    n \in Nat /\ base \in Int /\ step \in [1 .. n -> [Int -> Int]]

Solution(n, base, step, g) ==
    /\ g \in [0 .. n -> Int] /\ g[0] = base
    /\ \A i \in 1 .. n : g[i] = step[i][g[i - 1]]

LEMMA SolutionExists ==
    ASSUME NEW n, NEW base, NEW step, Steps(n, base, step)
    PROVE  \E g : Solution(n, base, step, g)
  <1>1. n \in Nat /\ base \in Int /\ step \in [1 .. n -> [Int -> Int]]
    BY DEF Steps
  <1>2. PICK g \in [0 .. n -> Int] :
           g[0] = base /\ \A i \in 1 .. n : g[i] = step[i][g[i - 1]]
    BY <1>1, RecursionHolds
  <1>3. Solution(n, base, step, g)
    BY <1>2 DEF Solution
  <1> QED
    BY <1>3

(* One summand can be added after another, and that gives the sum. *)
LEMMA SumRuns ==
    ASSUME NEW n \in Nat, NEW f \in [1 .. n -> Int]
    PROVE  \E g \in [0 .. n -> Int] :
              g[0] = 0 /\ \A i \in 1 .. n : g[i] = g[i - 1] + f[i]
  <1> DEFINE step == [i \in 1 .. n |-> [x \in Int |-> x + f[i]]]
  <1>1. step \in [1 .. n -> [Int -> Int]]
    OBVIOUS
  <1>2. \A i \in 1 .. n, x \in Int : step[i][x] = x + f[i]
    OBVIOUS
  <1> HIDE DEF step
  <1>3. PICK g \in [0 .. n -> Int] :
           g[0] = 0 /\ \A i \in 1 .. n : g[i] = step[i][g[i - 1]]
    <2>1. Steps(n, 0, step)
      BY <1>1 DEF Steps
    <2>2. PICK g : Solution(n, 0, step, g)
      BY <2>1, SolutionExists
    <2> QED
      BY <2>2 DEF Solution
  <1>4. \A i \in 1 .. n : g[i - 1] \in Int
    <2>1. \A i \in 1 .. n : i - 1 \in 0 .. n
      OBVIOUS
    <2> QED
      BY <2>1
  <1>5. ASSUME NEW i \in 1 .. n
        PROVE  g[i] = g[i - 1] + f[i]
    <2>1. g[i] = step[i][g[i - 1]] /\ g[i - 1] \in Int
      BY <1>3, <1>4
    <2> QED
      BY <1>2, <2>1
  <1> QED
    BY <1>3, <1>5

LEMMA RunningSum ==
    ASSUME NEW n \in Nat, NEW f \in [1 .. n -> Int], NEW g,
           g[0] = 0, \A i \in 1 .. n : g[i] = g[i - 1] + f[i]
    PROVE  g[n] = SumFunction(f)
  <1> DEFINE sums == SubsetSums(f)
             Wrong == {m \in 0 .. n : g[m] # sums[1 .. m]}
  <1>1. IsFiniteSet(1 .. n)
    BY FS_Interval
  <1>2. \A i \in 1 .. n : sums[1 .. i] = f[i] + sums[1 .. i - 1]
    BY SumUpto
  <1>3. sums[1 .. 0] = 0
    BY <1>1, SumsStep, 1 .. 0 = {}
  <1>4. \A i \in 1 .. n : sums[1 .. i - 1] \in Int /\ f[i] \in Int
    <2> SUFFICES ASSUME NEW i \in 1 .. n PROVE sums[1 .. i - 1] \in Int
      OBVIOUS
    <2>1. 1 .. i - 1 \in SUBSET (1 .. n)
      OBVIOUS
    <2> QED
      BY <1>1, <2>1, SumsExist
  <1> HIDE DEF sums
  <1>5. Wrong = {}
    <2> SUFFICES ASSUME Wrong # {} PROVE FALSE
      OBVIOUS
    <2>1. PICK m \in Wrong : \A k \in Wrong : ~(k < m)
      BY LeastNumber, Wrong \subseteq Nat
    <2>2. m \in 1 .. n /\ m - 1 \in 0 .. n /\ m - 1 \notin Wrong
      BY <1>3, <2>1
    <2>3. g[m - 1] = sums[1 .. m - 1]
      BY <2>2
    <2> QED
      BY <1>2, <1>4, <2>1, <2>2, <2>3
  <1>6. g[n] = sums[1 .. n]
    BY <1>5
  <1> QED
    BY <1>6, SumIs DEF sums
=============================================================================
