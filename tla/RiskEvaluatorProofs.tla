------------------------- MODULE RiskEvaluatorProofs ------------------------
(***************************************************************************)
(* Lemmas about the operators that the models are built from, for every    *)
(* policy and every event.                                                 *)
(*                                                                         *)
(* Sums: SumFunctionOnSet of module Functions is 0 for no element and any  *)
(* one element plus the rest for others.  It is a fold, defined by a       *)
(* recursive function on the subsets that takes the elements out in an     *)
(* order nobody knows.  That the function exists and what it is are facts  *)
(* by induction; an induction is stated here over the set of the arguments *)
(* for which a fact holds.                                                 *)
(*                                                                         *)
(* The evaluator: an int keeps a sum modulo its width, the loop over the   *)
(* rules collects each that matches once and in order, and the points of   *)
(* the matches add up.                                                     *)
(***************************************************************************)
EXTENDS RiskEvaluator, FiniteSets, FiniteSetTheorems, WellFoundedInduction,
        SequenceTheorems, FunctionTheorems, TLAPS

(* Every set of naturals has a least element.                              *)
LEMMA LeastNatural ==
  ASSUME NEW T \in SUBSET Nat, T # {}
  PROVE  \E m \in T : \A n \in T : m <= n
<1> DEFINE upTo == {0..n : n \in T}
<1>1. \A n \in Nat : IsFiniteSet(0..n)
  BY FS_Interval
<1>2. upTo \subseteq FiniteSubsetsOf(Nat) /\ upTo # {}
  <2>1. \A n \in Nat : 0..n \in FiniteSubsetsOf(Nat)
    BY <1>1 DEF FiniteSubsetsOf
  <2> QED BY <2>1
<1>3. PICK I \in upTo : \A J \in upTo : ~(<<J, I>> \in StrictSubsetOrdering(Nat))
  <2> HIDE DEF upTo
  <2> QED BY <1>2, FS_StrictSubsetOrderingWellFounded, WFMin
<1>4. PICK m \in T : I = 0..m
  OBVIOUS
<1>5. ASSUME NEW n \in T, n < m PROVE FALSE
  <2>1. 0..n \in upTo /\ 0..n \in SUBSET Nat /\ 0..m \in SUBSET Nat
    OBVIOUS
  <2>2. 0..n \subseteq 0..m /\ m \in 0..m /\ m \notin 0..n
    BY <1>5
  <2> HIDE DEF upTo
  <2> QED BY <1>3, <1>4, <2>1, <2>2 DEF StrictSubsetOrdering
<1> QED BY <1>5

(* Induction over the naturals and over the finite sets: a set of them     *)
(* that has the first one and with all smaller ones the next has all.      *)
LEMMA Induction ==
  ASSUME NEW P \in SUBSET Nat, 0 \in P, \A n \in P : n + 1 \in P
  PROVE  P = Nat
<1> SUFFICES ASSUME Nat \ P # {} PROVE FALSE
  OBVIOUS
<1>1. PICK m \in Nat \ P : \A n \in Nat \ P : m <= n
  BY LeastNatural
<1>2. m # 0 /\ m - 1 \in Nat
  BY <1>1
<1>3. m - 1 \in P
  BY <1>1, <1>2
<1> QED BY <1>1, <1>2, <1>3

LEMMA FiniteInduction ==
  ASSUME NEW S, IsFiniteSet(S), NEW P \in SUBSET SUBSET S, {} \in P,
         \A T \in SUBSET S : T # {} /\ (\A x \in T : T \ {x} \in P) => T \in P
  PROVE  P = SUBSET S
<1> DEFINE Good == {n \in Nat : \A T \in SUBSET S : Cardinality(T) = n => T \in P}
<1>1. \A T \in SUBSET S : IsFiniteSet(T) /\ Cardinality(T) \in Nat
  BY FS_Subset, FS_CardinalityType
<1>2. 0 \in Good
  BY <1>1, FS_EmptySet
<1>3. ASSUME NEW n \in Good PROVE n + 1 \in Good
  <2> SUFFICES ASSUME NEW T \in SUBSET S, Cardinality(T) = n + 1 PROVE T \in P
    OBVIOUS
  <2>a. n \in Nat
    OBVIOUS
  <2>b. \A U \in SUBSET S : Cardinality(U) = n => U \in P
    OBVIOUS
  <2> HIDE DEF Good
  <2>c. Cardinality({}) = 0
    BY FS_EmptySet
  <2>0. n \in Nat /\ T # {}
    <3>1. Cardinality(T) # 0
      BY <2>a
    <3> QED BY <2>a, <2>c, <3>1
  <2>2. ASSUME NEW x \in T PROVE Cardinality(T \ {x}) = n
    <3>1. IsFiniteSet(T)
      BY <1>1
    <3>2. Cardinality(T \ {x}) = Cardinality(T) - 1
      BY <3>1, FS_RemoveElement
    <3> QED BY <2>0, <3>2
  <2>3. \A x \in T : T \ {x} \in P
    BY <2>2, <2>b
  <2> QED BY <2>0, <2>3
<1>4. Good = Nat
  <2> HIDE DEF Good
  <2>1. Good \in SUBSET Nat
    BY DEF Good
  <2> QED BY <1>2, <1>3, <2>1, Induction
<1> QED BY <1>1, <1>4
-----------------------------------------------------------------------------
(* The equation that the recursive function of the fold has to solve.      *)
Step(f, h, s) ==
  IF s = {} THEN 0 ELSE LET x == CHOOSE x \in s : TRUE IN f[x] + h[s \ {x}]

Solves(h, f, S) == h = [s \in SUBSET S |-> Step(f, h, s)]

(* It has a solution: one for the sets of up to n + 1 elements comes from  *)
(* one for the sets of up to n.                                            *)
LEMMA SolutionExists ==
  ASSUME NEW S, IsFiniteSet(S), NEW f
  PROVE  \E h : Solves(h, f, S)
<1> DEFINE Level(n) == {s \in SUBSET S : Cardinality(s) <= n}
           P == {n \in Nat : \E h : h = [s \in Level(n) |-> Step(f, h, s)]}
<1>1. \A s \in SUBSET S : IsFiniteSet(s) /\ Cardinality(s) \in Nat
  BY FS_Subset, FS_CardinalityType
<1>2. 0 \in P
  <2>1. \A s \in Level(0) : s = {}
    BY <1>1, FS_EmptySet
  <2> DEFINE h == [s \in Level(0) |-> 0]
  <2>2. h = [s \in Level(0) |-> Step(f, h, s)]
    BY <2>1 DEF Step
  <2> QED BY <2>2
<1>3. ASSUME NEW n \in P PROVE n + 1 \in P
  <2>1. n \in Nat
    OBVIOUS
  <2>2. PICK h : h = [s \in Level(n) |-> Step(f, h, s)]
    OBVIOUS
  <2> DEFINE g == [s \in Level(n + 1) |-> Step(f, h, s)]
  <2>3. \A s \in Level(n) : s \in Level(n + 1) /\ g[s] = h[s]
    BY <1>1, <2>1, <2>2
  <2>4. \A s \in Level(n + 1) : \A x \in s : s \ {x} \in Level(n)
    <3> SUFFICES ASSUME NEW s \in Level(n + 1), NEW x \in s PROVE s \ {x} \in Level(n)
      OBVIOUS
    <3>1. IsFiniteSet(s) /\ s \in SUBSET S /\ Cardinality(s) <= n + 1 /\ Cardinality(s) \in Nat
      BY <1>1
    <3>2. Cardinality(s \ {x}) = Cardinality(s) - 1
      BY <3>1, FS_RemoveElement
    <3> QED BY <2>1, <3>1, <3>2
  <2> HIDE DEF Level
  <2>5. \A s \in Level(n + 1) : Step(f, h, s) = Step(f, g, s)
    <3> SUFFICES ASSUME NEW s \in Level(n + 1), s # {} PROVE Step(f, h, s) = Step(f, g, s)
      BY DEF Step
    <3> DEFINE x == CHOOSE x \in s : TRUE
    <3>1. x \in s
      OBVIOUS
    <3> HIDE DEF x
    <3>2. g[s \ {x}] = h[s \ {x}]
      BY <2>3, <2>4, <3>1
    <3> HIDE DEF g
    <3> QED BY <3>2 DEF Step, x
  <2>6. g = [s \in Level(n + 1) |-> Step(f, g, s)]
    BY <2>5
  <2> HIDE DEF g
  <2> QED BY <2>1, <2>6
<1>4. P = Nat
  <2> HIDE DEF P
  <2>1. P \in SUBSET Nat
    BY DEF P
  <2> QED BY <1>2, <1>3, <2>1, Induction
<1>5. Cardinality(S) \in Nat /\ Level(Cardinality(S)) = SUBSET S
  BY <1>1, FS_Subset, FS_CardinalityType
<1>6. Cardinality(S) \in P
  BY <1>4, <1>5
<1> HIDE DEF Level
<1>7. \E h : h = [s \in Level(Cardinality(S)) |-> Step(f, h, s)]
  BY <1>6
<1> QED BY <1>5, <1>7 DEF Solves

(* The sum is what the solution says.                                      *)
LEMMA SumIsSolution ==
  ASSUME NEW S, IsFiniteSet(S), NEW f
  PROVE  \E h : Solves(h, f, S) /\ SumFunctionOnSet(f, S) = h[S]
<1> USE DEF Solves
<1>1. PICK g : g = [s \in SUBSET S |-> Step(f, g, s)]
  BY SolutionExists
<1> QED BY <1>1 DEF SumFunctionOnSet, FoldFunctionOnSet, MapThenFoldSet, Step

(* The solutions for a set and for a subset agree on the subset.           *)
LEMMA SolutionsAgree ==
  ASSUME NEW S, IsFiniteSet(S), NEW T \in SUBSET S, NEW f, NEW g, NEW h,
         Solves(g, f, S), Solves(h, f, T)
  PROVE  g[T] = h[T]
<1> USE DEF Solves
<1> DEFINE P == {s \in SUBSET T : g[s] = h[s]}
<1>1. IsFiniteSet(T)
  BY FS_Subset
<1>2. {} \in P
  <2>1. g[{}] = Step(f, g, {}) /\ h[{}] = Step(f, h, {})
    OBVIOUS
  <2> QED BY <2>1 DEF Step
<1>3. ASSUME NEW s \in SUBSET T, s # {}, \A x \in s : s \ {x} \in P
      PROVE  s \in P
  <2>1. g[s] = Step(f, g, s) /\ h[s] = Step(f, h, s)
    OBVIOUS
  <2>2. \A x \in s : g[s \ {x}] = h[s \ {x}]
    BY <1>3
  <2>3. (CHOOSE x \in s : TRUE) \in s
    BY <1>3
  <2>4. Step(f, g, s) = Step(f, h, s)
    BY <2>2, <2>3 DEF Step
  <2> QED BY <2>1, <2>4
<1>4. P = SUBSET T
  <2> HIDE DEF P
  <2>1. P \in SUBSET SUBSET T
    BY DEF P
  <2> QED BY <1>1, <1>2, <1>3, <2>1, FiniteInduction
<1> QED BY <1>4

(* The sum of nothing, and of something: one element, which the fold       *)
(* chooses, and the rest.                                                  *)
LEMMA SumEmpty ==
  ASSUME NEW f
  PROVE  SumFunctionOnSet(f, {}) = 0
<1>1. PICK h : Solves(h, f, {}) /\ SumFunctionOnSet(f, {}) = h[{}]
  BY SumIsSolution, FS_EmptySet
<1> QED BY <1>1 DEF Solves, Step

LEMMA SumUnfolds ==
  ASSUME NEW S, IsFiniteSet(S), S # {}, NEW f
  PROVE  \E x \in S : SumFunctionOnSet(f, S) = f[x] + SumFunctionOnSet(f, S \ {x})
<1>1. PICK x \in S : x = CHOOSE y \in S : TRUE
  OBVIOUS
<1>2. PICK g : Solves(g, f, S) /\ SumFunctionOnSet(f, S) = g[S]
  BY SumIsSolution
<1>3. IsFiniteSet(S \ {x})
  BY FS_RemoveElement
<1>4. PICK h : Solves(h, f, S \ {x}) /\ SumFunctionOnSet(f, S \ {x}) = h[S \ {x}]
  BY <1>3, SumIsSolution
<1>5. g[S \ {x}] = h[S \ {x}]
  <2>1. S \ {x} \in SUBSET S
    OBVIOUS
  <2> QED BY <1>2, <1>4, <2>1, SolutionsAgree
<1>6. g[S] = f[x] + g[S \ {x}]
  <2>1. g[S] = Step(f, g, S)
    BY <1>2 DEF Solves
  <2> QED BY <1>1, <2>1 DEF Step
<1> QED BY <1>2, <1>4, <1>5, <1>6
-----------------------------------------------------------------------------
(* The sum of integers is an integer.                                      *)
LEMMA SumIsInteger ==
  ASSUME NEW S, IsFiniteSet(S), NEW f, \A x \in S : f[x] \in Int
  PROVE  SumFunctionOnSet(f, S) \in Int
<1> DEFINE P == {s \in SUBSET S : SumFunctionOnSet(f, s) \in Int}
<1>1. {} \in P
  BY SumEmpty
<1>2. ASSUME NEW s \in SUBSET S, s # {}, \A x \in s : s \ {x} \in P
      PROVE  s \in P
  <2>1. PICK x \in s : SumFunctionOnSet(f, s) = f[x] + SumFunctionOnSet(f, s \ {x})
    BY <1>2, FS_Subset, SumUnfolds
  <2>2. SumFunctionOnSet(f, s \ {x}) \in Int
    BY <1>2
  <2> QED BY <2>1, <2>2
<1>3. P = SUBSET S
  <2> HIDE DEF P
  <2>1. P \in SUBSET SUBSET S
    BY DEF P
  <2> QED BY <1>1, <1>2, <2>1, FiniteInduction
<1> QED BY <1>3

(* Any element may be taken out of a sum.                                  *)
LEMMA SumWithout ==
  ASSUME NEW S, IsFiniteSet(S), NEW f, \A x \in S : f[x] \in Int, NEW x \in S
  PROVE  SumFunctionOnSet(f, S) = f[x] + SumFunctionOnSet(f, S \ {x})
<1> DEFINE P == {s \in SUBSET S :
                   \A y \in s : SumFunctionOnSet(f, s) = f[y] + SumFunctionOnSet(f, s \ {y})}
<1>1. {} \in P
  OBVIOUS
<1>2. ASSUME NEW s \in SUBSET S, s # {}, \A y \in s : s \ {y} \in P
      PROVE  s \in P
  <2> SUFFICES ASSUME NEW y \in s
               PROVE  SumFunctionOnSet(f, s) = f[y] + SumFunctionOnSet(f, s \ {y})
    OBVIOUS
  <2>0. IsFiniteSet(s)
    BY FS_Subset
  <2>1. PICK z \in s : SumFunctionOnSet(f, s) = f[z] + SumFunctionOnSet(f, s \ {z})
    BY <1>2, <2>0, SumUnfolds
  <2>2. CASE y # z
    <3>1. y \in s \ {z} /\ z \in s \ {y}
      BY <2>2
    <3>2. PICK t \in SUBSET S : t = (s \ {z}) \ {y} /\ t = (s \ {y}) \ {z}
      OBVIOUS
    <3>3. /\ SumFunctionOnSet(f, s \ {z}) = f[y] + SumFunctionOnSet(f, (s \ {z}) \ {y})
          /\ SumFunctionOnSet(f, s \ {y}) = f[z] + SumFunctionOnSet(f, (s \ {y}) \ {z})
      BY <1>2, <3>1
    <3>4. /\ SumFunctionOnSet(f, s \ {z}) = f[y] + SumFunctionOnSet(f, t)
          /\ SumFunctionOnSet(f, s \ {y}) = f[z] + SumFunctionOnSet(f, t)
      BY <3>2, <3>3, Zenon
    <3>5. SumFunctionOnSet(f, t) \in Int /\ f[y] \in Int /\ f[z] \in Int
      BY FS_Subset, SumIsInteger
    <3> HIDE DEF P
    <3> QED BY <2>1, <3>4, <3>5
  <2> QED BY <2>1, <2>2
<1>3. P = SUBSET S
  <2> HIDE DEF P
  <2>1. P \in SUBSET SUBSET S
    BY DEF P
  <2> QED BY <1>1, <1>2, <2>1, FiniteInduction
<1> QED BY <1>3

(* Any new element may be added to a sum.                                  *)
LEMMA SumAdded ==
  ASSUME NEW S, IsFiniteSet(S), NEW x, x \notin S,
         NEW f, \A y \in S \union {x} : f[y] \in Int
  PROVE  SumFunctionOnSet(f, S \union {x}) = SumFunctionOnSet(f, S) + f[x]
<1>1. IsFiniteSet(S \union {x}) /\ (S \union {x}) \ {x} = S
  BY FS_AddElement
<1>2. SumFunctionOnSet(f, S \union {x}) = f[x] + SumFunctionOnSet(f, (S \union {x}) \ {x})
  BY <1>1, SumWithout
<1>3. SumFunctionOnSet(f, S) \in Int
  BY SumIsInteger
<1>4. f[x] \in Int
  OBVIOUS
<1>5. SumFunctionOnSet(f, S \union {x}) = f[x] + SumFunctionOnSet(f, S)
  BY <1>1, <1>2, Zenon
<1> QED BY <1>3, <1>4, <1>5

(* A sum depends on the summands only, whatever they are summands for.     *)
LEMMA SumRenamed ==
  ASSUME NEW S, IsFiniteSet(S), NEW f, \A x \in S : f[x] \in Int,
         NEW r, \A x, y \in S : r[x] = r[y] => x = y,
         NEW g, \A x \in S : g[r[x]] = f[x]
  PROVE  SumFunctionOnSet(g, {r[x] : x \in S}) = SumFunctionOnSet(f, S)
<1> DEFINE P == {s \in SUBSET S :
                   /\ IsFiniteSet({r[x] : x \in s})
                   /\ SumFunctionOnSet(g, {r[x] : x \in s}) = SumFunctionOnSet(f, s)}
<1>1. {} \in P
  <2>1. {r[x] : x \in {}} = {}
    OBVIOUS
  <2> QED BY <2>1, SumEmpty, FS_EmptySet
<1>2. ASSUME NEW s \in SUBSET S, s # {}, \A y \in s : s \ {y} \in P
      PROVE  s \in P
  <2>1. PICK y \in s : TRUE
    BY <1>2
  <2> DEFINE t == s \ {y}
             q == {r[x] : x \in t}
  <2>2. IsFiniteSet(q) /\ SumFunctionOnSet(g, q) = SumFunctionOnSet(f, t)
    BY <1>2, <2>1
  <2>3. IsFiniteSet(t)
    BY FS_Subset
  <2>4. s = t \union {y} /\ y \notin t /\ {r[x] : x \in s} = q \union {r[y]} /\ r[y] \notin q
    <3>1. s = t \union {y} /\ y \notin t
      BY <2>1
    <3>2. {r[x] : x \in s} = q \union {r[y]}
      BY <3>1
    <3>3. \A x \in t : r[x] # r[y]
      BY <3>1
    <3> QED BY <3>1, <3>2, <3>3
  <2>5. \A x \in t \union {y} : f[x] \in Int
    OBVIOUS
  <2>6. \A z \in q \union {r[y]} : g[z] \in Int
    OBVIOUS
  <2>7. g[r[y]] = f[y]
    OBVIOUS
  <2> HIDE DEF t, q
  <2>8. SumFunctionOnSet(f, t \union {y}) = SumFunctionOnSet(f, t) + f[y]
    BY <2>3, <2>4, <2>5, SumAdded
  <2>9. SumFunctionOnSet(g, q \union {r[y]}) = SumFunctionOnSet(g, q) + g[r[y]]
    <3>1. PICK z : z = r[y]
      OBVIOUS
    <3>2. z \notin q /\ \A w \in q \union {z} : g[w] \in Int
      BY <2>4, <2>6, <3>1
    <3>3. SumFunctionOnSet(g, q \union {z}) = SumFunctionOnSet(g, q) + g[z]
      BY <2>2, <3>2, SumAdded
    <3> QED BY <3>1, <3>3
  <2>10. IsFiniteSet(q \union {r[y]})
    BY <2>2, FS_AddElement
  <2> QED BY <2>2, <2>4, <2>7, <2>8, <2>9, <2>10
<1>3. P = SUBSET S
  <2> HIDE DEF P
  <2>1. P \in SUBSET SUBSET S
    BY DEF P
  <2> QED BY <1>1, <1>2, <2>1, FiniteInduction
<1> QED BY <1>3

(* The same for a renaming that has a name.                                *)
Renames(r, S, T, f, g) ==
  /\ \A x, y \in S : r[x] = r[y] => x = y
  /\ T = {r[x] : x \in S}
  /\ \A x \in S : f[x] \in Int /\ g[r[x]] = f[x]

LEMMA SumOfRenaming ==
  ASSUME NEW S, IsFiniteSet(S), NEW T, NEW f, NEW g, NEW r, Renames(r, S, T, f, g)
  PROVE  SumFunctionOnSet(g, T) = SumFunctionOnSet(f, S)
<1>1. /\ \A x, y \in S : r[x] = r[y] => x = y
      /\ T = {r[x] : x \in S}
      /\ \A x \in S : f[x] \in Int
      /\ \A x \in S : g[r[x]] = f[x]
  BY Zenon DEF Renames
<1>2. SumFunctionOnSet(g, {r[x] : x \in S}) = SumFunctionOnSet(f, S)
  BY <1>1, SumRenamed
<1> QED BY <1>1, <1>2, Zenon

LEMMA SumsAgree ==
  ASSUME NEW S, IsFiniteSet(S), NEW f, \A x \in S : f[x] \in Int,
         NEW g, \A x \in S : g[x] = f[x]
  PROVE  SumFunctionOnSet(g, S) = SumFunctionOnSet(f, S)
<1>1. PICK r : r = [x \in S |-> x]
  OBVIOUS
<1>2. /\ \A x, y \in S : r[x] = r[y] => x = y
      /\ \A x \in S : g[r[x]] = f[x]
      /\ {r[x] : x \in S} = S
  BY <1>1
<1>3. SumFunctionOnSet(g, {r[x] : x \in S}) = SumFunctionOnSet(f, S)
  BY <1>2, SumRenamed
<1> QED BY <1>2, <1>3, Zenon

(* The sum of naturals is no less than any of them.                        *)
LEMMA SumOfNaturals ==
  ASSUME NEW S, IsFiniteSet(S), NEW f, \A x \in S : f[x] \in Nat
  PROVE  /\ SumFunctionOnSet(f, S) \in Nat
         /\ \A x \in S : f[x] <= SumFunctionOnSet(f, S)
<1> DEFINE P == {s \in SUBSET S : SumFunctionOnSet(f, s) \in Nat}
<1>1. {} \in P
  BY SumEmpty
<1>2. ASSUME NEW s \in SUBSET S, s # {}, \A x \in s : s \ {x} \in P
      PROVE  s \in P
  <2>1. PICK x \in s : SumFunctionOnSet(f, s) = f[x] + SumFunctionOnSet(f, s \ {x})
    BY <1>2, FS_Subset, SumUnfolds
  <2>2. SumFunctionOnSet(f, s \ {x}) \in Nat
    BY <1>2
  <2> QED BY <2>1, <2>2
<1>3. P = SUBSET S
  <2> HIDE DEF P
  <2>1. P \in SUBSET SUBSET S
    BY DEF P
  <2> QED BY <1>1, <1>2, <2>1, FiniteInduction
<1>4. \A s \in SUBSET S : SumFunctionOnSet(f, s) \in Nat
  BY <1>3
<1>5. ASSUME NEW x \in S PROVE f[x] <= SumFunctionOnSet(f, S)
  <2>1. SumFunctionOnSet(f, S) = f[x] + SumFunctionOnSet(f, S \ {x})
    BY SumWithout
  <2>2. SumFunctionOnSet(f, S \ {x}) \in Nat /\ f[x] \in Nat
    BY <1>4
  <2> QED BY <2>1, <2>2
<1> QED BY <1>4, <1>5
-----------------------------------------------------------------------------
(* The sum over the first positions of a sequence.                         *)
SumUpTo(f, n) == SumFunctionOnSet(f, 1..n)

LEMMA SumUpToIsInteger ==
  ASSUME NEW n \in Nat, NEW f, \A k \in 1..n : f[k] \in Int
  PROVE  SumUpTo(f, n) \in Int
<1>1. PICK S : S = 1..n /\ IsFiniteSet(S)
  BY FS_Interval
<1>2. SumFunctionOnSet(f, S) \in Int
  BY <1>1, SumIsInteger
<1> QED BY <1>1, <1>2, Zenon DEF SumUpTo

LEMMA SumUpToZero ==
  ASSUME NEW f
  PROVE  SumUpTo(f, 0) = 0
<1>1. 1..0 = {}
  OBVIOUS
<1> QED BY <1>1, SumEmpty, Zenon DEF SumUpTo

LEMMA SumUpToNext ==
  ASSUME NEW n \in Nat, NEW f, \A k \in 1..(n + 1) : f[k] \in Int
  PROVE  SumUpTo(f, n + 1) = SumUpTo(f, n) + f[n + 1]
<1>1. PICK S : S = 1..n /\ IsFiniteSet(S)
  BY FS_Interval
<1>2. PICK x : x = n + 1
  OBVIOUS
<1>3. x \notin S /\ 1..x = S \union {x} /\ \A k \in S \union {x} : f[k] \in Int
  BY <1>1, <1>2
<1>4. SumFunctionOnSet(f, S \union {x}) = SumFunctionOnSet(f, S) + f[x]
  BY <1>1, <1>3, SumAdded
<1> QED BY <1>1, <1>2, <1>3, <1>4, Zenon DEF SumUpTo

LEMMA SumUpToAgree ==
  ASSUME NEW n \in Nat, NEW f, \A k \in 1..n : f[k] \in Int, NEW g, \A k \in 1..n : g[k] = f[k]
  PROVE  SumUpTo(g, n) = SumUpTo(f, n)
<1>1. PICK S : S = 1..n /\ IsFiniteSet(S)
  BY FS_Interval
<1>2. SumFunctionOnSet(g, S) = SumFunctionOnSet(f, S)
  BY <1>1, SumsAgree
<1> QED BY <1>1, <1>2, Zenon DEF SumUpTo

(* The sum of what comes first and of what is appended to it.              *)
LEMMA SumOfConcatenation ==
  ASSUME NEW n \in Nat, NEW m \in Nat, NEW f, \A k \in 1..n : f[k] \in Int,
         NEW g, \A k \in 1..m : g[k] \in Int,
         NEW h, \A k \in 1..n : h[k] = f[k], \A k \in 1..m : h[n + k] = g[k]
  PROVE  SumUpTo(h, n + m) = SumUpTo(f, n) + SumUpTo(g, m)
<1> DEFINE P == {j \in Nat : j <= m => SumUpTo(h, n + j) = SumUpTo(f, n) + SumUpTo(g, j)}
<1>1. SumUpTo(f, n) \in Int
  BY SumUpToIsInteger
<1>2. 0 \in P
  <2>1. SumUpTo(h, n) = SumUpTo(f, n)
    BY SumUpToAgree
  <2>2. SumUpTo(g, 0) = 0 /\ n + 0 = n
    BY SumUpToZero
  <2> QED BY <1>1, <2>1, <2>2
<1>3. ASSUME NEW j \in P PROVE j + 1 \in P
  <2> SUFFICES ASSUME j + 1 <= m
               PROVE  SumUpTo(h, n + (j + 1)) = SumUpTo(f, n) + SumUpTo(g, j + 1)
    OBVIOUS
  <2>1. j \in Nat /\ SumUpTo(h, n + j) = SumUpTo(f, n) + SumUpTo(g, j)
    OBVIOUS
  <2> HIDE DEF P
  <2>2. /\ \A k \in 1..(j + 1) : g[k] \in Int
        /\ h[n + (j + 1)] = g[j + 1] /\ g[j + 1] \in Int
    BY <2>1
  <2>3. PICK i : i = n + j
    OBVIOUS
  <2>4. \A k \in 1..(i + 1) : h[k] \in Int
    <3>1. \A k \in 1..n : h[k] \in Int
      OBVIOUS
    <3>2. \A k \in 1..m : h[n + k] \in Int
      OBVIOUS
    <3>3. ASSUME NEW k \in 1..(i + 1) PROVE h[k] \in Int
      <4>1. CASE k \in 1..n
        BY <3>1, <4>1
      <4>2. CASE k \notin 1..n
        <5>1. k - n \in 1..m /\ n + (k - n) = k
          BY <2>1, <2>3, <4>2
        <5> QED BY <3>2, <5>1
      <4> QED BY <4>1, <4>2
    <3> QED BY <3>3
  <2>5. SumUpTo(g, j + 1) = SumUpTo(g, j) + g[j + 1]
    BY <2>1, <2>2, SumUpToNext
  <2>6. SumUpTo(h, i + 1) = SumUpTo(h, i) + h[i + 1]
    BY <2>1, <2>3, <2>4, SumUpToNext
  <2>7. i + 1 = n + (j + 1)
    BY <2>1, <2>3
  <2>8. SumUpTo(g, j) \in Int
    BY <2>1, <2>2, SumUpToIsInteger
  <2>9. /\ SumUpTo(h, i + 1) = SumUpTo(f, n) + SumUpTo(g, j) + g[j + 1]
    BY <1>1, <2>1, <2>2, <2>3, <2>6, <2>7, <2>8
  <2> QED BY <1>1, <2>2, <2>5, <2>7, <2>8, <2>9
<1>4. P = Nat
  <2> HIDE DEF P
  <2>1. P \in SUBSET Nat
    BY DEF P
  <2> QED BY <1>2, <1>3, <2>1, Induction
<1>5. m \in P
  BY <1>4
<1> QED BY <1>5
-----------------------------------------------------------------------------
(* An int keeps the residue of a sum.                                      *)
Width == 2 * (IntMax + 1)

LEMMA Residue ==
  ASSUME NEW m \in Nat, m > 0, NEW n \in Int
  PROVE  n % m \in 0..(m - 1) /\ \E q \in Int : n = q * m + (n % m)
<1>1. n % m \in 0..(m - 1)
  OBVIOUS
<1>2. \E q \in Int : n = q * m + (n % m)
  OBVIOUS
<1> QED BY <1>1, <1>2

LEMMA ResidueIsUnique ==
  ASSUME NEW m \in Nat, m > 0, NEW q \in Int, NEW r \in 0..(m - 1)
  PROVE  (q * m + r) % m = r
OBVIOUS

LEMMA WrapsAround ==
  ASSUME NEW n \in Int
  PROVE  /\ Wrap(n) \in -(IntMax + 1)..IntMax
         /\ \E q \in Int : n = q * Width + Wrap(n)
<1>1. PICK m \in Nat : m = Width /\ m > 0 /\ m = 2 * (IntMax + 1)
  BY IntMaxIsNatural DEF Width
<1>2. PICK k \in Int : k = n + IntMax + 1
  BY IntMaxIsNatural
<1>3. k % m \in 0..(m - 1)
  BY <1>1, Residue
<1>4. PICK q \in Int : k = q * m + (k % m)
  BY <1>1, Residue
<1>5. Wrap(n) = (k % m) - (IntMax + 1)
  BY <1>1, <1>2 DEF Wrap
<1>6. n = q * m + Wrap(n)
  <2>1. PICK p \in Int : p = q * m
    BY <1>1
  <2>2. PICK r \in Int : r = k % m
    BY <1>3
  <2>3. k = p + r /\ Wrap(n) = r - (IntMax + 1)
    BY <1>4, <1>5, <2>1, <2>2, Zenon
  <2>4. n = p + Wrap(n)
    BY <1>2, <2>3, IntMaxIsNatural
  <2> QED BY <2>1, <2>4, Zenon
<1>7. Wrap(n) \in -(IntMax + 1)..IntMax
  BY <1>1, <1>3, <1>5, IntMaxIsNatural
<1>8. n = q * Width + Wrap(n)
  BY <1>1, <1>6, Zenon
<1> QED BY <1>7, <1>8

LEMMA WrapIsUnique ==
  ASSUME NEW q \in Int, NEW w \in -(IntMax + 1)..IntMax
  PROVE  Wrap(q * Width + w) = w
<1>1. PICK m \in Nat : m = Width /\ m > 0 /\ m = 2 * (IntMax + 1)
  BY IntMaxIsNatural DEF Width
<1>2. PICK r \in 0..(m - 1) : r = w + IntMax + 1
  BY <1>1, IntMaxIsNatural
<1>3. (q * m + r) % m = r
  BY <1>1, ResidueIsUnique
<1>4. q * m + w + IntMax + 1 = q * m + r
  <2>1. PICK p \in Int : p = q * m
    BY <1>1
  <2> QED BY <1>2, <2>1, IntMaxIsNatural
<1>5. Wrap(q * m + w) = ((q * m + r) % m) - (IntMax + 1)
  BY <1>1, <1>4 DEF Wrap
<1> QED BY <1>1, <1>2, <1>3, <1>5, IntMaxIsNatural

LEMMA WrapOfSmall ==
  ASSUME NEW w \in -(IntMax + 1)..IntMax
  PROVE  Wrap(w) = w
<1>1. 0 * Width + w = w
  BY IntMaxIsNatural DEF Width
<1>2. Wrap(0 * Width + w) = w
  BY WrapIsUnique
<1> QED BY <1>1, <1>2

(* Wrapping a summand first makes no difference.                           *)
LEMMA WrapOfSum ==
  ASSUME NEW a \in Int, NEW b \in Int
  PROVE  Wrap(Wrap(a) + b) = Wrap(a + b)
<1>1. PICK q \in Int : a = q * Width + Wrap(a)
  BY WrapsAround
<1>2. Wrap(a) \in Int
  BY WrapsAround, IntMaxIsNatural
<1>3. PICK c \in Int : c = Wrap(a) + b
  BY <1>2
<1>4. PICK p \in Int : c = p * Width + Wrap(c)
  BY WrapsAround
<1>5. Wrap(c) \in -(IntMax + 1)..IntMax /\ Wrap(c) \in Int
  BY WrapsAround, IntMaxIsNatural
<1>6. a + b = (q + p) * Width + Wrap(c)
  <2>1. PICK m \in Int : m = Width
    BY IntMaxIsNatural DEF Width
  <2>2. (q + p) * m = q * m + p * m
    BY <2>1
  <2>3. PICK x \in Int, y \in Int : x = q * m /\ y = p * m
    BY <2>1
  <2> QED BY <1>1, <1>2, <1>3, <1>4, <1>5, <2>1, <2>2, <2>3
<1>7. Wrap((q + p) * Width + Wrap(c)) = Wrap(c)
  BY <1>5, WrapIsUnique
<1> QED BY <1>3, <1>6, <1>7, Zenon

LEMMA WrapOfSums ==
  ASSUME NEW a \in Int, NEW b \in Int, NEW c \in Int, NEW d \in Int,
         Wrap(a) = Wrap(c), Wrap(b) = Wrap(d)
  PROVE  Wrap(a + b) = Wrap(c + d)
<1>1. Wrap(a) \in Int /\ Wrap(b) \in Int
  BY WrapsAround, IntMaxIsNatural
<1>2. Wrap(a + b) = Wrap(Wrap(a) + b) /\ Wrap(c + d) = Wrap(Wrap(c) + d)
  BY WrapOfSum
<1>3. Wrap(a) + b = b + Wrap(a) /\ Wrap(c) + d = d + Wrap(a)
  BY <1>1
<1>4. Wrap(b + Wrap(a)) = Wrap(Wrap(b) + Wrap(a)) /\ Wrap(d + Wrap(a)) = Wrap(Wrap(d) + Wrap(a))
  BY <1>1, WrapOfSum
<1> QED BY <1>2, <1>3, <1>4, Zenon
-----------------------------------------------------------------------------
(* The loop that collects what matches.                                    *)
Collects(F, S, n) ==
  F = [k \in 0..n |-> IF k = 0 THEN <<>>
                      ELSE IF k \in S THEN Append(F[k - 1], k) ELSE F[k - 1]]

LEMMA LoopExists ==
  ASSUME NEW S, NEW n \in Nat
  PROVE  \E F : Collects(F, S, n)
<1> DEFINE P == {m \in Nat : \E F : Collects(F, S, m)}
<1>1. 0 \in P
  <2> DEFINE F == [k \in 0..0 |-> <<>>]
  <2>1. Collects(F, S, 0)
    BY DEF Collects
  <2> QED BY <2>1
<1>2. ASSUME NEW m \in P PROVE m + 1 \in P
  <2>1. m \in Nat
    OBVIOUS
  <2>2. PICK F : Collects(F, S, m)
    OBVIOUS
  <2> DEFINE G == [k \in 0..(m + 1) |-> IF k = 0 THEN <<>>
                     ELSE IF k \in S THEN Append(F[k - 1], k) ELSE F[k - 1]]
  <2>3. \A k \in 0..m : G[k] = F[k]
    <3> TAKE k \in 0..m
    <3>1. k \in 0..(m + 1)
      BY <2>1
    <3>2. F[k] = IF k = 0 THEN <<>>
                 ELSE IF k \in S THEN Append(F[k - 1], k) ELSE F[k - 1]
      BY <2>2, Zenon DEF Collects
    <3>3. G[k] = IF k = 0 THEN <<>>
                 ELSE IF k \in S THEN Append(F[k - 1], k) ELSE F[k - 1]
      BY <3>1, Zenon
    <3> QED BY <3>2, <3>3, Zenon
  <2>4. \A k \in 0..(m + 1) : k # 0 => k - 1 \in 0..m
    BY <2>1
  <2>5. Collects(G, S, m + 1)
    BY <2>3, <2>4 DEF Collects
  <2> HIDE DEF G
  <2> QED BY <2>1, <2>5
<1>3. P = Nat
  <2> HIDE DEF P
  <2>1. P \in SUBSET Nat
    BY DEF P
  <2> QED BY <1>1, <1>2, <2>1, Induction
<1> QED BY <1>3

LEMMA InOrderIsLoop ==
  ASSUME NEW S, NEW n \in Nat
  PROVE  \E F : Collects(F, S, n) /\ InOrder(S, n) = F[n]
<1>1. PICK F : Collects(F, S, n)
  BY LoopExists
<1> QED BY <1>1 DEF InOrder, Collects

(* It collects each once, in order.                                        *)
LEMMA InOrderCollects ==
  ASSUME NEW S, NEW n \in Nat
  PROVE  /\ InOrder(S, n) \in Seq(S \intersect 1..n)
         /\ \A k \in S \intersect 1..n : \E j \in 1..Len(InOrder(S, n)) : InOrder(S, n)[j] = k
         /\ \A j, k \in 1..Len(InOrder(S, n)) : j < k => InOrder(S, n)[j] < InOrder(S, n)[k]
<1>1. PICK F : Collects(F, S, n) /\ InOrder(S, n) = F[n]
  BY InOrderIsLoop
<1> DEFINE Lists(s, m) ==
             /\ s \in Seq(S \intersect 1..m)
             /\ \A k \in S \intersect 1..m : \E j \in 1..Len(s) : s[j] = k
             /\ \A j, k \in 1..Len(s) : j < k => s[j] < s[k]
           P == {m \in Nat : m <= n => Lists(F[m], m)}
<1>2. 0 \in P
  <2>1. F[0] = <<>>
    BY <1>1 DEF Collects
  <2>2. Lists(<<>>, 0)
    BY EmptySeq
  <2> HIDE DEF Lists
  <2> QED BY <2>1, <2>2
<1>3. ASSUME NEW m \in P PROVE m + 1 \in P
  <2>0. m \in Nat /\ (m <= n => Lists(F[m], m))
    BY Zenon
  <2> SUFFICES ASSUME m + 1 <= n PROVE Lists(F[m + 1], m + 1)
    <3> HIDE DEF Lists
    <3>1. m + 1 \in Nat
      BY <2>0
    <3> QED BY <3>1
  <2>1. m \in Nat /\ Lists(F[m], m) /\ m + 1 \in 0..n /\ m + 1 # 0 /\ (m + 1) - 1 = m
    <3> HIDE DEF Lists
    <3> QED BY <2>0
  <2> HIDE DEF P
  <2>2. F[m + 1] = IF m + 1 \in S THEN Append(F[m], m + 1) ELSE F[m]
    <3>1. PICK k \in 0..n : k = m + 1 /\ k # 0 /\ k - 1 = m
      BY <2>1
    <3>2. F[k] = IF k = 0 THEN <<>>
                 ELSE IF k \in S THEN Append(F[k - 1], k) ELSE F[k - 1]
      BY <1>1, Zenon DEF Collects
    <3> QED BY <3>1, <3>2, Zenon
  <2>3. PICK s \in Seq(S \intersect 1..m) : s = F[m]
    BY <2>1
  <2>4. CASE m + 1 \in S
    <3>1. s \in Seq(S \intersect 1..(m + 1)) /\ m + 1 \in S \intersect 1..(m + 1)
      <4>1. S \intersect 1..m \subseteq S \intersect 1..(m + 1)
        BY <2>1
      <4>2. s \in Seq(S \intersect 1..(m + 1))
        BY <4>1, SeqMonotonic
      <4> QED BY <2>1, <2>4, <4>2
    <3>2. PICK t : t = Append(s, m + 1)
      OBVIOUS
    <3>3. /\ t \in Seq(S \intersect 1..(m + 1)) /\ Len(t) = Len(s) + 1 /\ Len(s) \in Nat
          /\ \A j \in 1..Len(s) : t[j] = s[j]
          /\ t[Len(s) + 1] = m + 1
      BY <3>1, <3>2, AppendProperties, LenProperties
    <3>4. \A j \in 1..Len(s) : s[j] \in 1..m
      BY ElementOfSeq
    <3>5. \A k \in S \intersect 1..(m + 1) : \E j \in 1..Len(t) : t[j] = k
      <4>1. ASSUME NEW k \in S \intersect 1..(m + 1) PROVE \E j \in 1..Len(t) : t[j] = k
        <5>1. CASE k = m + 1
          BY <3>3, <5>1
        <5>2. CASE k # m + 1
          <6>1. k \in S \intersect 1..m
            BY <2>1, <5>2
          <6>2. PICK j \in 1..Len(s) : s[j] = k
            BY <2>1, <2>3, <6>1
          <6> QED BY <3>3, <6>2
        <5> QED BY <5>1, <5>2
      <4> QED BY <4>1
    <3>6. \A j, k \in 1..Len(t) : j < k => t[j] < t[k]
      <4>1. ASSUME NEW j \in 1..Len(t), NEW k \in 1..Len(t), j < k PROVE t[j] < t[k]
        <5>1. j \in 1..Len(s) /\ t[j] = s[j] /\ s[j] \in 1..m
          BY <3>3, <3>4, <4>1
        <5>2. CASE k = Len(s) + 1
          BY <2>1, <3>3, <5>1, <5>2
        <5>3. CASE k # Len(s) + 1
          <6>1. k \in 1..Len(s) /\ t[k] = s[k]
            BY <3>3, <5>3
          <6> QED BY <2>1, <2>3, <4>1, <5>1, <6>1
        <5> QED BY <5>2, <5>3
      <4> QED BY <4>1
    <3> QED BY <2>2, <2>3, <2>4, <3>2, <3>3, <3>5, <3>6
  <2>5. CASE m + 1 \notin S
    <3>1. S \intersect 1..(m + 1) = S \intersect 1..m
      BY <2>1, <2>5
    <3> QED BY <2>1, <2>2, <2>5, <3>1
  <2> QED BY <2>4, <2>5
<1>4. P = Nat
  <2> HIDE DEF P
  <2>1. P \in SUBSET Nat
    BY DEF P
  <2> QED BY <1>2, <1>3, <2>1, Induction
<1>5. Lists(F[n], n)
  <2>1. n \in P
    BY <1>4
  <2> HIDE DEF Lists
  <2> QED BY <2>1
<1> QED BY <1>1, <1>5
-----------------------------------------------------------------------------
(* What the loader makes sure of in the rules of a policy.                 *)
TypedRules(p) ==
  p.rules \in Seq(Range(p.rules)) /\ \A r \in DOMAIN p.rules : p.rules[r].risk_points \in Int

MatchPoints(matches) == [k \in DOMAIN matches |-> matches[k].risk_points]

(* What the correlator relies on in a result of the evaluator: its matches *)
(* are a sequence, the points are those of rules, and they add up.         *)
AddsUp(result, p) ==
  /\ result.matches \in Seq(Range(result.matches))
  /\ \A k \in DOMAIN result.matches :
       /\ result.matches[k].risk_points \in Int
       /\ \E r \in DOMAIN p.rules :
            result.matches[k].risk_points = p.rules[r].risk_points
  /\ result.total_risk_score
       = Wrap(SumUpTo(MatchPoints(result.matches), Len(result.matches)))
  /\ result.total_risk_score \in -(IntMax + 1)..IntMax

(* The domain of a sequence, as a name that the provers keep.              *)
LEMMA SequenceOfItsRange ==
  ASSUME NEW n \in Nat, NEW s, DOMAIN s = 1..n, s = [k \in 1..n |-> s[k]]
  PROVE  s \in Seq(Range(s)) /\ Len(s) = n
<1>1. \A k \in 1..n : s[k] \in Range(s)
  BY DEF Range
<1>2. s \in [1..n -> Range(s)]
  BY <1>1
<1> QED BY <1>2

(* Every result of the evaluator adds up (RiskEvaluator.cpp:7-33).         *)
LEMMA EvaluationAddsUp ==
  ASSUME NEW p, TypedRules(p), NEW e
  PROVE  /\ AddsUp(Evaluate(p, e), p)
         /\ Evaluate(p, e).event = e
         /\ Evaluate(p, e).verdict
              = VerdictForScore(p.risk_thresholds, Evaluate(p, e).total_risk_score)
<1>1. PICK rules, len :
        /\ len \in Nat /\ rules = p.rules /\ len = Len(p.rules) /\ DOMAIN rules = 1..len
        /\ \A r \in 1..len : rules[r].risk_points \in Int
  <2>1. /\ p.rules \in Seq(Range(p.rules))
        /\ \A r \in DOMAIN p.rules : p.rules[r].risk_points \in Int
    BY Zenon DEF TypedRules
  <2>2. PICK rules : rules = p.rules
    OBVIOUS
  <2>3. PICK R : R = Range(rules)
    OBVIOUS
  <2>4. rules \in Seq(R)
    BY <2>1, <2>2, <2>3, Zenon
  <2>5. Len(rules) \in Nat /\ DOMAIN rules = 1..Len(rules)
    BY <2>4, LenProperties
  <2>6. /\ Len(rules) = Len(p.rules) /\ DOMAIN rules = 1..Len(rules)
        /\ \A r \in 1..Len(rules) : rules[r].risk_points \in Int
    BY <2>1, <2>2, <2>5, Zenon
  <2> QED BY <2>2, <2>5, <2>6, Zenon
<1>2. PICK S : S = {r \in DOMAIN rules : Hits(rules[r], e) # {}}
  OBVIOUS
<1>3. PICK matched : matched = InOrder(S, len)
  OBVIOUS
<1>4. PICK n \in Nat : DOMAIN matched = 1..n /\ \A k \in 1..n : matched[k] \in 1..len
  <2>1. PICK T : T = S \intersect 1..len
    OBVIOUS
  <2>2. matched \in Seq(T)
    <3>1. len \in Nat
      BY <1>1
    <3>2. InOrder(S, len) \in Seq(S \intersect 1..len)
      BY <3>1, InOrderCollects, Zenon
    <3> QED BY <1>3, <2>1, <3>2, Zenon
  <2>3. \A t \in T : t \in 1..len
    BY <2>1
  <2> QED BY <2>2, <2>3, LenProperties, ElementOfSeq
<1> DEFINE matches == [k \in DOMAIN matched |->
                         [rule |-> matched[k],
                          risk_points |-> rules[matched[k]].risk_points,
                          reason |-> Min(Hits(rules[matched[k]], e))]]
           score == Wrap(SumFunction([k \in DOMAIN matches |-> matches[k].risk_points]))
<1>5. Evaluate(p, e) = [event |-> e, matches |-> matches, total_risk_score |-> score,
                        verdict |-> VerdictForScore(p.risk_thresholds, score)]
  BY <1>1, <1>2, <1>3, Zenon DEF Evaluate
<1>6. PICK r : r = Evaluate(p, e)
  OBVIOUS
<1>7. /\ r.event = e /\ r.matches = matches /\ r.total_risk_score = score
      /\ r.verdict = VerdictForScore(p.risk_thresholds, score)
  <2> HIDE DEF matches, score
  <2> QED BY <1>5, <1>6
<1>8. /\ DOMAIN r.matches = 1..n
      /\ r.matches = [k \in 1..n |-> r.matches[k]]
      /\ \A k \in 1..n : r.matches[k].risk_points = rules[matched[k]].risk_points
  BY <1>4, <1>7
<1>9. r.matches \in Seq(Range(r.matches)) /\ Len(r.matches) = n
  BY <1>8, SequenceOfItsRange
<1>10. \A k \in DOMAIN r.matches :
         /\ r.matches[k].risk_points \in Int
         /\ \E q \in DOMAIN p.rules : r.matches[k].risk_points = p.rules[q].risk_points
  BY <1>1, <1>4, <1>8
<1>11. r.total_risk_score = Wrap(SumUpTo(MatchPoints(r.matches), n))
  <2>1. PICK points : points = MatchPoints(r.matches)
    OBVIOUS
  <2>2. points = [k \in DOMAIN matches |-> matches[k].risk_points]
    BY <1>7, <2>1, Zenon DEF MatchPoints
  <2>3. DOMAIN points = 1..n
    BY <1>8, <2>1, Zenon DEF MatchPoints
  <2>4. score = Wrap(SumFunction(points))
    BY <2>2, Zenon
  <2> QED BY <1>7, <2>1, <2>3, <2>4, Zenon DEF SumFunction, SumUpTo
<1>12. r.total_risk_score \in -(IntMax + 1)..IntMax
  <2>1. \A k \in 1..n : MatchPoints(r.matches)[k] \in Int
    BY <1>8, <1>10 DEF MatchPoints
  <2>2. SumUpTo(MatchPoints(r.matches), n) \in Int
    BY <2>1, SumUpToIsInteger
  <2> QED BY <1>11, <2>2, WrapsAround
<1> HIDE DEF matches, score
<1>13. AddsUp(r, p)
  BY <1>9, <1>10, <1>11, <1>12, Zenon DEF AddsUp
<1> QED BY <1>6, <1>7, <1>13, Zenon
-----------------------------------------------------------------------------
(* The matches of an event, from the patterns that it hits of each rule.   *)
MatchesFrom(rules, hits) ==
  LET matched == InOrder({r \in DOMAIN rules : hits[r] # {}}, Len(rules))
  IN [k \in DOMAIN matched |-> [rule |-> matched[k],
                                risk_points |-> rules[matched[k]].risk_points,
                                reason |-> Min(hits[matched[k]])]]

(* The evaluator knows an event only by the patterns that it hits          *)
(* (RiskEvaluator.cpp:16-25).                                              *)
LEMMA MatchesComeFromHits ==
  ASSUME NEW p, TypedRules(p), NEW e
  PROVE  Evaluate(p, e).matches
           = MatchesFrom(p.rules, [r \in DOMAIN p.rules |-> Hits(p.rules[r], e)])
<1>1. PICK rules, len :
        len \in Nat /\ rules = p.rules /\ len = Len(rules) /\ DOMAIN rules = 1..len
  <2>1. PICK rules : rules = p.rules
    OBVIOUS
  <2>2. PICK R : R = Range(rules)
    OBVIOUS
  <2>3. rules \in Seq(R)
    BY <2>1, <2>2, Zenon DEF TypedRules
  <2>4. Len(rules) \in Nat /\ DOMAIN rules = 1..Len(rules)
    BY <2>3, LenProperties
  <2> QED BY <2>1, <2>4, Zenon
<1>2. PICK hits : hits = [r \in DOMAIN rules |-> Hits(rules[r], e)]
  OBVIOUS
<1>3. PICK S : S = {r \in DOMAIN rules : Hits(rules[r], e) # {}}
  OBVIOUS
<1>4. S = {r \in DOMAIN rules : hits[r] # {}}
  BY <1>2, <1>3
<1>5. PICK matched : matched = InOrder(S, len)
  OBVIOUS
<1>6. \A k \in DOMAIN matched : matched[k] \in DOMAIN rules
  <2>1. PICK T : T = S \intersect 1..len
    OBVIOUS
  <2>2. matched \in Seq(T)
    <3>1. len \in Nat
      BY <1>1
    <3>2. InOrder(S, len) \in Seq(S \intersect 1..len)
      BY <3>1, InOrderCollects, Zenon
    <3> QED BY <1>5, <2>1, <3>2, Zenon
  <2>3. \A t \in T : t \in 1..len
    BY <2>1
  <2>4. \A k \in DOMAIN matched : matched[k] \in 1..len
    BY <2>2, <2>3, LenProperties, ElementOfSeq
  <2> QED BY <1>1, <2>4, Zenon
<1>7. \A k \in DOMAIN matched : hits[matched[k]] = Hits(rules[matched[k]], e)
  BY <1>2, <1>6, Zenon
<1> DEFINE matches == [k \in DOMAIN matched |->
                         [rule |-> matched[k],
                          risk_points |-> rules[matched[k]].risk_points,
                          reason |-> Min(Hits(rules[matched[k]], e))]]
           score == Wrap(SumFunction([k \in DOMAIN matches |-> matches[k].risk_points]))
<1>8. Evaluate(p, e) = [event |-> e, matches |-> matches, total_risk_score |-> score,
                        verdict |-> VerdictForScore(p.risk_thresholds, score)]
  BY <1>1, <1>3, <1>5, Zenon DEF Evaluate
<1>9. Evaluate(p, e).matches = matches
  <2> HIDE DEF matches, score
  <2> QED BY <1>8
<1>10. matches = MatchesFrom(rules, hits)
  <2>1. MatchesFrom(rules, hits)
          = [k \in DOMAIN matched |-> [rule |-> matched[k],
                                       risk_points |-> rules[matched[k]].risk_points,
                                       reason |-> Min(hits[matched[k]])]]
    BY <1>1, <1>4, <1>5, Zenon DEF MatchesFrom
  <2>2. \A k \in DOMAIN matched : Min(hits[matched[k]]) = Min(Hits(rules[matched[k]], e))
    BY <1>7, Zenon
  <2> QED BY <2>1, <2>2, Zenon
<1> HIDE DEF matches, score
<1> QED BY <1>1, <1>2, <1>9, <1>10, Zenon
-----------------------------------------------------------------------------
(* Patterns are lists.                                                     *)
TypedPatterns(p) ==
  \A r \in DOMAIN p.rules :
    /\ p.rules[r].match_path_prefix \in Seq(Range(p.rules[r].match_path_prefix))
    /\ p.rules[r].sensitive_paths \in Seq(Range(p.rules[r].sensitive_paths))
    /\ p.rules[r].restricted_ports \in Seq(Range(p.rules[r].restricted_ports))

(* The patterns that an event hits are positions in a list; the fold that  *)
(* takes the first of them takes one of them.                              *)
LEMMA FirstHit ==
  ASSUME NEW p, TypedPatterns(p), NEW r \in DOMAIN p.rules, NEW e, Hits(p.rules[r], e) # {}
  PROVE  /\ Min(Hits(p.rules[r], e)) \in Hits(p.rules[r], e)
         /\ \A h \in Hits(p.rules[r], e) : Min(Hits(p.rules[r], e)) <= h
<1>1. PICK H : H = Hits(p.rules[r], e)
  OBVIOUS
<1>2. \A list, R : list \in Seq(R) => DOMAIN list \subseteq Nat
  OBVIOUS
<1>3. H \in SUBSET Nat
  <2>1. \/ H = {} \/ H = ExecHits(p.rules[r], e) \/ H = FileHits(p.rules[r], e)
        \/ H = NetworkHits(p.rules[r], e)
    BY <1>1 DEF Hits
  <2>2. \/ H = {} \/ H \subseteq DOMAIN p.rules[r].match_path_prefix
        \/ H \subseteq DOMAIN p.rules[r].sensitive_paths
        \/ H \subseteq DOMAIN p.rules[r].restricted_ports
    BY <2>1 DEF ExecHits, FileHits, NetworkHits
  <2>3. /\ DOMAIN p.rules[r].match_path_prefix \subseteq Nat
        /\ DOMAIN p.rules[r].sensitive_paths \subseteq Nat
        /\ DOMAIN p.rules[r].restricted_ports \subseteq Nat
    BY <1>2, Zenon DEF TypedPatterns
  <2> QED BY <2>2, <2>3
<1>4. \E m \in H : \A h \in H : m <= h
  BY <1>1, <1>3, LeastNatural
<1>5. Min(H) = CHOOSE m \in H : \A h \in H : m <= h
  BY DEF Min
<1>6. Min(H) \in H /\ \A h \in H : Min(H) <= h
  BY <1>4, <1>5
<1> QED BY <1>1, <1>6, Zenon

(* The matches are a sequence; they are of the rules that the event hits,  *)
(* each once and in the order of the policy; each has the points of its    *)
(* rule and the first pattern of it that was hit.                          *)
MatchesExactly(matches, rules, e) ==
  /\ Len(matches) \in Nat /\ DOMAIN matches = 1..Len(matches)
  /\ Len(matches) = 0 => matches = <<>>
  /\ {matches[k].rule : k \in DOMAIN matches} = {r \in DOMAIN rules : Hits(rules[r], e) # {}}
  /\ \A j, k \in DOMAIN matches : j < k => matches[j].rule < matches[k].rule
  /\ \A k \in DOMAIN matches :
       /\ matches[k].risk_points = rules[matches[k].rule].risk_points
       /\ matches[k].reason \in Hits(rules[matches[k].rule], e)
       /\ \A h \in Hits(rules[matches[k].rule], e) : matches[k].reason <= h

(* The matches are of the rules that the event hits, each once and in the  *)
(* order of the policy, whatever the patterns of the rules look like.      *)
OrderedMatches(matches, n, rules, e) ==
  /\ matches = [k \in 1..n |-> matches[k]]
  /\ {matches[k].rule : k \in 1..n} = {r \in DOMAIN rules : Hits(rules[r], e) # {}}
  /\ \A j, k \in 1..n : j < k => matches[j].rule < matches[k].rule
  /\ \A k \in 1..n : /\ matches[k].risk_points = rules[matches[k].rule].risk_points
                      /\ matches[k].reason = Min(Hits(rules[matches[k].rule], e))

LEMMA MatchesInOrder ==
  ASSUME NEW p, TypedRules(p), NEW e
  PROVE  \E n \in Nat : OrderedMatches(Evaluate(p, e).matches, n, p.rules, e)
<1>1. PICK rules, len :
        len \in Nat /\ rules = p.rules /\ len = Len(rules) /\ DOMAIN rules = 1..len
  <2>1. PICK rules : rules = p.rules
    OBVIOUS
  <2>2. PICK R : R = Range(rules)
    OBVIOUS
  <2>3. rules \in Seq(R)
    BY <2>1, <2>2, Zenon DEF TypedRules
  <2>4. Len(rules) \in Nat /\ DOMAIN rules = 1..Len(rules)
    BY <2>3, LenProperties
  <2> QED BY <2>1, <2>4, Zenon
<1>2. PICK hits : hits = [r \in DOMAIN rules |-> Hits(rules[r], e)]
  OBVIOUS
<1>3. PICK S : S = {r \in DOMAIN rules : Hits(rules[r], e) # {}}
  OBVIOUS
<1>4. PICK matched : matched = InOrder(S, len)
  OBVIOUS
<1>5. PICK n \in Nat :
        /\ DOMAIN matched = 1..n
        /\ \A k \in 1..n : matched[k] \in S
        /\ \A r \in S : \E k \in 1..n : matched[k] = r
        /\ \A j, k \in 1..n : j < k => matched[j] < matched[k]
  <2>1. PICK T : T = S \intersect 1..len
    OBVIOUS
  <2>2. /\ matched \in Seq(T)
        /\ \A r \in T : \E k \in 1..Len(matched) : matched[k] = r
        /\ \A j, k \in 1..Len(matched) : j < k => matched[j] < matched[k]
    <3>1. len \in Nat
      BY <1>1
    <3>2. /\ InOrder(S, len) \in Seq(S \intersect 1..len)
          /\ \A r \in S \intersect 1..len :
               \E k \in 1..Len(InOrder(S, len)) : InOrder(S, len)[k] = r
          /\ \A j, k \in 1..Len(InOrder(S, len)) :
               j < k => InOrder(S, len)[j] < InOrder(S, len)[k]
      BY <3>1, InOrderCollects, Zenon
    <3> QED BY <1>4, <2>1, <3>2, Zenon
  <2>3. T = S
    BY <1>1, <1>3, <2>1
  <2>4. Len(matched) \in Nat /\ DOMAIN matched = 1..Len(matched)
        /\ \A k \in 1..Len(matched) : matched[k] \in T
    BY <2>2, LenProperties, ElementOfSeq
  <2>5. PICK n : n = Len(matched)
    OBVIOUS
  <2>6. /\ n \in Nat /\ DOMAIN matched = 1..n
        /\ \A k \in 1..n : matched[k] \in S
        /\ \A r \in S : \E k \in 1..n : matched[k] = r
        /\ \A j, k \in 1..n : j < k => matched[j] < matched[k]
    BY <2>2, <2>3, <2>4, <2>5, Zenon
  <2> QED BY <2>6, Zenon
<1> DEFINE matches == Evaluate(p, e).matches
<1>6. /\ DOMAIN matches = 1..n
      /\ \A k \in 1..n : /\ matches[k].rule = matched[k]
                         /\ matches[k].risk_points = rules[matched[k]].risk_points
                         /\ matches[k].reason = Min(hits[matched[k]])
      /\ matches = [k \in 1..n |-> matches[k]]
  <2>1. S = {r \in DOMAIN rules : hits[r] # {}}
    BY <1>2, <1>3
  <2>2. matches = MatchesFrom(rules, hits)
    BY <1>1, <1>2, MatchesComeFromHits, Zenon
  <2>3. matches = [k \in DOMAIN matched |-> [rule |-> matched[k],
                                             risk_points |-> rules[matched[k]].risk_points,
                                             reason |-> Min(hits[matched[k]])]]
    BY <1>1, <1>4, <2>1, <2>2, Zenon DEF MatchesFrom
  <2>4. matches = [k \in 1..n |-> [rule |-> matched[k],
                                   risk_points |-> rules[matched[k]].risk_points,
                                   reason |-> Min(hits[matched[k]])]]
    BY <1>5, <2>3, Zenon
  <2> QED BY <2>4
<1> HIDE DEF matches
<1>7. {matches[k].rule : k \in 1..n} = S
  BY <1>5, <1>6
<1>8. \A j, k \in 1..n : j < k => matches[j].rule < matches[k].rule
  BY <1>5, <1>6
<1>9. \A k \in 1..n :
        /\ matches[k].risk_points = rules[matches[k].rule].risk_points
        /\ matches[k].reason = Min(Hits(rules[matches[k].rule], e))
  <2>1. \A k \in 1..n : matched[k] \in DOMAIN rules
    BY <1>3, <1>5
  <2> QED BY <1>2, <1>6, <2>1, Zenon
<1>10. OrderedMatches(matches, n, rules, e)
  BY <1>3, <1>6, <1>7, <1>8, <1>9, Zenon DEF OrderedMatches
<1>11. OrderedMatches(Evaluate(p, e).matches, n, p.rules, e)
  BY <1>1, <1>10, Zenon DEF matches
<1> QED BY <1>11

(* In particular the matched rules are those that the event hits.          *)
LEMMA MatchedRulesAreHit ==
  ASSUME NEW p, TypedRules(p), NEW e
  PROVE  {m.rule : m \in Range(Evaluate(p, e).matches)}
           = {r \in DOMAIN p.rules : Hits(p.rules[r], e) # {}}
<1>1. PICK matches : matches = Evaluate(p, e).matches
  OBVIOUS
<1>2. PICK n \in Nat : OrderedMatches(matches, n, p.rules, e)
  BY <1>1, MatchesInOrder, Zenon
<1>3. Range(matches) = {matches[k] : k \in 1..n}
  <2>1. DOMAIN matches = 1..n
    BY <1>2, Zenon DEF OrderedMatches
  <2> QED BY <2>1 DEF Range
<1>4. {m.rule : m \in Range(matches)} = {matches[k].rule : k \in 1..n}
  BY <1>3
<1> QED BY <1>1, <1>2, <1>4, Zenon DEF OrderedMatches

(* What evaluate returns, for every policy and every event, are exactly    *)
(* the rules that the event hits (RiskEvaluator.cpp:7-33).                 *)
THEOREM EvaluationIsExact ==
  ASSUME NEW p, TypedRules(p), TypedPatterns(p), NEW e
  PROVE  MatchesExactly(Evaluate(p, e).matches, p.rules, e)
<1>1. PICK rules : rules = p.rules
  OBVIOUS
<1>2. PICK matches : matches = Evaluate(p, e).matches
  OBVIOUS
<1>3. PICK n \in Nat : OrderedMatches(matches, n, rules, e)
  BY <1>1, <1>2, MatchesInOrder, Zenon
<1>4. /\ DOMAIN matches = 1..n
      /\ matches = [k \in 1..n |-> matches[k]]
      /\ {matches[k].rule : k \in 1..n} = {r \in DOMAIN rules : Hits(rules[r], e) # {}}
      /\ \A j, k \in 1..n : j < k => matches[j].rule < matches[k].rule
      /\ \A k \in 1..n : /\ matches[k].risk_points = rules[matches[k].rule].risk_points
                          /\ matches[k].reason = Min(Hits(rules[matches[k].rule], e))
  BY <1>3, Zenon DEF OrderedMatches
<1>5. Len(matches) = n /\ (n = 0 => matches = <<>>)
  <2>1. matches \in Seq(Range(matches)) /\ Len(matches) = n
    BY <1>4, SequenceOfItsRange
  <2> QED BY <2>1, EmptySeq
<1>6. \A k \in 1..n : /\ matches[k].reason \in Hits(rules[matches[k].rule], e)
                      /\ \A h \in Hits(rules[matches[k].rule], e) : matches[k].reason <= h
  <2> TAKE k \in 1..n
  <2>1. PICK r : r = matches[k].rule
    OBVIOUS
  <2>2. r \in DOMAIN rules /\ Hits(rules[r], e) # {}
    BY <1>4, <2>1
  <2>3. /\ Min(Hits(rules[r], e)) \in Hits(rules[r], e)
        /\ \A h \in Hits(rules[r], e) : Min(Hits(rules[r], e)) <= h
    BY <1>1, <2>2, FirstHit, Zenon
  <2>4. matches[k].reason = Min(Hits(rules[r], e))
    BY <1>4, <2>1, Zenon
  <2> QED BY <2>1, <2>3, <2>4, Zenon
<1>7. /\ Len(matches) \in Nat /\ DOMAIN matches = 1..Len(matches)
      /\ Len(matches) = 0 => matches = <<>>
  BY <1>4, <1>5
<1>8. MatchesExactly(matches, rules, e)
  BY <1>4, <1>6, <1>7, Zenon DEF MatchesExactly
<1> QED BY <1>1, <1>2, <1>8, Zenon
=============================================================================
