-------------------------------- MODULE Sums --------------------------------
(***************************************************************************)
(* Finite sets: their least and greatest members, their ranks by a strict  *)
(* order, and what a sum over one is, proved from the fold that defines it *)
(* in Functions: empty, taken apart one member or one subset at a time,    *)
(* compared and scaled.  The models' totals (holds, shares) are such sums, *)
(* their sorted lists (uids, scores, standings) are ranks.                 *)
(*                                                                         *)
(* The induction is on a set with no smaller one of its kind.              *)
(***************************************************************************)
EXTENDS Integers, Functions, FiniteSetTheorems, TLAPS

-----------------------------------------------------------------------------
(* Of finite sets, a smallest one *)

(* A family of finite sets has a member that contains no other.            *)
LEMMA SmallestSet ==
  ASSUME NEW F, F # {}, \A s \in F : IsFiniteSet(s)
  PROVE  \E s \in F : \A t \in F : t \subseteq s => t = s
<1> DEFINE U == UNION F
<1>1. F \subseteq FiniteSubsetsOf(U)
  BY DEF FiniteSubsetsOf
<1>2. IsWellFoundedOn(StrictSubsetOrdering(U), FiniteSubsetsOf(U))
  BY FS_StrictSubsetOrderingWellFounded
<1>3. \E s \in F : \A t \in F : ~ (<<t, s>> \in StrictSubsetOrdering(U))
  BY <1>1, <1>2, WFMin
<1>4. \A s, t \in F : t \subseteq s /\ t # s => <<t, s>> \in StrictSubsetOrdering(U)
  BY DEF StrictSubsetOrdering
<1>. QED
  BY <1>3, <1>4

(* Some number is the least of its kind.                                   *)
LEMMA SmallestNumber ==
  ASSUME NEW T, T \subseteq Nat, T # {}
  PROVE  \E n \in T : \A m \in T : n <= m
<1> DEFINE F == {0 .. n : n \in T}
<1>1. \A s \in F : IsFiniteSet(s)
  BY FS_Interval
<1>2. F # {}
  OBVIOUS
<1> HIDE DEF F
<1>3. PICK s \in F : \A t \in F : t \subseteq s => t = s
  BY <1>1, <1>2, SmallestSet
<1>4. PICK n \in T : s = 0 .. n
  BY <1>3 DEF F
<1>5. ASSUME NEW m \in T PROVE n <= m
  <2>1. m \in Nat /\ n \in Nat
    OBVIOUS
  <2>2. CASE m < n
    <3>1. 0 .. m \in F /\ 0 .. m \subseteq s
      BY <1>4, <2>1, <2>2 DEF F
    <3>2. 0 .. m = 0 .. n
      BY <1>3, <1>4, <3>1
    <3>3. n \in 0 .. n /\ n \notin 0 .. m
      BY <2>1, <2>2
    <3>. QED
      BY <3>2, <3>3
  <2>. QED
    BY <2>1, <2>2
<1>. QED
  BY <1>5

-----------------------------------------------------------------------------
(* Ranks *)

(* A finite set of integers has a least and a greatest member.             *)
LEMMA LeastAndGreatest ==
  ASSUME NEW S, IsFiniteSet(S), S # {}, S \subseteq Int
  PROVE  /\ \E m \in S : \A x \in S : m <= x
         /\ \E m \in S : \A x \in S : x <= m
<1>1. \E m \in S : \A x \in S : m <= x
  <2> DEFINE Down(x) == {y \in S : y <= x}
             F == {Down(x) : x \in S}
  <2>1. F # {} /\ \A s \in F : IsFiniteSet(s)
    <3>1. \A x \in S : Down(x) \subseteq S
      OBVIOUS
    <3>2. \A x \in S : IsFiniteSet(Down(x))
      BY <3>1, FS_Subset
    <3> HIDE DEF Down
    <3>3. F # {}
      OBVIOUS
    <3>. QED
      BY <3>2, <3>3
  <2> HIDE DEF F
  <2>2. PICK s \in F : \A t \in F : t \subseteq s => t = s
    BY <2>1, SmallestSet
  <2>3. PICK m \in S : s = Down(m)
    BY <2>2 DEF F
  <2>4. ASSUME NEW x \in S PROVE m <= x
    <3> SUFFICES ASSUME x < m PROVE FALSE
      OBVIOUS
    <3>1. Down(x) \in F
      BY DEF F
    <3>3. \A y \in S : y <= x => y <= m
      OBVIOUS
    <3>4. Down(x) \subseteq s
      BY <2>3, <3>3
    <3>2. m \in Down(m) /\ m \notin Down(x)
      OBVIOUS
    <3>. QED
      BY <2>2, <2>3, <3>1, <3>2, <3>4
  <2>. QED
    BY <2>4
<1>2. \E m \in S : \A x \in S : x <= m
  <2> DEFINE Up(x) == {y \in S : x <= y}
             F == {Up(x) : x \in S}
  <2>1. F # {} /\ \A s \in F : IsFiniteSet(s)
    <3>1. \A x \in S : Up(x) \subseteq S
      OBVIOUS
    <3>2. \A x \in S : IsFiniteSet(Up(x))
      BY <3>1, FS_Subset
    <3> HIDE DEF Up
    <3>3. F # {}
      OBVIOUS
    <3>. QED
      BY <3>2, <3>3
  <2> HIDE DEF F
  <2>2. PICK s \in F : \A t \in F : t \subseteq s => t = s
    BY <2>1, SmallestSet
  <2>3. PICK m \in S : s = Up(m)
    BY <2>2 DEF F
  <2>4. ASSUME NEW x \in S PROVE x <= m
    <3> SUFFICES ASSUME m < x PROVE FALSE
      OBVIOUS
    <3>1. Up(x) \in F
      BY DEF F
    <3>3. \A y \in S : x <= y => m <= y
      OBVIOUS
    <3>4. Up(x) \subseteq s
      BY <2>3, <3>3
    <3>2. m \in Up(m) /\ m \notin Up(x)
      OBVIOUS
    <3>. QED
      BY <2>2, <2>3, <3>1, <3>2, <3>4
  <2>. QED
    BY <2>4
<1>. QED
  BY <1>1, <1>2

(* A strict total order of S, as a set of pairs                            *)
StrictOrder(R, S) ==
  /\ \A x \in S : <<x, x>> \notin R
  /\ \A x, y \in S : x # y => <<x, y>> \in R \/ <<y, x>> \in R
  /\ \A x, y, z \in S : <<x, y>> \in R /\ <<y, z>> \in R => <<x, z>> \in R

(* A finite set in a strict order has a last element.                      *)
LEMMA LastOne ==
  ASSUME NEW S, IsFiniteSet(S), S # {}, NEW R, StrictOrder(R, S)
  PROVE  \E m \in S : \A x \in S \ {m} : <<x, m>> \in R
<1> DEFINE Up(x) == {y \in S : y = x \/ <<x, y>> \in R}
           F == {Up(x) : x \in S}
<1>1. F # {} /\ \A s \in F : IsFiniteSet(s)
  <2>1. \A x \in S : Up(x) \subseteq S
    OBVIOUS
  <2>2. \A x \in S : IsFiniteSet(Up(x))
    BY <2>1, FS_Subset
  <2> HIDE DEF Up
  <2>3. F # {}
    OBVIOUS
  <2>. QED
    BY <2>2, <2>3
<1> HIDE DEF F
<1>2. PICK s \in F : \A t \in F : t \subseteq s => t = s
  BY <1>1, SmallestSet
<1>3. PICK m \in S : s = Up(m)
  BY <1>2 DEF F
<1>4. ASSUME NEW x \in S \ {m} PROVE <<x, m>> \in R
  <2> SUFFICES ASSUME <<x, m>> \notin R PROVE FALSE
    OBVIOUS
  <2>1. <<m, x>> \in R
    BY DEF StrictOrder
  <2>2. Up(x) \subseteq Up(m)
    BY <2>1 DEF StrictOrder
  <2>3. Up(x) \in F
    BY DEF F
  <2>4. m \in Up(m) /\ m \notin Up(x)
    OBVIOUS
  <2>. QED
    BY <1>2, <1>3, <2>2, <2>3, <2>4
<1>. QED
  BY <1>4

Preceding(R, S, x) == {y \in S : <<y, x>> \in R}

(* Every rank is taken: for each k some member has k - 1 before it.        *)
LEMMA RankTaken ==
  ASSUME NEW S, IsFiniteSet(S), NEW R, StrictOrder(R, S)
  PROVE  \A k \in 1 .. Cardinality(S) :
           \E x \in S : Cardinality(Preceding(R, S, x)) = k - 1
<1> DEFINE Before(x, s) == {y \in s : <<y, x>> \in R}
           Bad == {s \in SUBSET S :
                     ~ \A k \in 1 .. Cardinality(s) :
                         \E x \in s : Cardinality(Before(x, s)) = k - 1}
<1>0. \A s \in SUBSET S : IsFiniteSet(s) /\ Cardinality(s) \in Nat
  BY FS_Subset, FS_CardinalityType
<1>1. Bad = {}
  <2> SUFFICES ASSUME Bad # {} PROVE FALSE
    OBVIOUS
  <2>1. \A s \in Bad : IsFiniteSet(s)
    BY <1>0
  <2> HIDE DEF Bad
  <2>2. PICK s \in Bad : \A t \in Bad : t \subseteq s => t = s
    BY <2>1, SmallestSet
  <2>3. s \subseteq S /\ IsFiniteSet(s) /\ Cardinality(s) \in Nat
    BY <1>0, <2>2 DEF Bad
  <2>4. PICK k \in 1 .. Cardinality(s) : \A x \in s : Cardinality(Before(x, s)) # k - 1
    BY <2>2 DEF Bad
  <2>5. s # {}
    BY <2>3, <2>4, FS_EmptySet
  <2>6. StrictOrder(R, s)
    BY <2>3 DEF StrictOrder
  <2>7. PICK m \in s : \A x \in s \ {m} : <<x, m>> \in R
    BY <2>3, <2>5, <2>6, LastOne
  <2>8. PICK t : t = s \ {m}
    OBVIOUS
  <2>9. Cardinality(t) = Cardinality(s) - 1 /\ t \subseteq S /\ t \notin Bad
    <3>1. Cardinality(t) = Cardinality(s) - 1
      BY <2>3, <2>7, <2>8, FS_RemoveElement
    <3>2. t \subseteq s /\ t # s
      BY <2>7, <2>8
    <3>. QED
      BY <2>2, <2>3, <3>1, <3>2
  <2>10. Before(m, s) = t
    BY <2>6, <2>7, <2>8 DEF StrictOrder
  <2>11. k # Cardinality(s)
    BY <2>3, <2>4, <2>7, <2>9, <2>10
  <2>12. k \in 1 .. Cardinality(t)
    BY <2>3, <2>4, <2>9, <2>11
  <2>13. PICK x \in t : Cardinality(Before(x, t)) = k - 1
    BY <2>9, <2>12 DEF Bad
  <2>14. <<m, x>> \notin R
    BY <2>6, <2>7, <2>8 DEF StrictOrder
  <2>15. Before(x, s) = Before(x, t)
    BY <2>8, <2>14
  <2>. QED
    BY <2>4, <2>8, <2>13, <2>15
<1>2. S \notin Bad
  BY <1>1
<1>. QED
  BY <1>2 DEF Preceding

(* A finite list has finitely many values, no more than it is long.        *)
LEMMA FiniteRange ==
  ASSUME NEW f, IsFiniteSet(DOMAIN f)
  PROVE  IsFiniteSet(Range(f)) /\ Cardinality(Range(f)) <= Cardinality(DOMAIN f)
<1> DEFINE g == [x \in DOMAIN f |-> f[x]]
<1>1. g \in Surjection(DOMAIN f, Range(f))
  BY DEF Surjection, Range
<1>. QED
  BY <1>1, FS_Surjection

-----------------------------------------------------------------------------
(* Integers *)

(* Division rounds down                                                    *)
LEMMA Floor ==
  ASSUME NEW a \in Int, NEW b \in Nat \ {0}
  PROVE  /\ a \div b \in Int /\ a % b \in 0 .. b - 1
         /\ a = b * (a \div b) + (a % b)
OBVIOUS

(* The bounds of a floored division, for the solver.                       *)
LEMMA FloorBounds ==
  ASSUME NEW a \in Int, NEW b \in Nat \ {0}
  PROVE  /\ b * (a \div b) <= a /\ a < b * (a \div b) + b
         /\ a >= 0 => a \div b \in Nat
BY Floor

(* A product grows with its factors, ...                                   *)
LEMMA TimesMonotone ==
  ASSUME NEW a \in Int, NEW b \in Int, NEW c \in Nat, a <= b
  PROVE  c * a <= c * b
<1>1. b - a \in Nat
  OBVIOUS
<1>2. c * (b - a) >= 0
  BY <1>1
<1>3. c * (b - a) = c * b - c * a
  OBVIOUS
<1>. QED
  BY <1>2, <1>3

(* ... and a common factor can be taken out.                               *)
LEMMA TimesCancels ==
  ASSUME NEW a \in Int, NEW b \in Int, NEW c \in Nat \ {0}, c * a < c * b
  PROVE  a < b
<1> SUFFICES ASSUME b <= a PROVE FALSE
  OBVIOUS
<1>1. c * b <= c * a
  BY TimesMonotone
<1>2. c * a \in Int /\ c * b \in Int
  OBVIOUS
<1>. QED
  BY <1>1, <1>2
-----------------------------------------------------------------------------
(* The fold *)

Pick(s) == CHOOSE x \in s : TRUE

Unfolds(g, f, D) ==
  g = [s \in D |-> IF s = {} THEN 0 ELSE f[Pick(s)] + g[s \ {Pick(s)}]]

Iter(f, S) == CHOOSE g : Unfolds(g, f, SUBSET S)

(* The library's sum, as the function its CHOOSE picks.                    *)
LEMMA SumIsIter ==
  ASSUME NEW f, NEW S
  PROVE  SumFunctionOnSet(f, S) = Iter(f, S)[S]
BY Zenon DEF SumFunctionOnSet, FoldFunctionOnSet, MapThenFoldSet, Iter, Unfolds, Pick

(* The element a sum takes next is one of those left.                      *)
LEMMA PickIn ==
  ASSUME NEW s, s # {}
  PROVE  Pick(s) \in s
BY DEF Pick

(* Taking it leaves one fewer.                                             *)
LEMMA PickShrinks ==
  ASSUME NEW s, IsFiniteSet(s), s # {}
  PROVE  /\ Pick(s) \in s
         /\ IsFiniteSet(s \ {Pick(s)})
         /\ Cardinality(s) \in Nat
         /\ Cardinality(s \ {Pick(s)}) = Cardinality(s) - 1
         /\ Cardinality(s) # 0
BY PickIn, FS_RemoveElement, FS_CardinalityType, FS_EmptySet

(* The fold is unfolded for the sets up to a size, whatever the size ...   *)
Small(S, n) == {s \in SUBSET S : Cardinality(s) <= n}

(* A sum over all sets of up to n is one over those of up to n + 1.        *)
LEMMA SmallUnfold ==
  ASSUME NEW f, NEW S, IsFiniteSet(S), NEW n \in Nat,
         NEW g, Unfolds(g, f, Small(S, n))
  PROVE  \E h : Unfolds(h, f, Small(S, n + 1))
<1> DEFINE h == [s \in Small(S, n + 1) |->
                   IF s = {} THEN 0 ELSE f[Pick(s)] + g[s \ {Pick(s)}]]
<1>0. \A s \in Small(S, n + 1) : IsFiniteSet(s) /\ s \subseteq S
  BY FS_Subset DEF Small
<1>1. ASSUME NEW s \in Small(S, n + 1), s # {}
      PROVE  s \ {Pick(s)} \in Small(S, n) \cap Small(S, n + 1)
  <2>1. /\ Pick(s) \in s
        /\ Cardinality(s) \in Nat
        /\ Cardinality(s \ {Pick(s)}) = Cardinality(s) - 1
    BY <1>0, <1>1, PickShrinks
  <2>2. Cardinality(s) <= n + 1 /\ s \subseteq S
    BY DEF Small
  <2>3. Cardinality(s \ {Pick(s)}) <= n /\ Cardinality(s \ {Pick(s)}) <= n + 1
    BY <2>1, <2>2
  <2>. QED
    BY <2>2, <2>3 DEF Small
<1>2. ASSUME NEW s \in Small(S, n) \cap Small(S, n + 1)
      PROVE  h[s] = g[s]
  <2>1. g[s] = IF s = {} THEN 0 ELSE f[Pick(s)] + g[s \ {Pick(s)}]
    BY Zenon DEF Unfolds
  <2>2. h[s] = IF s = {} THEN 0 ELSE f[Pick(s)] + g[s \ {Pick(s)}]
    OBVIOUS
  <2>. QED
    BY <2>1, <2>2
<1>3. \A s \in Small(S, n + 1) : s # {} => h[s \ {Pick(s)}] = g[s \ {Pick(s)}]
  BY <1>1, <1>2
<1>4. Unfolds(h, f, Small(S, n + 1))
  BY <1>3 DEF Unfolds
<1>. QED
  BY <1>4

(* A sum is defined on every subset: there is no least size for which it   *)
(* is not.                                                                 *)
LEMMA AllUnfold ==
  ASSUME NEW f, NEW S, IsFiniteSet(S)
  PROVE  \E g : Unfolds(g, f, SUBSET S)
<1> DEFINE Bad == {n \in Nat : ~ \E g : Unfolds(g, f, Small(S, n))}
<1>1. Bad = {}
  <2> SUFFICES ASSUME Bad # {} PROVE FALSE
    OBVIOUS
  <2>1. PICK n \in Bad : \A m \in Bad : n <= m
    BY SmallestNumber
  <2>2. CASE n = 0
    <3> DEFINE g == [s \in Small(S, 0) |-> 0]
    <3>1. \A s \in Small(S, 0) : s = {}
      BY FS_Subset, FS_EmptySet, FS_CardinalityType DEF Small
    <3>2. Unfolds(g, f, Small(S, 0))
      BY <3>1 DEF Unfolds
    <3>. QED
      BY <2>2, <3>2
  <2>3. CASE n # 0
    <3>1. n - 1 \in Nat /\ n - 1 \notin Bad /\ (n - 1) + 1 = n
      BY <2>1, <2>3
    <3>2. PICK g : Unfolds(g, f, Small(S, n - 1))
      BY <3>1
    <3>3. \E h : Unfolds(h, f, Small(S, n))
      BY <3>1, <3>2, SmallUnfold
    <3>. QED
      BY <3>3
  <2>. QED
    BY <2>2, <2>3
<1>2. Cardinality(S) \in Nat
  BY FS_CardinalityType
<1>3. Small(S, Cardinality(S)) = SUBSET S
  BY FS_Subset DEF Small
<1>. QED
  BY <1>1, <1>2, <1>3

(* ... so Iter is what its definition says ...                             *)
LEMMA IterUnfolds ==
  ASSUME NEW f, NEW S, IsFiniteSet(S)
  PROVE  \A s \in SUBSET S :
           Iter(f, S)[s] = IF s = {} THEN 0
                           ELSE f[Pick(s)] + Iter(f, S)[s \ {Pick(s)}]
<1>1. Unfolds(Iter(f, S), f, SUBSET S)
  BY AllUnfold, Zenon DEF Iter
<1>. QED
  BY <1>1, Zenon DEF Unfolds

(* ... and is the same in a set as in its subsets.                         *)
LEMMA IterAgrees ==
  ASSUME NEW f, NEW S, IsFiniteSet(S), NEW T, T \subseteq S
  PROVE  \A s \in SUBSET T : Iter(f, S)[s] = Iter(f, T)[s]
<1> DEFINE Bad == {s \in SUBSET T : Iter(f, S)[s] # Iter(f, T)[s]}
<1>0. IsFiniteSet(T)
  BY FS_Subset
<1> SUFFICES ASSUME Bad # {} PROVE FALSE
  OBVIOUS
<1>1. \A s \in Bad : IsFiniteSet(s)
  BY <1>0, FS_Subset
<1> HIDE DEF Bad
<1>2. PICK s \in Bad : \A t \in Bad : t \subseteq s => t = s
  BY <1>1, SmallestSet
<1>3. s \in SUBSET S /\ s \in SUBSET T
  BY <1>2 DEF Bad
<1>4. \A r \in SUBSET S :
        Iter(f, S)[r] = IF r = {} THEN 0 ELSE f[Pick(r)] + Iter(f, S)[r \ {Pick(r)}]
  BY IterUnfolds
<1>5. \A r \in SUBSET T :
        Iter(f, T)[r] = IF r = {} THEN 0 ELSE f[Pick(r)] + Iter(f, T)[r \ {Pick(r)}]
  BY <1>0, IterUnfolds
<1>6. CASE s = {}
  BY <1>2, <1>3, <1>4, <1>5, <1>6 DEF Bad
<1>7. CASE s # {}
  <2>1. Pick(s) \in s
    BY <1>7, PickIn
  <2>2. s \ {Pick(s)} \notin Bad
    BY <1>2, <2>1
  <2>3. Iter(f, S)[s \ {Pick(s)}] = Iter(f, T)[s \ {Pick(s)}]
    BY <1>2, <2>2 DEF Bad
  <2>. QED
    BY <1>2, <1>3, <1>4, <1>5, <1>7, <2>3 DEF Bad
<1>. QED
  BY <1>6, <1>7

-----------------------------------------------------------------------------
(* Sums *)

(* The sum over nothing.                                                   *)
LEMMA SumEmpty ==
  ASSUME NEW f
  PROVE  SumFunctionOnSet(f, {}) = 0
<1>1. Iter(f, {})[{}] = 0
  BY IterUnfolds, FS_EmptySet
<1>. QED
  BY <1>1, SumIsIter

(* The sum over something is what is taken next and the rest.              *)
LEMMA SumPick ==
  ASSUME NEW f, NEW S, IsFiniteSet(S), S # {}
  PROVE  SumFunctionOnSet(f, S) = f[Pick(S)] + SumFunctionOnSet(f, S \ {Pick(S)})
<1> DEFINE T == S \ {Pick(S)}
<1>1. Iter(f, S)[S] = f[Pick(S)] + Iter(f, S)[T]
  BY IterUnfolds
<1>2. Iter(f, S)[T] = Iter(f, T)[T]
  BY IterAgrees
<1>. QED
  BY <1>1, <1>2, SumIsIter

(* A sum of integers is one.                                               *)
LEMMA SumType ==
  ASSUME NEW f, NEW S, IsFiniteSet(S), \A x \in S : f[x] \in Int
  PROVE  SumFunctionOnSet(f, S) \in Int
<1> DEFINE Bad == {s \in SUBSET S : SumFunctionOnSet(f, s) \notin Int}
<1> SUFFICES ASSUME Bad # {} PROVE FALSE
  OBVIOUS
<1>1. \A s \in Bad : IsFiniteSet(s)
  BY FS_Subset
<1> HIDE DEF Bad
<1>2. PICK s \in Bad : \A t \in Bad : t \subseteq s => t = s
  BY <1>1, SmallestSet
<1>3. s # {}
  <2>1. SumFunctionOnSet(f, {}) = 0
    BY SumEmpty
  <2>2. SumFunctionOnSet(f, s) \notin Int
    BY <1>2 DEF Bad
  <2>. QED
    BY <2>1, <2>2
<1>4. Pick(s) \in s /\ s \ {Pick(s)} \notin Bad
  BY <1>2, <1>3, PickIn
<1>5. SumFunctionOnSet(f, s \ {Pick(s)}) \in Int /\ f[Pick(s)] \in Int
  BY <1>2, <1>4 DEF Bad
<1>6. SumFunctionOnSet(f, s) = f[Pick(s)] + SumFunctionOnSet(f, s \ {Pick(s)})
  BY <1>1, <1>3, SumPick
<1>. QED
  BY <1>2, <1>5, <1>6 DEF Bad

(* Whichever member is taken out first, the sum is the same.               *)
LEMMA SumRemove ==
  ASSUME NEW f, NEW S, IsFiniteSet(S), \A x \in S : f[x] \in Int, NEW x \in S
  PROVE  SumFunctionOnSet(f, S) = f[x] + SumFunctionOnSet(f, S \ {x})
<1> DEFINE Sum(s) == SumFunctionOnSet(f, s)
           Bad == {s \in SUBSET S : \E y \in s : Sum(s) # f[y] + Sum(s \ {y})}
<1>0. \A s \in SUBSET S : IsFiniteSet(s) /\ Sum(s) \in Int
  BY FS_Subset, SumType
<1>00. \A s \in SUBSET S : s # {} => Sum(s) = f[Pick(s)] + Sum(s \ {Pick(s)})
  BY <1>0, SumPick
<1> HIDE DEF Sum
<1>1. Bad = {}
  <2> SUFFICES ASSUME Bad # {} PROVE FALSE
    OBVIOUS
  <2>1. \A s \in Bad : IsFiniteSet(s)
    BY <1>0
  <2> HIDE DEF Bad
  <2>2. PICK s \in Bad : \A t \in Bad : t \subseteq s => t = s
    BY <2>1, SmallestSet
  <2>3. PICK y \in s : Sum(s) # f[y] + Sum(s \ {y})
    BY <2>2 DEF Bad
  <2> DEFINE p == Pick(s)
  <2>4. p \in s /\ Sum(s) = f[p] + Sum(s \ {p})
    BY <1>00, <2>2, <2>3, PickIn DEF Bad
  <2> HIDE DEF p
  <2>5. p # y
    BY <2>3, <2>4
  <2>6. s \ {p} \notin Bad /\ s \ {y} \notin Bad
    BY <2>2, <2>3, <2>4
  <2>7. /\ Sum(s \ {p}) = f[y] + Sum((s \ {p}) \ {y})
        /\ Sum(s \ {y}) = f[p] + Sum((s \ {y}) \ {p})
    BY <2>2, <2>3, <2>4, <2>5, <2>6 DEF Bad
  <2>8. PICK rest : rest = (s \ {p}) \ {y}
    OBVIOUS
  <2>9. rest = (s \ {y}) \ {p}
    BY <2>8
  <2>10. f[p] \in Int /\ f[y] \in Int /\ Sum(rest) \in Int
    BY <1>0, <2>2, <2>3, <2>4, <2>8 DEF Bad
  <2>11. Sum(s \ {p}) = f[y] + Sum(rest) /\ Sum(s \ {y}) = f[p] + Sum(rest)
    BY <2>7, <2>8, <2>9
  <2>. QED
    BY <2>3, <2>4, <2>10, <2>11
<1>2. Sum(S) = f[x] + Sum(S \ {x})
  BY <1>1
<1>. QED
  BY <1>2 DEF Sum

(* A member that is added adds its value.                                  *)
LEMMA SumAdd ==
  ASSUME NEW f, NEW S, IsFiniteSet(S), NEW x, x \notin S,
         \A y \in S \cup {x} : f[y] \in Int
  PROVE  SumFunctionOnSet(f, S \cup {x}) = SumFunctionOnSet(f, S) + f[x]
<1>1. PICK T : T = S \cup {x}
  OBVIOUS
<1>2. IsFiniteSet(T) /\ x \in T /\ T \ {x} = S /\ \A y \in T : f[y] \in Int
  BY <1>1, FS_AddElement
<1>3. SumFunctionOnSet(f, T) = f[x] + SumFunctionOnSet(f, S)
  BY <1>2, SumRemove
<1>4. SumFunctionOnSet(f, S) \in Int /\ f[x] \in Int
  BY SumType
<1>. QED
  BY <1>1, <1>3, <1>4

(* Only the values on the set count.                                       *)
LEMMA SumSame ==
  ASSUME NEW f, NEW g, NEW S, IsFiniteSet(S), \A x \in S : f[x] = g[x]
  PROVE  SumFunctionOnSet(f, S) = SumFunctionOnSet(g, S)
<1> DEFINE Bad == {s \in SUBSET S : SumFunctionOnSet(f, s) # SumFunctionOnSet(g, s)}
<1> SUFFICES ASSUME Bad # {} PROVE FALSE
  OBVIOUS
<1>1. \A s \in Bad : IsFiniteSet(s)
  BY FS_Subset
<1> HIDE DEF Bad
<1>2. PICK s \in Bad : \A t \in Bad : t \subseteq s => t = s
  BY <1>1, SmallestSet
<1>3. s \subseteq S /\ IsFiniteSet(s) /\ SumFunctionOnSet(f, s) # SumFunctionOnSet(g, s)
  BY <1>1, <1>2 DEF Bad
<1>4. s # {}
  <2>1. SumFunctionOnSet(f, {}) = 0 /\ SumFunctionOnSet(g, {}) = 0
    BY SumEmpty
  <2>. QED
    BY <1>3, <2>1
<1>5. Pick(s) \in s /\ s \ {Pick(s)} \notin Bad
  BY <1>2, <1>4, PickIn
<1>6. SumFunctionOnSet(f, s \ {Pick(s)}) = SumFunctionOnSet(g, s \ {Pick(s)})
  BY <1>3, <1>5 DEF Bad
<1>7. /\ SumFunctionOnSet(f, s) = f[Pick(s)] + SumFunctionOnSet(f, s \ {Pick(s)})
      /\ SumFunctionOnSet(g, s) = g[Pick(s)] + SumFunctionOnSet(g, s \ {Pick(s)})
  BY <1>3, <1>4, SumPick
<1>8. f[Pick(s)] = g[Pick(s)]
  BY <1>3, <1>5
<1>. QED
  BY <1>3, <1>6, <1>7, <1>8

(* The order of the sum does not matter: any element can be the next.      *)
LEMMA SumUnfolds ==
  ASSUME NEW f, NEW S, IsFiniteSet(S), \A x \in S : f[x] \in Int
  PROVE  \A s \in SUBSET S :
           /\ IsFiniteSet(s)
           /\ SumFunctionOnSet(f, s) \in Int
           /\ \A x \in s : SumFunctionOnSet(f, s) = f[x] + SumFunctionOnSet(f, s \ {x})
<1> SUFFICES ASSUME NEW s \in SUBSET S
             PROVE  /\ IsFiniteSet(s)
                    /\ SumFunctionOnSet(f, s) \in Int
                    /\ \A x \in s : SumFunctionOnSet(f, s) = f[x] + SumFunctionOnSet(f, s \ {x})
  OBVIOUS
<1>1. IsFiniteSet(s) /\ \A x \in s : f[x] \in Int
  BY FS_Subset
<1>. QED
  BY <1>1, SumType, SumRemove

(* Two sets apart sum apart.                                               *)
LEMMA SumSplit ==
  ASSUME NEW f, NEW S, IsFiniteSet(S), NEW T, IsFiniteSet(T), S \cap T = {},
         \A x \in S \cup T : f[x] \in Int
  PROVE  SumFunctionOnSet(f, S \cup T) = SumFunctionOnSet(f, S) + SumFunctionOnSet(f, T)
<1> DEFINE Sum(s) == SumFunctionOnSet(f, s)
           Bad == {s \in SUBSET T : Sum(S \cup s) # Sum(S) + Sum(s)}
<1>0. PICK U : U = S \cup T
  OBVIOUS
<1>1. IsFiniteSet(U) /\ \A x \in U : f[x] \in Int
  BY <1>0, FS_Union
<1> HIDE DEF Bad
<1>2. \A s \in SUBSET U : /\ IsFiniteSet(s)
                         /\ Sum(s) \in Int
                         /\ \A x \in s : Sum(s) = f[x] + Sum(s \ {x})
  BY <1>1, SumUnfolds
<1>3. Sum({}) = 0
  BY SumEmpty
<1> HIDE DEF Sum
<1>4. Bad = {}
  <2> SUFFICES ASSUME Bad # {} PROVE FALSE
    OBVIOUS
  <2>1. \A s \in Bad : IsFiniteSet(s)
    BY <1>0, <1>2 DEF Bad
  <2>2. PICK s \in Bad : \A t \in Bad : t \subseteq s => t = s
    BY <2>1, SmallestSet
  <2>3. s \subseteq T /\ Sum(S \cup s) # Sum(S) + Sum(s)
    BY <2>2 DEF Bad
  <2>4. Sum(S) \in Int /\ s # {}
    <3>1. Sum(S) \in Int
      BY <1>0, <1>2
    <3>2. CASE s = {}
      <4>1. S \cup s = S
        BY <3>2
      <4>. QED
        BY <1>3, <2>3, <3>1, <3>2, <4>1
    <3>. QED
      BY <3>1, <3>2
  <2>5. PICK x \in s : TRUE
    BY <2>4
  <2>6. PICK t : t = s \ {x}
    OBVIOUS
  <2>7. t \notin Bad /\ t \subseteq T
    BY <2>2, <2>3, <2>5, <2>6
  <2>8. Sum(S \cup t) = Sum(S) + Sum(t)
    BY <2>7 DEF Bad
  <2>9. Sum(s) = f[x] + Sum(t)
    BY <1>0, <1>2, <2>3, <2>5, <2>6
  <2>10. PICK u : u = S \cup s
    OBVIOUS
  <2>11. u \subseteq S \cup T /\ x \in u /\ u \ {x} = S \cup t
    BY <2>3, <2>5, <2>6, <2>10
  <2>12. Sum(u) = f[x] + Sum(S \cup t)
    BY <1>0, <1>2, <2>11
  <2>13. f[x] \in Int /\ Sum(t) \in Int
    BY <1>0, <1>2, <2>3, <2>5, <2>7
  <2>. QED
    BY <2>3, <2>4, <2>8, <2>9, <2>10, <2>12, <2>13
<1>5. Sum(S \cup T) = Sum(S) + Sum(T)
  BY <1>4 DEF Bad
<1>. QED
  BY <1>5 DEF Sum

(* Sums add, ...                                                           *)
LEMMA SumPlus ==
  ASSUME NEW f, NEW g, NEW h, NEW S, IsFiniteSet(S),
         \A x \in S : f[x] \in Int /\ g[x] \in Int /\ h[x] = f[x] + g[x]
  PROVE  SumFunctionOnSet(h, S) = SumFunctionOnSet(f, S) + SumFunctionOnSet(g, S)
<1> DEFINE F(s) == SumFunctionOnSet(f, s)
           G(s) == SumFunctionOnSet(g, s)
           H(s) == SumFunctionOnSet(h, s)
           Bad == {s \in SUBSET S : H(s) # F(s) + G(s)}
<1> HIDE DEF Bad
<1>0. \A x \in S : f[x] \in Int /\ g[x] \in Int /\ h[x] \in Int
  OBVIOUS
<1>1. \A s \in SUBSET S : /\ IsFiniteSet(s)
                         /\ F(s) \in Int
                         /\ \A x \in s : F(s) = f[x] + F(s \ {x})
  BY <1>0, SumUnfolds
<1>2. \A s \in SUBSET S : /\ IsFiniteSet(s)
                         /\ G(s) \in Int
                         /\ \A x \in s : G(s) = g[x] + G(s \ {x})
  BY <1>0, SumUnfolds
<1>3. \A s \in SUBSET S : /\ IsFiniteSet(s)
                         /\ H(s) \in Int
                         /\ \A x \in s : H(s) = h[x] + H(s \ {x})
  BY <1>0, SumUnfolds
<1>4. F({}) = 0 /\ G({}) = 0 /\ H({}) = 0
  BY SumEmpty
<1> HIDE DEF F, G, H
<1>5. Bad = {}
  <2> SUFFICES ASSUME Bad # {} PROVE FALSE
    OBVIOUS
  <2>1. \A s \in Bad : IsFiniteSet(s)
    BY <1>1 DEF Bad
  <2>2. PICK s \in Bad : \A t \in Bad : t \subseteq s => t = s
    BY <2>1, SmallestSet
  <2>3. s \subseteq S /\ H(s) # F(s) + G(s)
    BY <2>2 DEF Bad
  <2>4. PICK x \in s : TRUE
    <3>1. CASE s = {}
      BY <1>4, <2>3, <3>1
    <3>. QED
      BY <3>1
  <2>5. PICK t : t = s \ {x}
    OBVIOUS
  <2>6. t \subseteq S /\ H(t) = F(t) + G(t)
    BY <2>2, <2>3, <2>4, <2>5 DEF Bad
  <2>7. F(s) = f[x] + F(t) /\ G(s) = g[x] + G(t) /\ H(s) = h[x] + H(t)
    BY <1>1, <1>2, <1>3, <2>3, <2>4, <2>5
  <2>8. F(t) \in Int /\ G(t) \in Int /\ f[x] \in Int /\ g[x] \in Int /\ h[x] = f[x] + g[x]
    BY <1>1, <1>2, <2>3, <2>4, <2>6
  <2>. QED
    BY <2>3, <2>6, <2>7, <2>8
<1>6. H(S) = F(S) + G(S)
  BY <1>5 DEF Bad
<1>. QED
  BY <1>6 DEF F, G, H

Integral(f, S) == \A x \in S : f[x] \in Int

(* The same of a function that is integral where it is summed.             *)
LEMMA IntegralUnfolds ==
  ASSUME NEW f, NEW S, IsFiniteSet(S), Integral(f, S)
  PROVE  \A s \in SUBSET S :
           /\ IsFiniteSet(s)
           /\ SumFunctionOnSet(f, s) \in Int
           /\ \A x \in s : SumFunctionOnSet(f, s) = f[x] + SumFunctionOnSet(f, s \ {x})
BY SumUnfolds DEF Integral

(* ... scale, ...                                                          *)
LEMMA SumScale ==
  ASSUME NEW f, NEW h, NEW k \in Int, NEW S, IsFiniteSet(S),
         \A x \in S : f[x] \in Int /\ h[x] = k * f[x]
  PROVE  SumFunctionOnSet(h, S) = k * SumFunctionOnSet(f, S)
<1> DEFINE F(s) == SumFunctionOnSet(f, s)
           H(s) == SumFunctionOnSet(h, s)
           Bad == {s \in SUBSET S : H(s) # k * F(s)}
<1> HIDE DEF Bad
<1>1. Integral(f, S) /\ Integral(h, S)
  BY DEF Integral
<1>2. \A s \in SUBSET S : /\ IsFiniteSet(s)
                         /\ F(s) \in Int /\ H(s) \in Int
                         /\ \A x \in s : /\ F(s) = f[x] + F(s \ {x})
                                       /\ H(s) = h[x] + H(s \ {x})
  BY <1>1, IntegralUnfolds
<1>3. F({}) = 0 /\ H({}) = 0
  BY SumEmpty
<1> HIDE DEF F, H
<1>4. Bad = {}
  <2> SUFFICES ASSUME Bad # {} PROVE FALSE
    OBVIOUS
  <2>1. \A s \in Bad : IsFiniteSet(s)
    BY <1>2 DEF Bad
  <2>2. PICK s \in Bad : \A t \in Bad : t \subseteq s => t = s
    BY <2>1, SmallestSet
  <2>3. s \subseteq S /\ H(s) # k * F(s)
    BY <2>2 DEF Bad
  <2>4. PICK x \in s : TRUE
    <3>1. CASE s = {}
      BY <1>3, <2>3, <3>1
    <3>. QED
      BY <3>1
  <2>5. PICK t : t = s \ {x}
    OBVIOUS
  <2>6. t \subseteq S /\ H(t) = k * F(t)
    BY <2>2, <2>3, <2>4, <2>5 DEF Bad
  <2>7. F(s) = f[x] + F(t) /\ H(s) = h[x] + H(t)
    BY <1>2, <2>3, <2>4, <2>5
  <2>8. F(t) \in Int /\ f[x] \in Int /\ h[x] = k * f[x]
    BY <1>2, <2>3, <2>4, <2>6
  <2>9. k * (f[x] + F(t)) = k * f[x] + k * F(t)
    BY <2>8
  <2>. QED
    BY <2>3, <2>6, <2>7, <2>8, <2>9
<1>5. H(S) = k * F(S)
  BY <1>4 DEF Bad
<1>. QED
  BY <1>5 DEF F, H

(* ... and compare term by term.                                           *)
LEMMA SumAtMost ==
  ASSUME NEW f, NEW g, NEW S, IsFiniteSet(S),
         \A x \in S : f[x] \in Int /\ g[x] \in Int /\ f[x] <= g[x]
  PROVE  SumFunctionOnSet(f, S) <= SumFunctionOnSet(g, S)
<1> DEFINE F(s) == SumFunctionOnSet(f, s)
           G(s) == SumFunctionOnSet(g, s)
           Bad == {s \in SUBSET S : ~ (F(s) <= G(s))}
<1>1. \A s \in SUBSET S : /\ IsFiniteSet(s)
                         /\ F(s) \in Int
                         /\ \A x \in s : F(s) = f[x] + F(s \ {x})
  BY SumUnfolds
<1>2. \A s \in SUBSET S : /\ IsFiniteSet(s)
                         /\ G(s) \in Int
                         /\ \A x \in s : G(s) = g[x] + G(s \ {x})
  BY SumUnfolds
<1>3. F({}) = 0 /\ G({}) = 0
  BY SumEmpty
<1> HIDE DEF F, G
<1>4. Bad = {}
  <2> SUFFICES ASSUME Bad # {} PROVE FALSE
    OBVIOUS
  <2>1. \A s \in Bad : IsFiniteSet(s)
    BY <1>1
  <2> HIDE DEF Bad
  <2>2. PICK s \in Bad : \A t \in Bad : t \subseteq s => t = s
    BY <2>1, SmallestSet
  <2>3. s \subseteq S /\ ~ (F(s) <= G(s))
    BY <2>2 DEF Bad
  <2>4. PICK x \in s : TRUE
    <3>1. CASE s = {}
      BY <1>3, <2>3, <3>1
    <3>. QED
      BY <3>1
  <2>5. PICK t : t = s \ {x}
    OBVIOUS
  <2>6. t \subseteq S /\ F(t) <= G(t)
    BY <2>2, <2>3, <2>4, <2>5 DEF Bad
  <2>7. F(s) = f[x] + F(t) /\ G(s) = g[x] + G(t)
    BY <1>1, <1>2, <2>3, <2>4, <2>5
  <2>8. F(t) \in Int /\ G(t) \in Int /\ f[x] \in Int /\ g[x] \in Int /\ f[x] <= g[x]
    BY <1>1, <1>2, <2>3, <2>4, <2>6
  <2>. QED
    BY <2>3, <2>6, <2>7, <2>8
<1>5. F(S) <= G(S)
  BY <1>4
<1>. QED
  BY <1>5 DEF F, G

(* A constant is added once for each member.                               *)
LEMMA SumConstant ==
  ASSUME NEW f, NEW k \in Int, NEW S, IsFiniteSet(S), \A x \in S : f[x] = k
  PROVE  SumFunctionOnSet(f, S) = k * Cardinality(S)
<1> DEFINE F(s) == SumFunctionOnSet(f, s)
           Bad == {s \in SUBSET S : F(s) # k * Cardinality(s)}
<1>1. \A s \in SUBSET S : /\ IsFiniteSet(s)
                         /\ F(s) \in Int
                         /\ \A x \in s : F(s) = f[x] + F(s \ {x})
  BY SumUnfolds
<1>2. \A s \in SUBSET S : /\ Cardinality(s) \in Nat
                         /\ \A x \in s : Cardinality(s \ {x}) = Cardinality(s) - 1
  BY <1>1, FS_CardinalityType, FS_RemoveElement
<1>3. F({}) = 0 /\ Cardinality({}) = 0
  BY SumEmpty, FS_EmptySet
<1> HIDE DEF F
<1>4. Bad = {}
  <2> SUFFICES ASSUME Bad # {} PROVE FALSE
    OBVIOUS
  <2>1. \A s \in Bad : IsFiniteSet(s)
    BY <1>1
  <2> HIDE DEF Bad
  <2>2. PICK s \in Bad : \A t \in Bad : t \subseteq s => t = s
    BY <2>1, SmallestSet
  <2>3. s \subseteq S /\ F(s) # k * Cardinality(s)
    BY <2>2 DEF Bad
  <2>4. PICK x \in s : TRUE
    <3>1. CASE s = {}
      BY <1>3, <2>3, <3>1
    <3>. QED
      BY <3>1
  <2>5. PICK t : t = s \ {x}
    OBVIOUS
  <2>6. t \subseteq S /\ F(t) = k * Cardinality(t)
    BY <2>2, <2>3, <2>4, <2>5 DEF Bad
  <2>7. F(s) = f[x] + F(t) /\ Cardinality(t) = Cardinality(s) - 1
    BY <1>1, <1>2, <2>3, <2>4, <2>5
  <2>8. f[x] = k /\ Cardinality(s) \in Nat
    BY <1>2, <2>3, <2>4
  <2>9. k * (Cardinality(s) - 1) = k * Cardinality(s) - k
    BY <2>8
  <2>. QED
    BY <2>3, <2>6, <2>7, <2>8, <2>9
<1>5. F(S) = k * Cardinality(S)
  BY <1>4
<1>. QED
  BY <1>5 DEF F

(* A whole shared out in proportion, each share rounded down: never more   *)
(* than the whole is given, and less than one for each member is lost.     *)
LEMMA FloorShares ==
  ASSUME NEW S, IsFiniteSet(S), S # {}, NEW part, \A x \in S : part[x] \in Nat,
         NEW base, base = SumFunctionOnSet(part, S), base > 0,
         NEW whole \in Nat,
         NEW gain, \A x \in S : gain[x] = (whole * part[x]) \div base
  PROVE  /\ \A x \in S : gain[x] \in Nat
         /\ SumFunctionOnSet(gain, S) \in Int
         /\ SumFunctionOnSet(gain, S) <= whole
         /\ whole - SumFunctionOnSet(gain, S) < Cardinality(S)
<1> DEFINE due   == [x \in S |-> whole * part[x]]
           given == [x \in S |-> base * gain[x]]
           more  == [x \in S |-> base * gain[x] + (base - 1)]
           slack == [x \in S |-> base - 1]
           total == SumFunctionOnSet(gain, S)
<1>1. base \in Nat \ {0}
  <2>1. \A x \in S : part[x] \in Int
    OBVIOUS
  <2>2. base \in Int
    BY <2>1, SumType
  <2>. QED
    BY <2>2
<1>2. ASSUME NEW x \in S
      PROVE  /\ gain[x] \in Nat
             /\ due[x] \in Nat /\ given[x] \in Nat
             /\ given[x] <= due[x] /\ due[x] < given[x] + base
  <2>1. whole * part[x] \in Nat
    OBVIOUS
  <2>2. PICK d \in Int : d = whole * part[x] /\ d >= 0
    BY <2>1
  <2>3. PICK e : e = gain[x]
    OBVIOUS
  <2>4. e = d \div base
    BY <2>2, <2>3
  <2>5. e \in Nat
    BY <1>1, <2>2, <2>4, FloorBounds, Zenon
  <2>6. base * e <= d /\ d < base * e + base
    BY <1>1, <2>2, <2>4, FloorBounds, Zenon
  <2>7. base * e \in Nat
    BY <1>1, <2>5
  <2>. QED
    BY <2>2, <2>3, <2>5, <2>6, <2>7
<1>3. \A x \in S : gain[x] \in Int
  BY <1>2
<1>4. total \in Int
  BY <1>3, SumType
<1>5. SumFunctionOnSet(due, S) = whole * base
  BY SumScale
<1>6. SumFunctionOnSet(given, S) = base * total
  BY <1>1, <1>3, SumScale
<1>7. \A x \in S : given[x] \in Int /\ due[x] \in Int /\ slack[x] \in Int /\ more[x] \in Int
  BY <1>1, <1>2
<1>8. \A x \in S : /\ given[x] <= due[x] /\ due[x] <= more[x]
                   /\ more[x] = given[x] + slack[x] /\ slack[x] = base - 1
  BY <1>1, <1>2
<1> HIDE DEF due, given, more, slack, total
<1>9. base * total <= whole * base
  BY <1>5, <1>6, <1>7, <1>8, SumAtMost
<1>10. SumFunctionOnSet(slack, S) = (base - 1) * Cardinality(S)
  BY <1>1, <1>8, SumConstant
<1>11. SumFunctionOnSet(more, S) = SumFunctionOnSet(given, S) + SumFunctionOnSet(slack, S)
  BY <1>7, <1>8, SumPlus
<1>12. SumFunctionOnSet(due, S) <= SumFunctionOnSet(more, S)
  BY <1>7, <1>8, SumAtMost
<1>13. Cardinality(S) \in Nat \ {0}
  BY FS_CardinalityType, FS_EmptySet
<1>14. whole * base <= base * total + (base - 1) * Cardinality(S)
  BY <1>5, <1>6, <1>10, <1>11, <1>12
<1>15. PICK n \in Nat \ {0} : n = Cardinality(S)
  BY <1>13
<1>16. base * whole < base * (total + n)
  <2>1. (base - 1) * n = base * n - n
    BY <1>1
  <2>2. base * (total + n) = base * total + base * n
    BY <1>1, <1>4
  <2>3. base * whole = whole * base
    BY <1>1
  <2>4. base * whole \in Int /\ base * total \in Int /\ base * n \in Int
    BY <1>1, <1>4
  <2>. QED
    BY <1>14, <1>15, <2>1, <2>2, <2>3, <2>4
<1>17. whole < total + n
  BY <1>1, <1>4, <1>16, TimesCancels
<1>18. total <= whole
  <2>1. base * total < base * (whole + 1)
    <3>1. base * (whole + 1) = base * whole + base /\ base * whole = whole * base
      BY <1>1
    <3>2. base * whole \in Int /\ base * total \in Int
      BY <1>1, <1>4
    <3>. QED
      BY <1>1, <1>9, <3>1, <3>2
  <2>2. total < whole + 1
    BY <1>1, <1>4, <2>1, TimesCancels
  <2>. QED
    BY <1>4, <2>2
<1>. QED
  BY <1>2, <1>4, <1>15, <1>17, <1>18 DEF total
=============================================================================
