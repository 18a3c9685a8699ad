----------------------------- MODULE Sums_proofs -----------------------------
(***************************************************************************)
(* Sums over finite sets: the lemmas that the totals of an investigation   *)
(* and of the dashboards rest on.  A sum is SumFunctionOnSet(f, S), that   *)
(* of the numbers f[x] for x in S.                                         *)
(***************************************************************************)
EXTENDS Integers, FiniteSets, Functions, FiniteSetTheorems, WellFoundedInduction,
        TLAPS

-----------------------------------------------------------------------------
(***************************************************************************)
(* Induction over a finite set.  What is proved by induction is here a set *)
(* of subsets, since the provers do not find an operator.                  *)
(***************************************************************************)

(* Among subsets of a finite set there is a smallest one.                  *)
LEMMA SmallestSubset ==
  ASSUME NEW S, IsFiniteSet(S), NEW F, F \subseteq SUBSET S, F # {}
  PROVE  \E T \in F : \A U \in F : U \subseteq T => U = T
<1>1. IsWellFoundedOn(StrictSubsetOrdering(S), FiniteSubsetsOf(S))
  BY FS_StrictSubsetOrderingWellFounded
<1>2. F \subseteq FiniteSubsetsOf(S)
  BY FS_FiniteSubsetsOfFinite
<1>3. PICK T \in F : \A U \in F : ~ (<< U, T >> \in StrictSubsetOrdering(S))
  BY <1>1, <1>2, WFMin
<1> SUFFICES ASSUME NEW U \in F, U \subseteq T, U # T PROVE FALSE
  OBVIOUS
<1>4. << U, T >> \in (SUBSET S) \X (SUBSET S)
  OBVIOUS
<1>5. << U, T >> \in StrictSubsetOrdering(S)
  BY <1>4 DEF StrictSubsetOrdering
<1> QED
  BY <1>3, <1>5

(* What holds of the empty set, and of a set with one element more, holds. *)
LEMMA OneByOne ==
  ASSUME NEW S, IsFiniteSet(S), NEW F, {} \in F,
         \A T \in F : \A x \in S : T \subseteq S /\ x \notin T => T \cup { x } \in F
  PROVE  S \in F
<1> SUFFICES ASSUME S \notin F PROVE FALSE
  OBVIOUS
<1> DEFINE G == { T \in SUBSET S : T \notin F }
<1>0. G \subseteq SUBSET S /\ S \in G
  OBVIOUS
<1>1. PICK T \in G : \A U \in G : U \subseteq T => U = T
  <2> HIDE DEF G
  <2> QED
    BY <1>0, SmallestSubset
<1>2. PICK x \in T : TRUE
  BY <1>1
<1>3. T \ { x } \in F
  BY <1>1
<1>4. (T \ { x }) \cup { x } = T
  OBVIOUS
<1> QED
  BY <1>1, <1>3, <1>4

-----------------------------------------------------------------------------
(***************************************************************************)
(* The recursive definition behind a sum                                   *)
(***************************************************************************)
FirstOf(s) == CHOOSE x \in s : TRUE

Unfolds(g, f, T) ==
  g = [ s \in SUBSET T |-> IF s = {} THEN 0
                           ELSE LET x == CHOOSE x \in s : TRUE
                                IN  f[x] + g[s \ { x }] ]

(* A sum is its first number and the sum of the others.                    *)
Unfolded(f, T) ==
  SumFunctionOnSet(f, T)
    = IF T = {} THEN 0
      ELSE f[FirstOf(T)] + SumFunctionOnSet(f, T \ { FirstOf(T) })

(* The element that is taken out first                                     *)
LEMMA FirstInSet ==
  ASSUME NEW s, s # {}
  PROVE  FirstOf(s) \in s
BY DEF FirstOf

(* A sum is a value of the recursive function that unfolds it,             *)
LEMMA Unfolding ==
  ASSUME NEW f, NEW T
  PROVE  SumFunctionOnSet(f, T) = (CHOOSE g : Unfolds(g, f, T))[T]
BY DEF SumFunctionOnSet, FoldFunctionOnSet, MapThenFoldSet, Unfolds

(* whose value for a set is that for a smaller one, and one number.        *)
LEMMA UnfoldsAt ==
  ASSUME NEW f, NEW T, NEW g, Unfolds(g, f, T), NEW s \in SUBSET T
  PROVE  g[s] = IF s = {} THEN 0 ELSE f[FirstOf(s)] + g[s \ { FirstOf(s) }]
BY DEF Unfolds, FirstOf

(* If every smaller sum can be unfolded, so can this one.                  *)
LEMMA UnfoldsStep ==
  ASSUME NEW f, NEW T, IsFiniteSet(T),
         \A s \in SUBSET T : s # T => Unfolded(f, s)
  PROVE  Unfolded(f, T)
<1> DEFINE Sum(s) == SumFunctionOnSet(f, s)
           h == [ s \in SUBSET T |-> IF s = {} THEN 0
                                     ELSE f[FirstOf(s)] + Sum(s \ { FirstOf(s) }) ]
<1>1. \A s \in SUBSET T : s # T => h[s] = Sum(s)
  BY DEF Unfolded
<1>2. \A s \in SUBSET T : s # {} => s \ { FirstOf(s) } \in SUBSET T /\ s \ { FirstOf(s) } # T
  BY FirstInSet
<1>3. Unfolds(h, f, T)
  <2>1. \A s \in SUBSET T : s # {} => Sum(s \ { FirstOf(s) }) = h[s \ { FirstOf(s) }]
    BY <1>1, <1>2
  <2>2. h = [ s \in SUBSET T |-> IF s = {} THEN 0
                                 ELSE f[FirstOf(s)] + h[s \ { FirstOf(s) }] ]
    BY <2>1
  <2> QED
    BY <2>2 DEF Unfolds, FirstOf
<1> DEFINE g == CHOOSE c : Unfolds(c, f, T)
<1>4. Unfolds(g, f, T)
  BY <1>3
<1>5. Sum(T) = g[T]
  BY Unfolding
<1> HIDE DEF g, h, Sum
<1>6. \A s \in SUBSET T : g[s] = h[s]
  <2> SUFFICES ASSUME NEW z \in SUBSET T, g[z] # h[z] PROVE FALSE
    OBVIOUS
  <2> DEFINE F == { s \in SUBSET T : g[s] # h[s] }
  <2>0. F \subseteq SUBSET T /\ z \in F
    OBVIOUS
  <2>1. PICK s \in F : \A u \in F : u \subseteq s => u = s
    <3> HIDE DEF F
    <3> QED
      BY <2>0, SmallestSubset
  <2>6. s \in SUBSET T /\ g[s] # h[s]
    BY <2>1
  <2>2. s # {}
    <3>1. /\ g[s] = IF s = {} THEN 0 ELSE f[FirstOf(s)] + g[s \ { FirstOf(s) }]
          /\ h[s] = IF s = {} THEN 0 ELSE f[FirstOf(s)] + h[s \ { FirstOf(s) }]
      BY <2>6, <1>3, <1>4, UnfoldsAt
    <3> QED
      BY <2>6, <3>1
  <2>3. s \ { FirstOf(s) } \in SUBSET T /\ s \ { FirstOf(s) } \subseteq s /\ s \ { FirstOf(s) } # s
    BY <2>6, <2>2, FirstInSet
  <2>4. g[s \ { FirstOf(s) }] = h[s \ { FirstOf(s) }]
    BY <2>1, <2>3
  <2>5. g[s] = h[s]
    BY <2>6, <2>2, <2>4, <1>3, <1>4, UnfoldsAt
  <2> QED
    BY <2>6, <2>5
<1>7. g[T] = IF T = {} THEN 0 ELSE f[FirstOf(T)] + g[T \ { FirstOf(T) }]
  BY <1>4, UnfoldsAt
<1>8. T # {} => g[T \ { FirstOf(T) }] = Sum(T \ { FirstOf(T) })
  BY <1>1, <1>2, <1>6
<1> QED
  BY <1>5, <1>7, <1>8 DEF Unfolded, Sum

(* Every sum over a finite set can be unfolded.                            *)
LEMMA SumUnfolds ==
  ASSUME NEW f, NEW S, IsFiniteSet(S)
  PROVE  Unfolded(f, S)
<1> SUFFICES ASSUME ~ Unfolded(f, S) PROVE FALSE
  OBVIOUS
<1> DEFINE F == { s \in SUBSET S : ~ Unfolded(f, s) }
<1>0. F \subseteq SUBSET S /\ S \in F
  OBVIOUS
<1>1. PICK T \in F : \A u \in F : u \subseteq T => u = T
  <2> HIDE DEF F
  <2> QED
    BY <1>0, SmallestSubset
<1>2. IsFiniteSet(T) /\ \A s \in SUBSET T : s # T => Unfolded(f, s)
  BY <1>1, FS_Subset
<1> QED
  BY <1>1, <1>2, UnfoldsStep

(* There is nothing to add.                                                *)
LEMMA SumEmpty ==
  ASSUME NEW f
  PROVE  SumFunctionOnSet(f, {}) = 0
BY SumUnfolds, FS_EmptySet DEF Unfolded

-----------------------------------------------------------------------------
(***************************************************************************)
(* Numbers                                                                 *)
(***************************************************************************)
Numbers(f, S) == \A x \in S : f[x] \in Int

(* The sum of numbers is one.                                              *)
LEMMA SumInt ==
  ASSUME NEW f, NEW S, IsFiniteSet(S), Numbers(f, S)
  PROVE  SumFunctionOnSet(f, S) \in Int
<1> SUFFICES ASSUME SumFunctionOnSet(f, S) \notin Int PROVE FALSE
  OBVIOUS
<1> DEFINE F == { s \in SUBSET S : SumFunctionOnSet(f, s) \notin Int }
<1>0. F \subseteq SUBSET S /\ S \in F
  OBVIOUS
<1>1. PICK T \in F : \A u \in F : u \subseteq T => u = T
  <2> HIDE DEF F
  <2> QED
    BY <1>0, SmallestSubset
<1>2. T \subseteq S /\ SumFunctionOnSet(f, T) \notin Int /\ IsFiniteSet(T)
  BY <1>1, FS_Subset
<1>3. T # {}
  BY <1>2, SumEmpty
<1>4. FirstOf(T) \in T /\ T \ { FirstOf(T) } \subseteq T /\ T \ { FirstOf(T) } # T
  BY <1>3, FirstInSet
<1>5. SumFunctionOnSet(f, T \ { FirstOf(T) }) \in Int
  BY <1>1, <1>2, <1>4
<1>6. SumFunctionOnSet(f, T) = f[FirstOf(T)] + SumFunctionOnSet(f, T \ { FirstOf(T) })
  BY <1>2, <1>3, SumUnfolds DEF Unfolded
<1>7. f[FirstOf(T)] \in Int
  BY <1>2, <1>4 DEF Numbers
<1> QED
  BY <1>2, <1>5, <1>6, <1>7

(* Whichever element is taken out first.                                   *)
Takes(f, T) ==
  \A x \in T : SumFunctionOnSet(f, T) = f[x] + SumFunctionOnSet(f, T \ { x })

(* A sum is any of its numbers and the sum of the others.                  *)
LEMMA SumTakes ==
  ASSUME NEW f, NEW S, IsFiniteSet(S), Numbers(f, S)
  PROVE  Takes(f, S)
<1> SUFFICES ASSUME ~ Takes(f, S) PROVE FALSE
  OBVIOUS
<1> DEFINE F == { s \in SUBSET S : ~ Takes(f, s) }
<1>0. F \subseteq SUBSET S /\ S \in F
  OBVIOUS
<1>1. PICK T \in F : \A u \in F : u \subseteq T => u = T
  <2> HIDE DEF F
  <2> QED
    BY <1>0, SmallestSubset
<1>2. T \subseteq S /\ ~ Takes(f, T) /\ IsFiniteSet(T)
  BY <1>1, FS_Subset
<1>3. PICK x \in T : SumFunctionOnSet(f, T) # f[x] + SumFunctionOnSet(f, T \ { x })
  BY <1>2 DEF Takes
<1> DEFINE y == FirstOf(T)
<1>4. y \in T
  BY <1>3, FirstInSet
<1>5. SumFunctionOnSet(f, T) = f[y] + SumFunctionOnSet(f, T \ { y })
  BY <1>2, <1>3, SumUnfolds DEF Unfolded
<1> HIDE DEF y
<1>6. x # y
  BY <1>3, <1>5
<1>7. /\ T \ { x } \subseteq T /\ T \ { x } # T /\ y \in T \ { x }
      /\ T \ { y } \subseteq T /\ T \ { y } # T /\ x \in T \ { y }
  BY <1>3, <1>4, <1>6
<1>8. Takes(f, T \ { x }) /\ Takes(f, T \ { y })
  BY <1>1, <1>2, <1>7
<1> DEFINE R == T \ { x, y }
<1>9. (T \ { x }) \ { y } = R /\ (T \ { y }) \ { x } = R /\ R \subseteq S
  BY <1>2
<1>10. /\ SumFunctionOnSet(f, T \ { x }) = f[y] + SumFunctionOnSet(f, R)
       /\ SumFunctionOnSet(f, T \ { y }) = f[x] + SumFunctionOnSet(f, R)
  BY <1>7, <1>8, <1>9 DEF Takes
<1>11. f[x] \in Int /\ f[y] \in Int /\ SumFunctionOnSet(f, R) \in Int
  <2>1. IsFiniteSet(R) /\ Numbers(f, R)
    BY <1>2, <1>9, FS_Subset DEF Numbers
  <2> QED
    BY <1>2, <1>3, <1>4, <2>1, SumInt DEF Numbers
<1> QED
  BY <1>3, <1>5, <1>10, <1>11

(* One number more                                                         *)
LEMMA SumAdds ==
  ASSUME NEW f, NEW S, IsFiniteSet(S), NEW x, x \notin S, Numbers(f, S \cup { x })
  PROVE  SumFunctionOnSet(f, S \cup { x }) = f[x] + SumFunctionOnSet(f, S)
<1>1. IsFiniteSet(S \cup { x }) /\ (S \cup { x }) \ { x } = S
  BY FS_AddElement
<1> QED
  BY <1>1, SumTakes DEF Takes

(* Two functions with the same values have the same sum.                   *)
LEMMA SumSame ==
  ASSUME NEW f, NEW g, NEW S, IsFiniteSet(S), Numbers(f, S),
         \A x \in S : f[x] = g[x]
  PROVE  SumFunctionOnSet(f, S) = SumFunctionOnSet(g, S)
<1> DEFINE F == { T \in SUBSET S : SumFunctionOnSet(f, T) = SumFunctionOnSet(g, T) }
<1>1. {} \in F
  BY SumEmpty
<1>2. ASSUME NEW T \in F, NEW x \in S, x \notin T PROVE T \cup { x } \in F
  <2>1. /\ IsFiniteSet(T) /\ T \cup { x } \subseteq S
        /\ Numbers(f, T \cup { x }) /\ Numbers(g, T \cup { x })
    BY FS_Subset DEF Numbers
  <2>2. /\ SumFunctionOnSet(f, T \cup { x }) = f[x] + SumFunctionOnSet(f, T)
        /\ SumFunctionOnSet(g, T \cup { x }) = g[x] + SumFunctionOnSet(g, T)
    BY <1>2, <2>1, SumAdds
  <2> QED
    BY <2>1, <2>2
<1> HIDE DEF F
<1>3. S \in F
  BY <1>1, <1>2, OneByOne
<1> QED
  BY <1>3 DEF F

(* The sum of two functions, number by number                              *)
LEMMA SumOfSums ==
  ASSUME NEW f, NEW g, NEW h, NEW S, IsFiniteSet(S), Numbers(f, S), Numbers(g, S),
         \A x \in S : h[x] = f[x] + g[x]
  PROVE  SumFunctionOnSet(h, S) = SumFunctionOnSet(f, S) + SumFunctionOnSet(g, S)
<1> DEFINE F == { T \in SUBSET S : SumFunctionOnSet(h, T)
                    = SumFunctionOnSet(f, T) + SumFunctionOnSet(g, T) }
<1>1. {} \in F
  BY SumEmpty
<1>2. ASSUME NEW T \in F, NEW x \in S, x \notin T PROVE T \cup { x } \in F
  <2>1. /\ IsFiniteSet(T) /\ T \cup { x } \subseteq S
        /\ Numbers(f, T \cup { x }) /\ Numbers(g, T \cup { x }) /\ Numbers(h, T \cup { x })
        /\ Numbers(f, T) /\ Numbers(g, T)
    BY FS_Subset DEF Numbers
  <2>2. /\ SumFunctionOnSet(f, T \cup { x }) = f[x] + SumFunctionOnSet(f, T)
        /\ SumFunctionOnSet(g, T \cup { x }) = g[x] + SumFunctionOnSet(g, T)
        /\ SumFunctionOnSet(h, T \cup { x }) = h[x] + SumFunctionOnSet(h, T)
    BY <1>2, <2>1, SumAdds
  <2>3. /\ SumFunctionOnSet(f, T) \in Int /\ SumFunctionOnSet(g, T) \in Int
        /\ f[x] \in Int /\ g[x] \in Int /\ h[x] = f[x] + g[x]
        /\ SumFunctionOnSet(h, T) = SumFunctionOnSet(f, T) + SumFunctionOnSet(g, T)
    BY <2>1, SumInt DEF Numbers
  <2>4. SumFunctionOnSet(h, T \cup { x })
          = SumFunctionOnSet(f, T \cup { x }) + SumFunctionOnSet(g, T \cup { x })
    BY <2>2, <2>3
  <2> QED
    BY <2>1, <2>4
<1> HIDE DEF F
<1>3. S \in F
  BY <1>1, <1>2, OneByOne
<1> QED
  BY <1>3 DEF F

(* Larger numbers have a larger sum.                                       *)
LEMMA SumMonotone ==
  ASSUME NEW f, NEW g, NEW S, IsFiniteSet(S), Numbers(f, S), Numbers(g, S),
         \A x \in S : f[x] <= g[x]
  PROVE  SumFunctionOnSet(f, S) <= SumFunctionOnSet(g, S)
<1> DEFINE F == { T \in SUBSET S : SumFunctionOnSet(f, T) <= SumFunctionOnSet(g, T) }
<1>1. {} \in F
  BY SumEmpty
<1>2. ASSUME NEW T \in F, NEW x \in S, x \notin T PROVE T \cup { x } \in F
  <2>1. /\ IsFiniteSet(T) /\ T \cup { x } \subseteq S
        /\ Numbers(f, T \cup { x }) /\ Numbers(g, T \cup { x })
        /\ Numbers(f, T) /\ Numbers(g, T)
    BY FS_Subset DEF Numbers
  <2>2. /\ SumFunctionOnSet(f, T \cup { x }) = f[x] + SumFunctionOnSet(f, T)
        /\ SumFunctionOnSet(g, T \cup { x }) = g[x] + SumFunctionOnSet(g, T)
    BY <1>2, <2>1, SumAdds
  <2>3. /\ SumFunctionOnSet(f, T) \in Int /\ SumFunctionOnSet(g, T) \in Int
        /\ f[x] \in Int /\ g[x] \in Int /\ f[x] <= g[x]
        /\ SumFunctionOnSet(f, T) <= SumFunctionOnSet(g, T)
    BY <2>1, SumInt DEF Numbers
  <2>4. SumFunctionOnSet(f, T \cup { x }) <= SumFunctionOnSet(g, T \cup { x })
    BY <2>2, <2>3
  <2> QED
    BY <2>1, <2>4
<1> HIDE DEF F
<1>3. S \in F
  BY <1>1, <1>2, OneByOne
<1> QED
  BY <1>3 DEF F

-----------------------------------------------------------------------------
(***************************************************************************)
(* Counts: numbers that are not negative                                   *)
(***************************************************************************)
Counts(f, S) == \A x \in S : f[x] \in Nat

(* Zeros add up to zero.                                                   *)
LEMMA SumZero ==
  ASSUME NEW f, NEW S, IsFiniteSet(S), \A x \in S : f[x] = 0
  PROVE  SumFunctionOnSet(f, S) = 0
<1> DEFINE F == { T \in SUBSET S : SumFunctionOnSet(f, T) = 0 }
<1>1. {} \in F
  BY SumEmpty
<1>2. ASSUME NEW T \in F, NEW x \in S, x \notin T PROVE T \cup { x } \in F
  <2>1. IsFiniteSet(T) /\ T \cup { x } \subseteq S /\ Numbers(f, T \cup { x })
    BY FS_Subset DEF Numbers
  <2>2. SumFunctionOnSet(f, T \cup { x }) = f[x] + SumFunctionOnSet(f, T)
    BY <1>2, <2>1, SumAdds
  <2> QED
    BY <2>1, <2>2
<1> HIDE DEF F
<1>3. S \in F
  BY <1>1, <1>2, OneByOne
<1> QED
  BY <1>3 DEF F

(* A sum of counts is one, and no count is larger.                         *)
LEMMA SumNat ==
  ASSUME NEW f, NEW S, IsFiniteSet(S), Counts(f, S)
  PROVE  /\ SumFunctionOnSet(f, S) \in Nat
         /\ \A x \in S : f[x] <= SumFunctionOnSet(f, S)
<1>1. \A T \in SUBSET S :
        /\ IsFiniteSet(T) /\ Numbers(f, T) /\ SumFunctionOnSet(f, T) \in Int
        /\ SumFunctionOnSet(f, T) >= 0
  <2> SUFFICES ASSUME NEW T \in SUBSET S
               PROVE  /\ IsFiniteSet(T) /\ Numbers(f, T)
                      /\ SumFunctionOnSet(f, T) \in Int
                      /\ SumFunctionOnSet(f, T) >= 0
    OBVIOUS
  <2> DEFINE zero == [ x \in T |-> 0 ]
  <2>1. IsFiniteSet(T) /\ Numbers(f, T) /\ Numbers(zero, T)
        /\ \A x \in T : zero[x] = 0 /\ zero[x] <= f[x]
    BY FS_Subset DEF Numbers, Counts
  <2> HIDE DEF zero
  <2>2. SumFunctionOnSet(zero, T) = 0
    BY <2>1, SumZero
  <2>3. SumFunctionOnSet(zero, T) <= SumFunctionOnSet(f, T)
    BY <2>1, SumMonotone
  <2>4. SumFunctionOnSet(f, T) \in Int
    BY <2>1, SumInt
  <2> QED
    BY <2>1, <2>2, <2>3, <2>4
<1>2. SumFunctionOnSet(f, S) \in Nat
  BY <1>1
<1>3. ASSUME NEW x \in S PROVE f[x] <= SumFunctionOnSet(f, S)
  <2>1. SumFunctionOnSet(f, S) = f[x] + SumFunctionOnSet(f, S \ { x })
    BY <1>1, SumTakes DEF Takes
  <2>2. SumFunctionOnSet(f, S \ { x }) \in Int /\ SumFunctionOnSet(f, S \ { x }) >= 0
    BY <1>1
  <2>3. f[x] \in Nat
    BY DEF Counts
  <2> QED
    BY <2>1, <2>2, <2>3
<1> QED
  BY <1>2, <1>3

(* Zeros do not matter.                                                    *)
LEMMA SumOfPart ==
  ASSUME NEW f, NEW S, IsFiniteSet(S), Numbers(f, S), NEW T \in SUBSET S,
         \A x \in S \ T : f[x] = 0
  PROVE  SumFunctionOnSet(f, S) = SumFunctionOnSet(f, T)
<1> DEFINE F == { R \in SUBSET S :
                    SumFunctionOnSet(f, R) = SumFunctionOnSet(f, R \cap T) }
<1>1. {} \in F
  <2>1. {} \cap T = {}
    OBVIOUS
  <2> QED
    BY <2>1
<1>2. ASSUME NEW R \in F, NEW x \in S, x \notin R PROVE R \cup { x } \in F
  <2>1. /\ IsFiniteSet(R) /\ R \cup { x } \subseteq S /\ Numbers(f, R \cup { x })
        /\ IsFiniteSet(R \cap T) /\ Numbers(f, (R \cap T) \cup { x })
        /\ Numbers(f, R \cap T) /\ x \notin R \cap T
    BY <1>2, FS_Subset DEF Numbers
  <2>2. SumFunctionOnSet(f, R \cup { x }) = f[x] + SumFunctionOnSet(f, R)
    BY <1>2, <2>1, SumAdds
  <2>3. SumFunctionOnSet(f, R) = SumFunctionOnSet(f, R \cap T)
    OBVIOUS
  <2>4. CASE x \in T
    <3>1. (R \cup { x }) \cap T = (R \cap T) \cup { x }
      BY <2>4
    <3>2. SumFunctionOnSet(f, (R \cap T) \cup { x })
            = f[x] + SumFunctionOnSet(f, R \cap T)
      BY <2>1, SumAdds
    <3> QED
      BY <2>1, <2>2, <2>3, <3>1, <3>2
  <2>5. CASE x \notin T
    <3>1. (R \cup { x }) \cap T = R \cap T /\ f[x] = 0
      BY <2>5
    <3>2. SumFunctionOnSet(f, R \cap T) \in Int
      BY <2>1, SumInt
    <3>3. SumFunctionOnSet(f, R \cup { x }) = SumFunctionOnSet(f, R \cap T)
      BY <2>2, <2>3, <3>1, <3>2
    <3> QED
      BY <2>1, <3>1, <3>3
  <2> QED
    BY <2>4, <2>5
<1> HIDE DEF F
<1>3. S \in F
  BY <1>1, <1>2, OneByOne
<1>4. S \cap T = T
  OBVIOUS
<1> QED
  BY <1>3, <1>4 DEF F

(* A single number                                                         *)
LEMMA SumOfOne ==
  ASSUME NEW f, NEW S, IsFiniteSet(S), NEW y \in S, f[y] \in Int,
         \A x \in S : x # y => f[x] = 0
  PROVE  SumFunctionOnSet(f, S) = f[y]
<1>1. Numbers(f, S)
  BY DEF Numbers
<1>2. SumFunctionOnSet(f, S) = f[y] + SumFunctionOnSet(f, S \ { y })
  BY <1>1, SumTakes DEF Takes
<1>3. SumFunctionOnSet(f, S \ { y }) = 0
  <2>1. IsFiniteSet(S \ { y })
    BY FS_Subset
  <2> QED
    BY <2>1, SumZero
<1> QED
  BY <1>2, <1>3

(* The elements of a set are the sum of as many ones.                      *)
LEMMA SumOfOnes ==
  ASSUME NEW f, NEW S, IsFiniteSet(S), \A x \in S : f[x] = 1
  PROVE  SumFunctionOnSet(f, S) = Cardinality(S)
<1> DEFINE F == { T \in SUBSET S : SumFunctionOnSet(f, T) = Cardinality(T) }
<1>1. {} \in F
  BY SumEmpty, FS_EmptySet
<1>2. ASSUME NEW T \in F, NEW x \in S, x \notin T PROVE T \cup { x } \in F
  <2>1. IsFiniteSet(T) /\ T \cup { x } \subseteq S /\ Numbers(f, T \cup { x })
    BY FS_Subset DEF Numbers
  <2>2. SumFunctionOnSet(f, T \cup { x }) = f[x] + SumFunctionOnSet(f, T)
    BY <1>2, <2>1, SumAdds
  <2>3. Cardinality(T \cup { x }) = Cardinality(T) + 1 /\ Cardinality(T) \in Nat
    BY <1>2, <2>1, FS_AddElement, FS_CardinalityType
  <2> QED
    BY <2>1, <2>2, <2>3
<1> HIDE DEF F
<1>3. S \in F
  BY <1>1, <1>2, OneByOne
<1> QED
  BY <1>3 DEF F

(* Two sets without a common element                                       *)
LEMMA DisjointCount ==
  ASSUME NEW S, IsFiniteSet(S), NEW A \in SUBSET S, NEW B \in SUBSET S, A \cap B = {}
  PROVE  /\ Cardinality(A \cup B) = Cardinality(A) + Cardinality(B)
         /\ Cardinality(A) \in Nat /\ Cardinality(B) \in Nat
<1>1. IsFiniteSet(A) /\ IsFiniteSet(B)
  BY FS_Subset
<1>2. Cardinality(A) \in Nat /\ Cardinality(B) \in Nat
  BY <1>1, FS_CardinalityType
<1>3. Cardinality(A \cup B) = Cardinality(A) + Cardinality(B) - Cardinality(A \cap B)
  BY <1>1, FS_Union
<1>4. Cardinality(A \cap B) = 0
  BY FS_EmptySet
<1> QED
  BY <1>2, <1>3, <1>4

-----------------------------------------------------------------------------
(***************************************************************************)
(* The same sum, in another order                                          *)
(***************************************************************************)

(* Under other names                                                       *)
LEMMA SumRenamed ==
  ASSUME NEW f, NEW g, NEW S, IsFiniteSet(S), Numbers(f, S), NEW b,
         \A x \in S : f[x] = g[b[x]],
         \A x, y \in S : b[x] = b[y] => x = y
  PROVE  SumFunctionOnSet(g, { b[x] : x \in S }) = SumFunctionOnSet(f, S)
<1> DEFINE Names(R) == { b[x] : x \in R }
           F == { R \in SUBSET S :
                    /\ IsFiniteSet(Names(R))
                    /\ SumFunctionOnSet(g, Names(R)) = SumFunctionOnSet(f, R) }
<1>1. {} \in F
  <2>1. Names({}) = {}
    OBVIOUS
  <2> QED
    BY <2>1, SumEmpty, FS_EmptySet
<1>2. ASSUME NEW R \in F, NEW y \in S, y \notin R PROVE R \cup { y } \in F
  <2>1. /\ IsFiniteSet(R) /\ R \cup { y } \subseteq S /\ Numbers(f, R \cup { y })
        /\ SumFunctionOnSet(g, Names(R)) = SumFunctionOnSet(f, R)
        /\ IsFiniteSet(Names(R))
    BY FS_Subset DEF Numbers
  <2>2. SumFunctionOnSet(f, R \cup { y }) = f[y] + SumFunctionOnSet(f, R)
    BY <1>2, <2>1, SumAdds
  <2>3. Names(R \cup { y }) = Names(R) \cup { b[y] } /\ b[y] \notin Names(R)
    BY <1>2, <2>1
  <2>4. Numbers(g, Names(R) \cup { b[y] })
    BY <2>1 DEF Numbers
  <2> HIDE DEF Names
  <2>5. IsFiniteSet(Names(R) \cup { b[y] })
    BY <2>1, FS_AddElement
  <2>6. SumFunctionOnSet(g, Names(R) \cup { b[y] })
          = g[b[y]] + SumFunctionOnSet(g, Names(R))
    BY <2>1, <2>3, <2>4, SumAdds
  <2> QED
    BY <2>1, <2>2, <2>3, <2>5, <2>6
<1> HIDE DEF F
<1>3. S \in F
  BY <1>1, <1>2, OneByOne
<1> QED
  BY <1>3 DEF F

(* The elements of a class: c[x] is the class of x.                        *)
ClassOf(S, c, k) == { x \in S : c[x] = k }

(* Sorted by class, where h[k] is the sum of class k                       *)
LEMMA SumByClass ==
  ASSUME NEW f, NEW S, IsFiniteSet(S), Numbers(f, S),
         NEW K, IsFiniteSet(K), NEW c, \A x \in S : c[x] \in K,
         NEW h, \A k \in K : h[k] = SumFunctionOnSet(f, ClassOf(S, c, k))
  PROVE  SumFunctionOnSet(h, K) = SumFunctionOnSet(f, S)
<1> DEFINE By(R) == [ k \in K |-> SumFunctionOnSet(f, ClassOf(R, c, k)) ]
           F == { R \in SUBSET S :
                    SumFunctionOnSet(By(R), K) = SumFunctionOnSet(f, R) }
<1>0. \A R \in SUBSET S : Numbers(By(R), K)
  <2> SUFFICES ASSUME NEW R \in SUBSET S, NEW k \in K PROVE By(R)[k] \in Int
    BY DEF Numbers
  <2>1. IsFiniteSet(ClassOf(R, c, k)) /\ Numbers(f, ClassOf(R, c, k))
    <3>1. ClassOf(R, c, k) \in SUBSET S
      BY DEF ClassOf
    <3> QED
      BY <3>1, FS_Subset DEF Numbers
  <2> QED
    BY <2>1, SumInt
<1>1. {} \in F
  <2>1. \A k \in K : ClassOf({}, c, k) = {}
    BY DEF ClassOf
  <2>2. \A k \in K : By({})[k] = 0
    BY <2>1, SumEmpty
  <2> HIDE DEF By
  <2> QED
    BY <2>2, SumZero, SumEmpty
<1>2. ASSUME NEW R \in F, NEW y \in S, y \notin R PROVE R \cup { y } \in F
  <2> DEFINE single == [ k \in K |-> IF k = c[y] THEN f[y] ELSE 0 ]
             Q == R \cup { y }
  <2>1. /\ R \subseteq S /\ IsFiniteSet(R) /\ Q \subseteq S
        /\ Numbers(f, Q) /\ f[y] \in Int
    BY FS_Subset DEF Numbers
  <2>2. SumFunctionOnSet(f, Q) = f[y] + SumFunctionOnSet(f, R)
    BY <1>2, <2>1, SumAdds
  <2>3. SumFunctionOnSet(single, K) = f[y] /\ Numbers(single, K)
    <3>1. /\ c[y] \in K /\ single[c[y]] = f[y]
          /\ \A k \in K : k # c[y] => single[k] = 0
          /\ \A k \in K : single[k] \in Int
      BY <2>1
    <3> HIDE DEF single
    <3> QED
      BY <2>1, <3>1, SumOfOne DEF Numbers
  <2>4. \A k \in K : By(Q)[k] = By(R)[k] + single[k]
    <3> SUFFICES ASSUME NEW k \in K PROVE By(Q)[k] = By(R)[k] + single[k]
      OBVIOUS
    <3>1. By(R)[k] \in Int
      BY <1>0, <2>1 DEF Numbers
    <3>2. CASE k = c[y]
      <4>1. ClassOf(Q, c, k) = ClassOf(R, c, k) \cup { y } /\ y \notin ClassOf(R, c, k)
        BY <1>2, <3>2 DEF ClassOf
      <4>2. IsFiniteSet(ClassOf(R, c, k)) /\ Numbers(f, ClassOf(R, c, k) \cup { y })
        <5>1. ClassOf(R, c, k) \subseteq R
          BY DEF ClassOf
        <5> QED
          BY <2>1, <5>1, FS_Subset DEF Numbers
      <4> HIDE DEF Q
      <4>3. SumFunctionOnSet(f, ClassOf(Q, c, k))
              = f[y] + SumFunctionOnSet(f, ClassOf(R, c, k))
        BY <4>1, <4>2, SumAdds
      <4> QED
        BY <2>1, <3>1, <3>2, <4>3
    <3>3. CASE k # c[y]
      <4>1. ClassOf(Q, c, k) = ClassOf(R, c, k)
        BY <3>3 DEF ClassOf
      <4> HIDE DEF Q
      <4> QED
        BY <3>1, <3>3, <4>1
    <3> QED
      BY <3>2, <3>3
  <2>5. Numbers(By(R), K)
    BY <1>0, <2>1
  <2>6. SumFunctionOnSet(By(R), K) = SumFunctionOnSet(f, R)
    OBVIOUS
  <2> HIDE DEF By, single, Q
  <2>7. SumFunctionOnSet(By(Q), K)
          = SumFunctionOnSet(By(R), K) + SumFunctionOnSet(single, K)
    BY <2>3, <2>4, <2>5, SumOfSums
  <2>8. SumFunctionOnSet(f, R) \in Int
    BY <2>1, SumInt DEF Numbers
  <2>9. SumFunctionOnSet(By(Q), K) = SumFunctionOnSet(f, Q)
    BY <2>1, <2>2, <2>3, <2>6, <2>7, <2>8
  <2> QED
    BY <2>1, <2>9 DEF Q
<1> HIDE DEF F
<1>3. S \in F
  BY <1>1, <1>2, OneByOne
<1>4. SumFunctionOnSet(By(S), K) = SumFunctionOnSet(f, S)
  BY <1>3 DEF F
<1>5. \A k \in K : By(S)[k] = h[k]
  OBVIOUS
<1>6. Numbers(By(S), K)
  BY <1>0
<1> HIDE DEF By
<1>7. SumFunctionOnSet(By(S), K) = SumFunctionOnSet(h, K)
  BY <1>5, <1>6, SumSame
<1> QED
  BY <1>4, <1>7

(* A column of a table with the rows A                                     *)
Column(m, A, b) == [ a \in A |-> m[a][b] ]

(* Row by row or column by column: the sums r of the rows and q of the     *)
(* columns of a table m                                                    *)
LEMMA SumSwapped ==
  ASSUME NEW A, IsFiniteSet(A), NEW B, IsFiniteSet(B), NEW m,
         \A a \in A : Numbers(m[a], B),
         NEW r, \A a \in A : r[a] = SumFunctionOnSet(m[a], B),
         NEW q, \A b \in B : q[b] = SumFunctionOnSet(Column(m, A, b), A)
  PROVE  SumFunctionOnSet(r, A) = SumFunctionOnSet(q, B)
<1> DEFINE Part(R) == [ b \in B |-> SumFunctionOnSet(Column(m, A, b), R) ]
           F == { R \in SUBSET A :
                    SumFunctionOnSet(r, R) = SumFunctionOnSet(Part(R), B) }
<1>0. /\ \A b \in B : Numbers(Column(m, A, b), A)
      /\ \A R \in SUBSET A : IsFiniteSet(R) /\ Numbers(Part(R), B)
      /\ Numbers(r, A)
  <2>1. \A b \in B : Numbers(Column(m, A, b), A)
    BY DEF Numbers, Column
  <2>2. ASSUME NEW R \in SUBSET A PROVE IsFiniteSet(R) /\ Numbers(Part(R), B)
    <3>1. IsFiniteSet(R)
      BY FS_Subset
    <3> SUFFICES ASSUME NEW b \in B PROVE Part(R)[b] \in Int
      BY <3>1 DEF Numbers
    <3>2. Numbers(Column(m, A, b), R)
      BY <2>1 DEF Numbers
    <3> QED
      BY <3>1, <3>2, SumInt
  <2>3. Numbers(r, A)
    BY SumInt DEF Numbers
  <2> QED
    BY <2>1, <2>2, <2>3
<1>1. {} \in F
  <2>1. \A b \in B : Part({})[b] = 0
    BY SumEmpty
  <2> HIDE DEF Part
  <2> QED
    BY <2>1, SumZero, SumEmpty
<1>2. ASSUME NEW R \in F, NEW y \in A, y \notin R PROVE R \cup { y } \in F
  <2> DEFINE Q == R \cup { y }
  <2>1. R \in SUBSET A /\ Q \in SUBSET A /\ IsFiniteSet(R) /\ Numbers(r, Q)
    BY <1>0 DEF Numbers
  <2>2. SumFunctionOnSet(r, Q) = r[y] + SumFunctionOnSet(r, R)
    BY <1>2, <2>1, SumAdds
  <2>3. \A b \in B : Part(Q)[b] = m[y][b] + Part(R)[b]
    <3> SUFFICES ASSUME NEW b \in B PROVE Part(Q)[b] = m[y][b] + Part(R)[b]
      OBVIOUS
    <3>1. Numbers(Column(m, A, b), Q) /\ Column(m, A, b)[y] = m[y][b]
      BY <1>0, <2>1 DEF Numbers, Column
    <3>2. SumFunctionOnSet(Column(m, A, b), Q)
            = Column(m, A, b)[y] + SumFunctionOnSet(Column(m, A, b), R)
      BY <1>2, <2>1, <3>1, SumAdds
    <3> QED
      BY <3>1, <3>2
  <2>4. Numbers(m[y], B) /\ Numbers(Part(R), B)
    BY <1>0, <2>1
  <2>5. SumFunctionOnSet(r, R) = SumFunctionOnSet(Part(R), B)
    OBVIOUS
  <2>6. r[y] = SumFunctionOnSet(m[y], B)
    OBVIOUS
  <2> HIDE DEF Part, Q
  <2>7. SumFunctionOnSet(Part(Q), B)
          = SumFunctionOnSet(m[y], B) + SumFunctionOnSet(Part(R), B)
    BY <2>3, <2>4, SumOfSums
  <2>8. SumFunctionOnSet(r, Q) = SumFunctionOnSet(Part(Q), B)
    BY <2>2, <2>5, <2>6, <2>7, Zenon
  <2> QED
    BY <2>1, <2>8 DEF Q
<1> HIDE DEF F
<1>3. A \in F
  BY <1>1, <1>2, OneByOne
<1>4. SumFunctionOnSet(r, A) = SumFunctionOnSet(Part(A), B)
  BY <1>3 DEF F
<1>5. \A b \in B : Part(A)[b] = q[b]
  OBVIOUS
<1>6. Numbers(Part(A), B)
  BY <1>0
<1> HIDE DEF Part
<1> QED
  BY <1>4, <1>5, <1>6, SumSame

-----------------------------------------------------------------------------
(***************************************************************************)
(* Counting                                                                *)
(***************************************************************************)

(* A part has no more than the whole.                                      *)
LEMMA SumOfFewer ==
  ASSUME NEW f, NEW S, IsFiniteSet(S), Counts(f, S), NEW T \in SUBSET S
  PROVE  SumFunctionOnSet(f, T) <= SumFunctionOnSet(f, S)
<1> DEFINE g == [ x \in S |-> IF x \in T THEN f[x] ELSE 0 ]
<1>1. /\ \A x \in S : g[x] \in Int /\ f[x] \in Int /\ g[x] <= f[x]
      /\ \A x \in S \ T : g[x] = 0
      /\ \A x \in T : f[x] = g[x]
  BY DEF Counts
<1>2. Numbers(g, S) /\ Numbers(f, S) /\ Numbers(f, T) /\ IsFiniteSet(T)
  BY <1>1, FS_Subset DEF Numbers
<1> HIDE DEF g
<1>3. SumFunctionOnSet(g, S) <= SumFunctionOnSet(f, S)
  BY <1>1, <1>2, SumMonotone
<1>4. SumFunctionOnSet(g, S) = SumFunctionOnSet(g, T)
  BY <1>1, <1>2, SumOfPart
<1>5. SumFunctionOnSet(f, T) = SumFunctionOnSet(g, T)
  BY <1>1, <1>2, SumSame
<1> QED
  BY <1>3, <1>4, <1>5

(* As many names as there are things with different names                  *)
LEMMA NamesCounted ==
  ASSUME NEW S, IsFiniteSet(S), NEW f, \A x, y \in S : f[x] = f[y] => x = y
  PROVE  Cardinality({ f[x] : x \in S }) = Cardinality(S)
<1> DEFINE T == { f[x] : x \in S }
           g == [ x \in S |-> f[x] ]
<1>1. g \in Bijection(S, T)
  BY DEF Bijection, Injection, Surjection, IsInjective
<1>2. ExistsBijection(S, T)
  BY <1>1 DEF ExistsBijection
<1> HIDE DEF T
<1>3. Cardinality(T) = Cardinality(S)
  BY <1>2, FS_Bijection
<1> QED
  BY <1>3 DEF T

(* Everything belongs to one class, where h[k] is the size of class k.     *)
LEMMA ClassesCounted ==
  ASSUME NEW S, IsFiniteSet(S), NEW K, IsFiniteSet(K), NEW c, \A x \in S : c[x] \in K,
         NEW h, \A k \in K : h[k] = Cardinality(ClassOf(S, c, k))
  PROVE  SumFunctionOnSet(h, K) = Cardinality(S)
<1> DEFINE one == [ x \in S |-> 1 ]
<1>1. \A x \in S : one[x] = 1
  OBVIOUS
<1>2. Numbers(one, S)
  BY <1>1 DEF Numbers
<1>3. \A k \in K : /\ ClassOf(S, c, k) \in SUBSET S
                   /\ h[k] = Cardinality(ClassOf(S, c, k))
  BY DEF ClassOf
<1> HIDE DEF one
<1>4. SumFunctionOnSet(one, S) = Cardinality(S)
  BY <1>1, SumOfOnes
<1>5. \A k \in K : h[k] = SumFunctionOnSet(one, ClassOf(S, c, k))
  <2> SUFFICES ASSUME NEW k \in K PROVE h[k] = SumFunctionOnSet(one, ClassOf(S, c, k))
    OBVIOUS
  <2>1. ClassOf(S, c, k) \in SUBSET S /\ h[k] = Cardinality(ClassOf(S, c, k))
    BY <1>3
  <2>2. IsFiniteSet(ClassOf(S, c, k)) /\ \A x \in ClassOf(S, c, k) : one[x] = 1
    BY <1>1, <2>1, FS_Subset
  <2>3. SumFunctionOnSet(one, ClassOf(S, c, k)) = Cardinality(ClassOf(S, c, k))
    BY <2>2, SumOfOnes
  <2> QED
    BY <2>1, <2>3
<1>6. SumFunctionOnSet(h, K) = SumFunctionOnSet(one, S)
  BY <1>2, <1>5, SumByClass
<1> QED
  BY <1>4, <1>6

(* The place of a number among those of a finite set                       *)
LEMMA RankOfOne ==
  ASSUME NEW S, IsFiniteSet(S), S \subseteq Int, NEW i \in S,
         NEW r, \A k \in S : r[k] = Cardinality({ j \in S : j <= k })
  PROVE  /\ r[i] \in 1 .. Cardinality(S)
         /\ \A k \in S : r[k] = r[i] => k = i
<1> DEFINE Below(k) == { j \in S : j <= k }
<1>1. \A k \in S : /\ Below(k) \in SUBSET S /\ k \in Below(k)
                   /\ r[k] = Cardinality(Below(k))
  OBVIOUS
<1>2. ASSUME NEW k \in S, NEW l \in S, k < l
      PROVE  r[k] # r[l]
  <2>7. k \in Int /\ l \in Int /\ \A j \in S : j \in Int
    OBVIOUS
  <2>8. \A j \in S : j <= k => j <= l
    BY <1>2, <2>7
  <2>1. Below(k) \in SUBSET Below(l)
    BY <2>8
  <2>2. l \in Below(l) /\ l \notin Below(k)
    BY <1>2, <2>7
  <2>3. Below(l) \in SUBSET S
    OBVIOUS
  <2> HIDE DEF Below
  <2>4. IsFiniteSet(Below(l))
    BY <2>3, FS_Subset
  <2>5. Cardinality(Below(k)) # Cardinality(Below(l))
    BY <2>1, <2>2, <2>4, FS_Subset
  <2> QED
    BY <1>1, <2>5
<1>3. \A k \in S : r[k] = r[i] => k = i
  <2> SUFFICES ASSUME NEW k \in S, r[k] = r[i], k # i PROVE FALSE
    OBVIOUS
  <2>1. k < i \/ i < k
    OBVIOUS
  <2> QED
    BY <1>2, <2>1
<1>4. r[i] \in 1 .. Cardinality(S)
  <2>1. Below(i) \in SUBSET S /\ i \in Below(i) /\ r[i] = Cardinality(Below(i))
    BY <1>1
  <2> HIDE DEF Below
  <2>2. IsFiniteSet(Below(i)) /\ Cardinality(Below(i)) <= Cardinality(S)
    BY <2>1, FS_Subset
  <2>3. Cardinality(Below(i)) \in Nat /\ Cardinality(S) \in Nat
    BY <2>2, FS_CardinalityType
  <2>4. Cardinality(Below(i)) # 0
    BY <2>1, <2>2, FS_EmptySet
  <2> QED
    BY <2>1, <2>2, <2>3, <2>4
<1> QED
  BY <1>3, <1>4
=============================================================================
