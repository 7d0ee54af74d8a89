----------------------------- MODULE SumProofs -----------------------------
(***************************************************************************)
(* Lemmas about the library's sums over finite sets, of which the library  *)
(* proves nothing.  Induction is over a set, of numbers or of subsets,     *)
(* since no prover takes a predicate.                                      *)
(***************************************************************************)
EXTENDS Functions, FiniteSetTheorems, WellFoundedInduction, TLAPS

\* Induction over the natural numbers, for a set of them.
LEMMA NatSetInduction ==
    ASSUME NEW T \in SUBSET Nat, 0 \in T, \A n \in T : n + 1 \in T
    PROVE  T = Nat
<1> SUFFICES ASSUME Nat \ T # {} PROVE FALSE
  OBVIOUS
<1>1. PICK n \in Nat \ T : \A m \in Nat \ T : ~(<<m, n>> \in OpToRel(<, Nat))
  BY NatLessThanWellFounded, WFMin
<1>2. n # 0 /\ n - 1 \in Nat
  OBVIOUS
<1>3. n - 1 \in T
  <2>1. <<n - 1, n>> \in Nat \X Nat /\ n - 1 < n
    BY <1>2
  <2>2. <<n - 1, n>> \in OpToRel(<, Nat)
    BY <2>1 DEF OpToRel
  <2>3. QED
    BY <1>1, <1>2, <2>2
<1>4. (n - 1) + 1 = n
  OBVIOUS
<1>5. QED
  BY <1>1, <1>3, <1>4

\* Induction over the subsets of a finite set, for a set of them.
LEMMA SubsetInduction ==
    ASSUME NEW S, IsFiniteSet(S), NEW P,
           \A s \in SUBSET S : (\A x \in s : s \ {x} \in P) => s \in P
    PROVE  \A s \in SUBSET S : s \in P
<1> DEFINE T == {n \in Nat : \A s \in SUBSET S : Cardinality(s) = n => s \in P}
<1>1. \A s \in SUBSET S : IsFiniteSet(s) /\ Cardinality(s) \in Nat
  BY FS_Subset, FS_CardinalityType
<1>2. 0 \in T
  <2>1. ASSUME NEW s \in SUBSET S, Cardinality(s) = 0 PROVE s \in P
    <3>1. s = {}
      BY <1>1, <2>1, FS_EmptySet
    <3>2. QED
      BY <3>1
  <2>2. QED
    BY <2>1
<1>3. ASSUME NEW n \in T PROVE n + 1 \in T
  <2>1. ASSUME NEW s \in SUBSET S, Cardinality(s) = n + 1 PROVE s \in P
    <3>1. ASSUME NEW x \in s PROVE s \ {x} \in P
      <4>1. Cardinality(s \ {x}) = n
        BY <1>1, <2>1, <3>1, FS_RemoveElement
      <4>2. QED
        BY <4>1
    <3>2. QED
      BY <3>1
  <2>2. QED
    BY <2>1
<1> HIDE DEF T
<1>4. T = Nat
  <2>1. T \in SUBSET Nat
    BY DEF T
  <2>2. QED
    BY <1>2, <1>3, <2>1, NatSetInduction
<1>5. QED
  BY <1>1, <1>4 DEF T

-----------------------------------------------------------------------------
(* The library's sum over a finite set is f[S] for a function f on the subsets
   of S that takes out one element after the other, in an unknown order. *)
Taken(s) == CHOOSE x \in s : TRUE

Folds(g, S, f) ==
    f = [s \in SUBSET S |-> IF s = {} THEN 0 ELSE g[Taken(s)] + f[s \ {Taken(s)}]]

\* The library's definition, expanded.
LEMMA SumIsFold ==
    ASSUME NEW g, NEW S
    PROVE  SumFunctionOnSet(g, S) = (CHOOSE f : Folds(g, S, f))[S]
BY DEF SumFunctionOnSet, FoldFunctionOnSet, MapThenFoldSet, Folds, Taken

\* What of such a function is known of the subsets with up to n elements.
Small(S, n) == {s \in SUBSET S : Cardinality(s) <= n}
FoldsUpTo(g, S, n, f) ==
    f = [s \in Small(S, n) |-> IF s = {} THEN 0 ELSE g[Taken(s)] + f[s \ {Taken(s)}]]

\* Taking out an element leaves one less.
LEMMA TakenSmaller ==
    ASSUME NEW S, IsFiniteSet(S), NEW s \in SUBSET S, s # {}
    PROVE  /\ Taken(s) \in s /\ s \ {Taken(s)} \in SUBSET S
           /\ Cardinality(s) \in Nat
           /\ Cardinality(s \ {Taken(s)}) = Cardinality(s) - 1
<1>1. Taken(s) \in s
  BY DEF Taken
<1>2. IsFiniteSet(s) /\ Cardinality(s) \in Nat
  BY FS_Subset, FS_CardinalityType
<1>3. QED
  BY <1>1, <1>2, FS_RemoveElement

\* There is such a function: it is built up from the smallest subsets.
LEMMA FoldExists ==
    ASSUME NEW g, NEW S, IsFiniteSet(S)
    PROVE  \E f : Folds(g, S, f)
<1> DEFINE T == {n \in Nat : \E f : FoldsUpTo(g, S, n, f)}
<1>1. \A s \in SUBSET S : IsFiniteSet(s) /\ Cardinality(s) \in Nat /\ Cardinality(s) <= Cardinality(S)
  BY FS_Subset, FS_CardinalityType
<1>2. 0 \in T
  <2>1. \A s \in Small(S, 0) : s = {}
    BY <1>1, FS_EmptySet DEF Small
  <2>2. FoldsUpTo(g, S, 0, [s \in Small(S, 0) |-> 0])
    BY <2>1 DEF FoldsUpTo
  <2>3. QED
    BY <2>2
<1>3. ASSUME NEW n \in T PROVE n + 1 \in T
  <2>1. PICK f : FoldsUpTo(g, S, n, f)
    OBVIOUS
  <2> DEFINE h == [s \in Small(S, n + 1) |->
                      IF s = {} THEN 0 ELSE g[Taken(s)] + f[s \ {Taken(s)}]]
  <2>2. ASSUME NEW s \in Small(S, n + 1), s # {}
        PROVE  h[s \ {Taken(s)}] = f[s \ {Taken(s)}]
    <3>1. s \ {Taken(s)} \in Small(S, n) /\ s \ {Taken(s)} \in Small(S, n + 1)
      BY <2>2, TakenSmaller DEF Small
    <3>2. \A r \in Small(S, n) :
             f[r] = IF r = {} THEN 0 ELSE g[Taken(r)] + f[r \ {Taken(r)}]
      BY <2>1 DEF FoldsUpTo
    <3>3. QED
      BY <3>1, <3>2
  <2>3. h = [s \in Small(S, n + 1) |->
                IF s = {} THEN 0 ELSE g[Taken(s)] + h[s \ {Taken(s)}]]
    BY <2>2
  <2>4. FoldsUpTo(g, S, n + 1, h)
    BY <2>3 DEF FoldsUpTo
  <2>5. QED
    BY <2>4
<1> HIDE DEF T
<1>4. T = Nat
  <2>1. T \in SUBSET Nat
    BY DEF T
  <2>2. QED
    BY <1>2, <1>3, <2>1, NatSetInduction
<1>5. PICK f : FoldsUpTo(g, S, Cardinality(S), f)
  BY <1>1, <1>4 DEF T
<1>6. Small(S, Cardinality(S)) = SUBSET S
  BY <1>1 DEF Small
<1>7. QED
  BY <1>5, <1>6 DEF FoldsUpTo, Folds

\* Equal terms, equal sums, whatever larger set each is a part of.
LEMMA FoldsAgree ==
    ASSUME NEW g, NEW S, IsFiniteSet(S), NEW f, Folds(g, S, f),
           NEW h, NEW T, NEW k, Folds(h, T, k),
           S \subseteq T, \A x \in S : g[x] = h[x]
    PROVE  f[S] = k[S]
<1> DEFINE P == {s \in SUBSET S : f[s] = k[s]}
<1>1. \A s \in SUBSET S : f[s] = IF s = {} THEN 0 ELSE g[Taken(s)] + f[s \ {Taken(s)}]
  BY DEF Folds
<1>2. \A s \in SUBSET T : k[s] = IF s = {} THEN 0 ELSE h[Taken(s)] + k[s \ {Taken(s)}]
  BY DEF Folds
<1>3. ASSUME NEW s \in SUBSET S, \A x \in s : s \ {x} \in P PROVE s \in P
  <2>1. s # {} => Taken(s) \in s
    BY DEF Taken
  <2>2. QED
    BY <1>1, <1>2, <1>3, <2>1
<1>4. \A s \in SUBSET S : s \in P
  <2> HIDE DEF P
  <2>1. QED
    BY <1>3, SubsetInduction
<1>5. QED
  BY <1>4

\* The recursive equation of the sum.
LEMMA SumEquation ==
    ASSUME NEW g, NEW S, IsFiniteSet(S)
    PROVE  SumFunctionOnSet(g, S) =
              IF S = {} THEN 0 ELSE g[Taken(S)] + SumFunctionOnSet(g, S \ {Taken(S)})
<1> DEFINE f == CHOOSE f : Folds(g, S, f)
           r == S \ {Taken(S)}
           k == CHOOSE k : Folds(g, r, k)
<1>1. Folds(g, S, f)
  BY FoldExists
<1>2. f[S] = IF S = {} THEN 0 ELSE g[Taken(S)] + f[r]
  BY <1>1 DEF Folds
<1>3. IsFiniteSet(r)
  BY FS_RemoveElement
<1>4. Folds(g, r, k)
  BY <1>3, FoldExists
<1> HIDE DEF f, k
<1>5. k[r] = f[r]
  BY <1>1, <1>3, <1>4, FoldsAgree
<1>6. SumFunctionOnSet(g, S) = f[S] /\ SumFunctionOnSet(g, r) = k[r]
  BY SumIsFold DEF f, k
<1>7. QED
  BY <1>2, <1>5, <1>6

\* A sum depends on its terms only.
LEMMA SumCongruence ==
    ASSUME NEW g, NEW h, NEW S, IsFiniteSet(S), \A x \in S : g[x] = h[x]
    PROVE  SumFunctionOnSet(g, S) = SumFunctionOnSet(h, S)
<1> DEFINE f == CHOOSE f : Folds(g, S, f)
           k == CHOOSE k : Folds(h, S, k)
<1>1. Folds(g, S, f) /\ Folds(h, S, k)
  BY FoldExists
<1> HIDE DEF f, k
<1>2. f[S] = k[S]
  BY <1>1, FoldsAgree
<1>3. QED
  BY <1>2, SumIsFold DEF f, k

\* A sum of integers is an integer.
LEMMA SumType ==
    ASSUME NEW g, NEW S, IsFiniteSet(S), \A x \in S : g[x] \in Int
    PROVE  \A s \in SUBSET S : SumFunctionOnSet(g, s) \in Int
<1> DEFINE P == {s \in SUBSET S : SumFunctionOnSet(g, s) \in Int}
<1>1. ASSUME NEW s \in SUBSET S, \A x \in s : s \ {x} \in P PROVE s \in P
  <2>1. IsFiniteSet(s) /\ (s # {} => Taken(s) \in s)
    BY FS_Subset DEF Taken
  <2>2. CASE s = {}
    <3>1. SumFunctionOnSet(g, s) = 0
      BY <2>1, <2>2, SumEquation
    <3>2. QED
      BY <3>1
  <2>3. CASE s # {}
    <3>1. SumFunctionOnSet(g, s) = g[Taken(s)] + SumFunctionOnSet(g, s \ {Taken(s)})
      BY <2>1, <2>3, SumEquation
    <3>2. g[Taken(s)] \in Int /\ SumFunctionOnSet(g, s \ {Taken(s)}) \in Int
      BY <1>1, <2>1, <2>3
    <3>3. QED
      BY <3>1, <3>2
  <2>4. QED
    BY <2>2, <2>3
<1>2. \A s \in SUBSET S : s \in P
  <2> HIDE DEF P
  <2>1. QED
    BY <1>1, SubsetInduction
<1>3. QED
  BY <1>2

\* A sum of natural numbers is one.
LEMMA SumNat ==
    ASSUME NEW g, NEW S, IsFiniteSet(S), \A x \in S : g[x] \in Nat
    PROVE  \A s \in SUBSET S : SumFunctionOnSet(g, s) \in Nat
<1> DEFINE P == {s \in SUBSET S : SumFunctionOnSet(g, s) \in Nat}
<1>1. ASSUME NEW s \in SUBSET S, \A x \in s : s \ {x} \in P PROVE s \in P
  <2>1. IsFiniteSet(s) /\ (s # {} => Taken(s) \in s)
    BY FS_Subset DEF Taken
  <2>2. CASE s = {}
    <3>1. SumFunctionOnSet(g, s) = 0
      BY <2>1, <2>2, SumEquation
    <3>2. QED
      BY <3>1
  <2>3. CASE s # {}
    <3>1. SumFunctionOnSet(g, s) = g[Taken(s)] + SumFunctionOnSet(g, s \ {Taken(s)})
      BY <2>1, <2>3, SumEquation
    <3>2. g[Taken(s)] \in Nat /\ SumFunctionOnSet(g, s \ {Taken(s)}) \in Nat
      BY <1>1, <2>1, <2>3
    <3>3. QED
      BY <3>1, <3>2
  <2>4. QED
    BY <2>2, <2>3
<1>2. \A s \in SUBSET S : s \in P
  <2> HIDE DEF P
  <2>1. QED
    BY <1>1, SubsetInduction
<1>3. QED
  BY <1>2

\* Any element may be taken out first.
LEMMA SumTakeOut ==
    ASSUME NEW g, NEW S, IsFiniteSet(S), \A x \in S : g[x] \in Int, NEW y \in S
    PROVE  SumFunctionOnSet(g, S) = g[y] + SumFunctionOnSet(g, S \ {y})
<1> DEFINE Sum(s) == SumFunctionOnSet(g, s)
           P == {s \in SUBSET S : \A z \in s : Sum(s) = g[z] + Sum(s \ {z})}
<1>1. \A s \in SUBSET S : IsFiniteSet(s) /\ Sum(s) \in Int
  BY FS_Subset, SumType
<1>2. \A s \in SUBSET S : s # {} => Taken(s) \in s /\ Sum(s) = g[Taken(s)] + Sum(s \ {Taken(s)})
  BY <1>1, SumEquation DEF Taken
<1>3. ASSUME NEW s \in SUBSET S, \A x \in s : s \ {x} \in P PROVE s \in P
  <2> HIDE DEF Sum
  <2> SUFFICES ASSUME NEW z \in s, z # Taken(s) PROVE Sum(s) = g[z] + Sum(s \ {z})
    BY <1>2
  <2> DEFINE t == Taken(s)
             r == s \ {t, z}
  <2>1. t \in s
    BY <1>2
  <2>2. Sum(s) = g[t] + Sum(s \ {t})
    BY <1>2
  <2>3. Sum(s \ {t}) = g[z] + Sum((s \ {t}) \ {z})
    BY <1>3, <2>1
  <2>4. Sum(s \ {z}) = g[t] + Sum((s \ {z}) \ {t})
    BY <1>3, <2>1
  <2>5. (s \ {t}) \ {z} = r /\ (s \ {z}) \ {t} = r
    OBVIOUS
  <2>6. g[t] \in Int /\ g[z] \in Int /\ Sum(r) \in Int /\ Sum(s \ {t}) \in Int
    BY <1>1, <2>1
  <2> DEFINE a == g[t]
             b == g[z]
             w == Sum(r)
  <2>7. Sum(s) = a + (b + w) /\ Sum(s \ {z}) = a + w
    BY <2>2, <2>3, <2>4, <2>5
  <2>8. a \in Int /\ b \in Int /\ w \in Int
    BY <2>6
  <2> HIDE DEF r, t, a, b, w
  <2>9. Sum(s) = b + Sum(s \ {z})
    BY <2>7, <2>8
  <2>10. QED
    BY <2>9 DEF b
<1>4. \A s \in SUBSET S : s \in P
  <2> HIDE DEF P
  <2>1. QED
    BY <1>3, SubsetInduction
<1>5. QED
  BY <1>4

\* Sums are compared term by term.
LEMMA SumMonotone ==
    ASSUME NEW g, NEW h, NEW S, IsFiniteSet(S), NEW c \in Int, NEW d \in Int,
           \A x \in S : g[x] \in Int /\ h[x] \in Int /\ c * g[x] <= d * h[x]
    PROVE  c * SumFunctionOnSet(g, S) <= d * SumFunctionOnSet(h, S)
<1> DEFINE P == {s \in SUBSET S : c * SumFunctionOnSet(g, s) <= d * SumFunctionOnSet(h, s)}
<1>1. ASSUME NEW s \in SUBSET S, \A x \in s : s \ {x} \in P PROVE s \in P
  <2>1. IsFiniteSet(s)
    BY FS_Subset
  <2>2. CASE s = {}
    <3>1. SumFunctionOnSet(g, s) = 0 /\ SumFunctionOnSet(h, s) = 0
      BY <2>1, <2>2, SumEquation
    <3>2. QED
      BY <3>1
  <2>3. CASE s # {}
    <3>1. PICK x \in s : TRUE
      BY <2>3
    <3> DEFINE G == SumFunctionOnSet(g, s \ {x})
               H == SumFunctionOnSet(h, s \ {x})
    <3>2. c * G <= d * H /\ G \in Int /\ H \in Int
      BY <1>1, SumType
    <3>3. SumFunctionOnSet(g, s) = g[x] + G /\ SumFunctionOnSet(h, s) = h[x] + H
      BY <2>1, SumTakeOut
    <3>4. c * g[x] <= d * h[x] /\ g[x] \in Int /\ h[x] \in Int
      OBVIOUS
    <3> HIDE DEF G, H
    <3>5. c * (g[x] + G) = c * g[x] + c * G /\ d * (h[x] + H) = d * h[x] + d * H
      BY <3>2, <3>4
    <3>6. c * g[x] \in Int /\ c * G \in Int /\ d * h[x] \in Int /\ d * H \in Int
      BY <3>2, <3>4
    <3>7. QED
      BY <3>2, <3>3, <3>4, <3>5, <3>6
  <2>4. QED
    BY <2>2, <2>3
<1>2. \A s \in SUBSET S : s \in P
  <2> HIDE DEF P
  <2>1. QED
    BY <1>1, SubsetInduction
<1>3. QED
  BY <1>2

-----------------------------------------------------------------------------
(* Multiples, and sums of them. *)

\* Division by a positive number.
LEMMA DivMod ==
    ASSUME NEW u \in Nat \ {0}, NEW x \in Int
    PROVE  /\ x \div u \in Int /\ x % u \in 0..(u - 1)
           /\ x = u * (x \div u) + (x % u)
OBVIOUS
\* Multiples are divided without a rest.
LEMMA Exact ==
    ASSUME NEW u \in Nat \ {0}, NEW q \in Int
    PROVE  (u * q) \div u = q /\ (u * q) % u = 0
<1> DEFINE x == u * q
           d == x \div u
           r == x % u
           e == q - d
<1>1. x \in Int
  OBVIOUS
<1>2. d \in Int /\ r \in 0..(u - 1) /\ x = u * d + r
  <2> HIDE DEF x
  <2>1. QED
    BY <1>1, DivMod
<1> HIDE DEF d, r
<1>3. e \in Int /\ u * e = r
  <2>1. u * (q - d) = u * q - u * d
    BY <1>2
  <2>2. QED
    BY <1>2, <2>1
<1>4. e = 0
  <2> HIDE DEF e
  <2>1. CASE e >= 1
    <3>1. u * e >= u
      BY <1>3, <2>1
    <3>2. QED
      BY <1>2, <1>3, <3>1
  <2>2. CASE e <= -1
    <3>1. u * e <= -u
      BY <1>3, <2>2
    <3>2. QED
      BY <1>2, <1>3, <3>1
  <2>3. QED
    BY <1>3, <2>1, <2>2
<1>5. q = d /\ r = 0
  BY <1>2, <1>4
<1>6. QED
  BY <1>5 DEF d, r

\* Otherwise the quotient is rounded down.
LEMMA Floor ==
    ASSUME NEW u \in Nat \ {0}, NEW x \in Nat
    PROVE  x \div u \in Nat /\ u * (x \div u) <= x
<1> DEFINE d == x \div u
           r == x % u
<1>1. d \in Int /\ r \in 0..(u - 1) /\ x = u * d + r
  BY DivMod
<1> HIDE DEF d, r
<1>2. d >= 0
  <2> SUFFICES ASSUME d <= -1 PROVE FALSE
    BY <1>1
  <2>1. u * d <= -u
    BY <1>1
  <2>2. QED
    BY <1>1, <2>1
<1>3. u * d \in Int
  BY <1>1
<1>4. QED
  BY <1>1, <1>2, <1>3 DEF d

\* A positive factor cancels.
LEMMA Cancel ==
    ASSUME NEW u \in Nat \ {0}, NEW x \in Int, NEW y \in Int
    PROVE  /\ u * x <= u * y => x <= y
           /\ u * x = u * y => x = y
<1>1. ASSUME NEW a \in Int, NEW b \in Int, a >= b + 1 PROVE u * a > u * b
  <2>1. u * a >= u * (b + 1) /\ u * (b + 1) = u * b + u
    BY <1>1
  <2>2. QED
    BY <2>1
<1>2. QED
  BY <1>1
\* Equal terms up to factors, equal sums up to the same.
LEMMA SumProportional ==
    ASSUME NEW g, NEW h, NEW S, IsFiniteSet(S), NEW c \in Int, NEW d \in Int,
           \A x \in S : g[x] \in Int /\ h[x] \in Int /\ c * g[x] = d * h[x]
    PROVE  c * SumFunctionOnSet(g, S) = d * SumFunctionOnSet(h, S)
<1>1. SumFunctionOnSet(g, S) \in Int /\ SumFunctionOnSet(h, S) \in Int
  BY SumType
<1>2. \A x \in S : /\ g[x] \in Int /\ h[x] \in Int
                   /\ c * g[x] <= d * h[x] /\ d * h[x] <= c * g[x]
  <2>1. ASSUME NEW x \in S PROVE c * g[x] <= d * h[x] /\ d * h[x] <= c * g[x]
    <3>1. c * g[x] \in Int /\ d * h[x] \in Int /\ c * g[x] = d * h[x]
      <4>1. g[x] \in Int /\ h[x] \in Int /\ c * g[x] = d * h[x]
        OBVIOUS
      <4>2. QED
        BY <4>1
    <3>2. \A a, b \in Int : a = b => a <= b /\ b <= a
      OBVIOUS
    <3>3. QED
      BY <3>1, <3>2
  <2>2. QED
    BY <2>1
<1>3. c * SumFunctionOnSet(g, S) <= d * SumFunctionOnSet(h, S)
  BY <1>2, SumMonotone
<1>4. d * SumFunctionOnSet(h, S) <= c * SumFunctionOnSet(g, S)
  BY <1>2, SumMonotone
<1> DEFINE A == SumFunctionOnSet(g, S)
           B == SumFunctionOnSet(h, S)
<1>5. c * A \in Int /\ d * B \in Int
  <2> HIDE DEF A, B
  <2>1. QED
    BY <1>1 DEF A, B
<1>6. QED
  BY <1>3, <1>4, <1>5

\* The sum over a sequence with one more entry.
LEMMA SumExtended ==
    ASSUME NEW n \in Nat, NEW g \in [1..n -> Int], NEW h \in [1..(n + 1) -> Int],
           \A i \in 1..n : g[i] = h[i]
    PROVE  SumFunction(h) = SumFunction(g) + h[n + 1]
<1>1. IsFiniteSet(1..n) /\ IsFiniteSet(1..(n + 1))
  BY FS_Interval
<1>2. (1..(n + 1)) \ {n + 1} = 1..n /\ n + 1 \in 1..(n + 1)
  OBVIOUS
<1>3. SumFunctionOnSet(h, 1..(n + 1)) = h[n + 1] + SumFunctionOnSet(h, 1..n)
  <2>1. SumFunctionOnSet(h, 1..(n + 1))
          = h[n + 1] + SumFunctionOnSet(h, (1..(n + 1)) \ {n + 1})
    BY <1>1, <1>2, SumTakeOut
  <2>2. QED
    BY <1>2, <2>1
<1>4. SumFunctionOnSet(h, 1..n) = SumFunctionOnSet(g, 1..n)
  BY <1>1, SumCongruence
<1>5. SumFunctionOnSet(g, 1..n) \in Int /\ h[n + 1] \in Int
  BY <1>1, <1>2, SumType
<1>6. SumFunction(h) = SumFunctionOnSet(h, 1..(n + 1)) /\ SumFunction(g) = SumFunctionOnSet(g, 1..n)
  BY DEF SumFunction
<1>7. QED
  BY <1>3, <1>4, <1>5, <1>6

\* What divides every term divides the sum.
LEMMA SumDivisible ==
    ASSUME NEW g, NEW S, IsFiniteSet(S), NEW u \in Nat \ {0},
           \A x \in S : g[x] \in Int /\ g[x] % u = 0
    PROVE  SumFunctionOnSet(g, S) % u = 0
<1> DEFINE q == [x \in S |-> g[x] \div u]
<1>1. ASSUME NEW x \in S PROVE q[x] \in Int /\ g[x] \in Int /\ 1 * g[x] = u * q[x]
  <2> DEFINE a == g[x]
  <2>1. a \in Int /\ a % u = 0 /\ q[x] = a \div u
    OBVIOUS
  <2> HIDE DEF a, q
  <2>2. a \div u \in Int /\ a = u * (a \div u) + (a % u)
    BY <2>1, DivMod
  <2>3. u * (a \div u) \in Int
    BY <2>2
  <2>4. q[x] \in Int /\ a \in Int /\ 1 * a = u * q[x]
    BY <2>1, <2>2, <2>3
  <2>5. QED
    BY <2>4 DEF a
<1> HIDE DEF q
<1>2. 1 * SumFunctionOnSet(g, S) = u * SumFunctionOnSet(q, S)
  BY <1>1, SumProportional
<1>3. SumFunctionOnSet(g, S) \in Int /\ SumFunctionOnSet(q, S) \in Int
  BY <1>1, SumType
<1> DEFINE A == SumFunctionOnSet(g, S)
           B == SumFunctionOnSet(q, S)
<1> HIDE DEF A, B
<1>4. A = u * B /\ A \in Int /\ B \in Int
  BY <1>2, <1>3 DEF A, B
<1>5. (u * B) % u = 0
  BY <1>4, Exact
<1>6. QED
  BY <1>4, <1>5 DEF A
=============================================================================
