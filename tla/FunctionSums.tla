---------------------------- MODULE FunctionSums ----------------------------
(***************************************************************************)
(* Facts about SumFunctionOnSet and Max of the community modules, which the  *)
(* budget proofs need: what taking out an element, comparing terms and       *)
(* changing one term do to a sum of natural numbers over a finite set.  Each *)
(* induction is on the size of the set, by the smallest counterexample.      *)
(***************************************************************************)
EXTENDS Integers, FiniteSets, Functions, FiniteSetsExt, FiniteSetTheorems, WellFoundedInduction, TLAPS

\* The context of these obligations is long: more time than the default for all of them.
USE SMTT(30), ZenonT(30)

\* A nonempty set of natural numbers has a smallest element.
LEMMA SmallestNat ==
  ASSUME NEW T \in SUBSET Nat, T # {}
  PROVE  \E n \in T : \A m \in T : n <= m
<1>1. PICK n \in T : \A m \in T : <<m, n>> \notin OpToRel(<, Nat)
  BY NatLessThanWellFounded, WFMin
<1>2. \A m \in T : ~(m < n)
  BY <1>1, ZenonT(30) DEF OpToRel
<1> QED BY <1>2

\* A set without one of its elements is smaller.
LEMMA Smaller ==
  ASSUME NEW S, IsFiniteSet(S), NEW x \in S
  PROVE  /\ IsFiniteSet(S \ {x})
         /\ Cardinality(S) \in Nat
         /\ Cardinality(S \ {x}) \in Nat
         /\ Cardinality(S \ {x}) = Cardinality(S) - 1
BY FS_RemoveElement, FS_CardinalityType

-----------------------------------------------------------------------------
(* The recursion behind the sum.                                             *)

Pick(s) == CHOOSE x \in s : TRUE

\* g adds up f over the sets of D, an element at a time.
Sums(g, f, D) ==
    g = [s \in D |-> IF s = {} THEN 0 ELSE f[Pick(s)] + g[s \ {Pick(s)}]]

\* The element picked from a set is one of its own.
LEMMA PickIn == ASSUME NEW s, s # {} PROVE Pick(s) \in s
BY DEF Pick

\* The recursion has a solution.
LEMMA SumsExists ==
  ASSUME NEW f, NEW S, IsFiniteSet(S)
  PROVE  \E g : Sums(g, f, SUBSET S)
<1> DEFINE D(k) == {s \in SUBSET S : Cardinality(s) <= k}
           bad == {k \in Nat : ~ \E g : Sums(g, f, D(k))}
<1>1. \A s \in SUBSET S : IsFiniteSet(s) /\ Cardinality(s) \in Nat /\ Cardinality(s) <= Cardinality(S)
  BY FS_Subset, FS_CardinalityType
<1>2. Cardinality(S) \in Nat /\ D(Cardinality(S)) = SUBSET S
  BY <1>1, FS_CardinalityType
<1>3. \A s \in SUBSET S : s # {} =>
         Pick(s) \in s /\ s \ {Pick(s)} \in SUBSET S
           /\ Cardinality(s \ {Pick(s)}) = Cardinality(s) - 1
  BY <1>1, PickIn, Smaller
<1>4. bad = {}
  <2> SUFFICES ASSUME bad # {} PROVE FALSE
    OBVIOUS
  <2>1. PICK k \in bad : \A m \in bad : k <= m
    BY SmallestNat, ZenonT(30)
  <2>2. CASE k = 0
    <3>1. ASSUME NEW s \in SUBSET S, Cardinality(s) <= 0 PROVE s = {}
      <4>1. IsFiniteSet(s) /\ Cardinality(s) = 0
        BY <1>1, <3>1
      <4> QED BY <4>1, FS_EmptySet
    <3>2. Sums([s \in D(0) |-> 0], f, D(0))
      BY <3>1 DEF Sums
    <3> QED BY <2>2, <3>2, ZenonT(30)
  <2>3. CASE k # 0
    <3>1. k - 1 \in Nat /\ k - 1 \notin bad
      <4>1. k \in Nat /\ k - 1 \in Nat
        BY <2>1, <2>3
      <4> HIDE DEF bad
      <4> QED BY <2>1, <4>1
    <3>2. PICK g : Sums(g, f, D(k - 1))
      BY <3>1, ZenonT(30)
    <3> DEFINE G == [s \in D(k) |-> IF s = {} THEN 0 ELSE f[Pick(s)] + g[s \ {Pick(s)}]]
    <3>3. \A s \in D(k - 1) : s \in D(k) /\ G[s] = g[s]
      <4>1. \A s \in D(k - 1) : s \in D(k)
        BY <1>1, <3>1
      <4>2. \A s \in D(k - 1) : g[s] = IF s = {} THEN 0 ELSE f[Pick(s)] + g[s \ {Pick(s)}]
        BY <3>2, ZenonT(30) DEF Sums
      <4> QED BY <4>1, <4>2, ZenonT(30)
    <3>4. \A s \in D(k) : s # {} => G[s \ {Pick(s)}] = g[s \ {Pick(s)}]
      <4>1. \A s \in D(k) : s # {} => s \ {Pick(s)} \in D(k - 1)
        BY <1>1, <1>3, <3>1
      <4> QED BY <3>3, <4>1, ZenonT(30)
    <3> DEFINE H == [s \in D(k) |-> IF s = {} THEN 0 ELSE f[Pick(s)] + G[s \ {Pick(s)}]]
    <3>5. \A s \in D(k) : G[s] = H[s]
      <4> HIDE DEF D
      <4>1. \A s \in D(k) : G[s] = IF s = {} THEN 0 ELSE f[Pick(s)] + g[s \ {Pick(s)}]
        OBVIOUS
      <4>2. \A s \in D(k) : H[s] = IF s = {} THEN 0 ELSE f[Pick(s)] + G[s \ {Pick(s)}]
        OBVIOUS
      <4> HIDE DEF G, H
      <4> QED BY <3>4, <4>1, <4>2, ZenonT(30)
    <3>6. G = H
      BY <3>5, ZenonT(30)
    <3>7. Sums(G, f, D(k))
      BY <3>6, ZenonT(30) DEF Sums
    <3> QED BY <3>7, ZenonT(30)
  <2> QED BY <2>2, <2>3
<1> QED BY <1>2, <1>4

\* The community modules' sum is the solution's value.
LEMMA SumIsSums ==
  ASSUME NEW f, NEW S, IsFiniteSet(S)
  PROVE  \E g : Sums(g, f, SUBSET S) /\ SumFunctionOnSet(f, S) = g[S]
<1> DEFINE g == CHOOSE h : Sums(h, f, SUBSET S)
<1>1. Sums(g, f, SUBSET S)
  BY SumsExists, ZenonT(30)
<1>2. SumFunctionOnSet(f, S) = g[S]
  BY DEF SumFunctionOnSet, FoldFunctionOnSet, MapThenFoldSet, Sums, Pick
<1> QED BY <1>1, <1>2, ZenonT(30)

\* The recursion has one solution, whatever the set it is defined on.
LEMMA SumsAgree ==
  ASSUME NEW f, NEW S, NEW R, NEW g, NEW h, R \subseteq S, IsFiniteSet(S),
         Sums(g, f, SUBSET S), Sums(h, f, SUBSET R)
  PROVE  g[R] = h[R]
<1> DEFINE bad == {s \in SUBSET R : g[s] # h[s]}
           sizes == {Cardinality(s) : s \in bad}
<1> SUFFICES ASSUME bad # {} PROVE FALSE
  OBVIOUS
<1>1. \A s \in SUBSET R : s \in SUBSET S /\ IsFiniteSet(s) /\ Cardinality(s) \in Nat
  BY FS_Subset, FS_CardinalityType
<1>2. sizes \in SUBSET Nat /\ sizes # {}
  BY <1>1
<1>3. PICK s \in bad : \A r \in bad : Cardinality(s) <= Cardinality(r)
  <2>1. PICK n \in sizes : \A m \in sizes : n <= m
    BY <1>2, SmallestNat, ZenonT(30)
  <2> QED BY <2>1
<1>4. /\ g[s] = IF s = {} THEN 0 ELSE f[Pick(s)] + g[s \ {Pick(s)}]
      /\ h[s] = IF s = {} THEN 0 ELSE f[Pick(s)] + h[s \ {Pick(s)}]
  BY <1>1, ZenonT(30) DEF Sums
<1>5. s # {}
  BY <1>4
<1>6. Cardinality(s \ {Pick(s)}) = Cardinality(s) - 1 /\ Cardinality(s) \in Nat
  BY <1>1, <1>5, PickIn, Smaller
<1>7. s \ {Pick(s)} \notin bad
  BY <1>3, <1>6
<1>8. g[s \ {Pick(s)}] = h[s \ {Pick(s)}]
  BY <1>7
<1> QED BY <1>4, <1>5, <1>8

-----------------------------------------------------------------------------
(* Sums of natural numbers.                                                  *)

\* Nothing adds up to nothing.
LEMMA SumEmpty ==
  ASSUME NEW f
  PROVE  SumFunctionOnSet(f, {}) = 0
<1>1. PICK g : Sums(g, f, SUBSET {}) /\ SumFunctionOnSet(f, {}) = g[{}]
  BY FS_EmptySet, SumIsSums, ZenonT(30)
<1>2. {} \in SUBSET {}
  OBVIOUS
<1> QED BY <1>1, <1>2 DEF Sums

\* The sum takes the chosen element first.
LEMMA SumPick ==
  ASSUME NEW f, NEW S, IsFiniteSet(S), S # {}
  PROVE  SumFunctionOnSet(f, S) = f[Pick(S)] + SumFunctionOnSet(f, S \ {Pick(S)})
<1>1. PICK R : R = S \ {Pick(S)}
  BY ZenonT(30)
<1>2. R \subseteq S /\ R \in SUBSET R /\ IsFiniteSet(R)
  BY <1>1, PickIn, Smaller
<1>3. PICK g : Sums(g, f, SUBSET S) /\ SumFunctionOnSet(f, S) = g[S]
  BY SumIsSums, ZenonT(30)
<1>4. PICK h : Sums(h, f, SUBSET R) /\ SumFunctionOnSet(f, R) = h[R]
  BY <1>2, SumIsSums, ZenonT(30)
<1>5. g[R] = h[R]
  <2>1. Sums(g, f, SUBSET S) /\ Sums(h, f, SUBSET R)
    BY <1>3, <1>4
  <2> QED BY ONLY <1>2, <2>1, IsFiniteSet(S), SumsAgree
<1>6. g[S] = f[Pick(S)] + g[R]
  BY <1>1, <1>3, ZenonT(30) DEF Sums
<1> QED BY <1>1, <1>3, <1>4, <1>5, <1>6

\* A sum of natural numbers is one.
LEMMA SumType ==
  ASSUME NEW f, NEW S, IsFiniteSet(S), \A x \in S : f[x] \in Nat
  PROVE  SumFunctionOnSet(f, S) \in Nat
<1> DEFINE bad == {s \in SUBSET S : SumFunctionOnSet(f, s) \notin Nat}
           sizes == {Cardinality(s) : s \in bad}
<1> SUFFICES ASSUME bad # {} PROVE FALSE
  OBVIOUS
<1>1. \A s \in SUBSET S : IsFiniteSet(s) /\ Cardinality(s) \in Nat
  BY FS_Subset, FS_CardinalityType
<1>2. sizes \in SUBSET Nat /\ sizes # {}
  BY <1>1
<1>3. PICK s \in bad : \A r \in bad : Cardinality(s) <= Cardinality(r)
  <2>1. PICK n \in sizes : \A m \in sizes : n <= m
    BY <1>2, SmallestNat, ZenonT(30)
  <2> QED BY <2>1
<1>4. s # {}
  BY SumEmpty
<1>5. Pick(s) \in s /\ Cardinality(s \ {Pick(s)}) = Cardinality(s) - 1
  BY <1>1, <1>4, PickIn, Smaller
<1>6. s \ {Pick(s)} \in SUBSET S /\ s \ {Pick(s)} \notin bad
  BY <1>1, <1>3, <1>5
<1>7. SumFunctionOnSet(f, s \ {Pick(s)}) \in Nat /\ f[Pick(s)] \in Nat
  BY <1>5, <1>6
<1>8. SumFunctionOnSet(f, s) = f[Pick(s)] + SumFunctionOnSet(f, s \ {Pick(s)})
  BY <1>1, <1>4, SumPick
<1> QED BY <1>7, <1>8

\* Any element may be taken first.
LEMMA SumRemove ==
  ASSUME NEW f, NEW S, IsFiniteSet(S), \A x \in S : f[x] \in Nat, NEW x \in S
  PROVE  SumFunctionOnSet(f, S) = f[x] + SumFunctionOnSet(f, S \ {x})
<1> DEFINE Sum(s) == SumFunctionOnSet(f, s)
           good(s) == \A y \in s : Sum(s) = f[y] + Sum(s \ {y})
           bad == {s \in SUBSET S : ~good(s)}
           sizes == {Cardinality(s) : s \in bad}
<1> SUFFICES ASSUME bad # {} PROVE FALSE
  OBVIOUS
<1>1. \A s \in SUBSET S : IsFiniteSet(s) /\ Cardinality(s) \in Nat /\ Sum(s) \in Nat
  BY FS_Subset, FS_CardinalityType, SumType
<1>2. sizes \in SUBSET Nat /\ sizes # {}
  BY <1>1
<1>3. PICK s \in bad : \A r \in bad : Cardinality(s) <= Cardinality(r)
  <2>1. PICK n \in sizes : \A m \in sizes : n <= m
    BY <1>2, SmallestNat, ZenonT(30)
  <2> HIDE DEF bad
  <2> QED BY <2>1
<1>4. PICK y \in s : Sum(s) # f[y] + Sum(s \ {y})
  BY <1>3, ZenonT(30)
<1> DEFINE c == Pick(s)
<1>5. c \in s /\ Sum(s) = f[c] + Sum(s \ {c})
  BY <1>1, <1>4, PickIn, SumPick
<1>6. c # y
  BY <1>4, <1>5
<1> HIDE DEF c
<1>7. /\ Cardinality(s \ {c}) = Cardinality(s) - 1
      /\ Cardinality(s \ {y}) = Cardinality(s) - 1
  BY <1>1, <1>5, Smaller
<1>8. good(s \ {c}) /\ good(s \ {y})
  <2>1. s \ {c} \in SUBSET S /\ s \ {y} \in SUBSET S /\ Cardinality(s) \in Nat
    BY <1>1
  <2>2. s \ {c} \notin bad /\ s \ {y} \notin bad
    <3> HIDE DEF bad
    <3> QED BY <1>3, <1>7, <2>1
  <2> HIDE DEF good
  <2> QED BY <2>1, <2>2
<1> DEFINE rest == s \ {c, y}
<1>9. (s \ {c}) \ {y} = rest /\ (s \ {y}) \ {c} = rest
  OBVIOUS
<1>10. Sum(s \ {c}) = f[y] + Sum(rest) /\ Sum(s \ {y}) = f[c] + Sum(rest)
  BY <1>5, <1>6, <1>8, <1>9, ZenonT(30)
<1>11. f[c] \in Nat /\ f[y] \in Nat /\ Sum(rest) \in Nat
  BY <1>1, <1>5
<1> QED BY <1>4, <1>5, <1>10, <1>11

\* A sum is bounded by the sums of what bounds its terms.
LEMMA SumBound ==
  ASSUME NEW f, NEW g, NEW h, NEW S, IsFiniteSet(S),
         \A x \in S : f[x] \in Nat /\ g[x] \in Nat /\ h[x] \in Nat /\ f[x] <= g[x] + h[x]
  PROVE  SumFunctionOnSet(f, S) <= SumFunctionOnSet(g, S) + SumFunctionOnSet(h, S)
<1> DEFINE Sum(k, s) == SumFunctionOnSet(k, s)
           bad == {s \in SUBSET S : ~(Sum(f, s) <= Sum(g, s) + Sum(h, s))}
           sizes == {Cardinality(s) : s \in bad}
<1> SUFFICES ASSUME bad # {} PROVE FALSE
  OBVIOUS
<1>1. \A s \in SUBSET S :
         /\ IsFiniteSet(s) /\ Cardinality(s) \in Nat
         /\ Sum(f, s) \in Nat /\ Sum(g, s) \in Nat /\ Sum(h, s) \in Nat
  BY FS_Subset, FS_CardinalityType, SumType
<1>2. sizes \in SUBSET Nat /\ sizes # {}
  BY <1>1
<1>3. PICK s \in bad : \A r \in bad : Cardinality(s) <= Cardinality(r)
  <2>1. PICK n \in sizes : \A m \in sizes : n <= m
    BY <1>2, SmallestNat, ZenonT(30)
  <2> HIDE DEF bad
  <2> QED BY <2>1
<1>4. s # {}
  <2>1. Sum(f, {}) = 0 /\ Sum(g, {}) = 0 /\ Sum(h, {}) = 0
    BY SumEmpty
  <2> HIDE DEF Sum
  <2>2. Sum(f, {}) <= Sum(g, {}) + Sum(h, {})
    BY <2>1
  <2> QED BY <2>2
<1> DEFINE c == Pick(s)
           r == s \ {c}
<1>5. c \in s /\ r \in SUBSET S /\ Cardinality(r) = Cardinality(s) - 1
  BY <1>1, <1>4, PickIn, Smaller
<1>6. Sum(f, r) <= Sum(g, r) + Sum(h, r)
  BY <1>1, <1>3, <1>5
<1>7. /\ Sum(f, s) = f[c] + Sum(f, r)
      /\ Sum(g, s) = g[c] + Sum(g, r)
      /\ Sum(h, s) = h[c] + Sum(h, r)
  BY <1>1, <1>4, SumPick
<1>8. /\ f[c] \in Nat /\ g[c] \in Nat /\ h[c] \in Nat /\ f[c] <= g[c] + h[c]
      /\ Sum(f, r) \in Nat /\ Sum(g, r) \in Nat /\ Sum(h, r) \in Nat
      /\ ~(Sum(f, s) <= Sum(g, s) + Sum(h, s))
  BY <1>1, <1>3, <1>5
<1> HIDE DEF c, r, Sum
<1> QED BY <1>6, <1>7, <1>8

\* Zeros add up to zero.
LEMMA SumZero ==
  ASSUME NEW f, NEW S, IsFiniteSet(S), \A x \in S : f[x] = 0
  PROVE  SumFunctionOnSet(f, S) = 0
<1> DEFINE bad == {s \in SUBSET S : SumFunctionOnSet(f, s) # 0}
           sizes == {Cardinality(s) : s \in bad}
<1> SUFFICES ASSUME bad # {} PROVE FALSE
  OBVIOUS
<1>1. \A s \in SUBSET S : IsFiniteSet(s) /\ Cardinality(s) \in Nat
  BY FS_Subset, FS_CardinalityType
<1>2. sizes \in SUBSET Nat /\ sizes # {}
  BY <1>1
<1>3. PICK s \in bad : \A r \in bad : Cardinality(s) <= Cardinality(r)
  <2>1. PICK n \in sizes : \A m \in sizes : n <= m
    BY <1>2, SmallestNat, ZenonT(30)
  <2> QED BY <2>1
<1>4. s # {}
  BY SumEmpty
<1>5. Pick(s) \in s /\ Cardinality(s \ {Pick(s)}) = Cardinality(s) - 1
  BY <1>1, <1>4, PickIn, Smaller
<1>6. s \ {Pick(s)} \in SUBSET S /\ s \ {Pick(s)} \notin bad
  BY <1>1, <1>3, <1>5
<1>7. SumFunctionOnSet(f, s \ {Pick(s)}) = 0 /\ f[Pick(s)] = 0
  BY <1>5, <1>6
<1>8. SumFunctionOnSet(f, s) = f[Pick(s)] + SumFunctionOnSet(f, s \ {Pick(s)})
  BY <1>1, <1>4, SumPick
<1> QED BY <1>7, <1>8

\* A sum depends on its terms only.
LEMMA SumSame ==
  ASSUME NEW f, NEW g, NEW S, IsFiniteSet(S), \A x \in S : f[x] \in Nat /\ f[x] = g[x]
  PROVE  SumFunctionOnSet(f, S) = SumFunctionOnSet(g, S)
<1> DEFINE z == [x \in S |-> 0]
<1>1. \A x \in S : z[x] = 0
  OBVIOUS
<1> HIDE DEF z
<1>2. SumFunctionOnSet(z, S) = 0
  BY <1>1, SumZero
<1>3. SumFunctionOnSet(f, S) \in Nat /\ SumFunctionOnSet(g, S) \in Nat
  BY SumType
<1>4. SumFunctionOnSet(f, S) <= SumFunctionOnSet(g, S) + SumFunctionOnSet(z, S)
  BY <1>1, SumBound
<1>5. SumFunctionOnSet(g, S) <= SumFunctionOnSet(f, S) + SumFunctionOnSet(z, S)
  BY <1>1, SumBound
<1> QED BY <1>2, <1>3, <1>4, <1>5

\* Changing one term changes the sum by as much.
LEMMA SumChange ==
  ASSUME NEW f, NEW g, NEW S, IsFiniteSet(S), NEW x \in S,
         \A y \in S : f[y] \in Nat /\ g[y] \in Nat,
         \A y \in S : y # x => f[y] = g[y]
  PROVE  SumFunctionOnSet(f, S) + g[x] = SumFunctionOnSet(g, S) + f[x]
<1>1. IsFiniteSet(S \ {x})
  BY Smaller
<1>2. SumFunctionOnSet(f, S \ {x}) \in Nat
  BY <1>1, SumType
<1>3. SumFunctionOnSet(f, S \ {x}) = SumFunctionOnSet(g, S \ {x})
  BY <1>1, SumSame
<1>4. SumFunctionOnSet(f, S) = f[x] + SumFunctionOnSet(f, S \ {x})
  BY SumRemove
<1>5. SumFunctionOnSet(g, S) = g[x] + SumFunctionOnSet(g, S \ {x})
  BY SumRemove
<1> QED BY <1>2, <1>3, <1>4, <1>5

\* A finite, nonempty set of natural numbers has a greatest element.
LEMMA MaxOfFinite ==
  ASSUME NEW S \in SUBSET Nat, IsFiniteSet(S), S # {}
  PROVE  Max(S) \in S /\ \A y \in S : y <= Max(S)
<1> DEFINE HasMax(s) == \E x \in s : \A y \in s : x >= y
           bad == {s \in SUBSET S : s # {} /\ ~HasMax(s)}
           sizes == {Cardinality(s) : s \in bad}
<1>1. bad = {}
  <2> SUFFICES ASSUME bad # {} PROVE FALSE
    OBVIOUS
  <2>1. \A s \in SUBSET S : IsFiniteSet(s) /\ Cardinality(s) \in Nat
    BY FS_Subset, FS_CardinalityType, ZenonT(30)
  <2>2. sizes \in SUBSET Nat /\ sizes # {}
    BY <2>1
  <2>3. PICK s \in bad : \A r \in bad : Cardinality(s) <= Cardinality(r)
    <3>1. PICK n \in sizes : \A m \in sizes : n <= m
      BY <2>2, SmallestNat, ZenonT(30)
    <3> HIDE DEF bad
    <3> QED BY <3>1
  <2>4. s \in SUBSET S /\ s # {} /\ ~HasMax(s)
    BY <2>3
  <2>5. PICK x : x \in s
    BY <2>4
  <2> DEFINE r == s \ {x}
  <2>6. Cardinality(r) = Cardinality(s) - 1 /\ Cardinality(s) \in Nat /\ r \in SUBSET S
    BY <2>1, <2>5, Smaller
  <2>7. r \notin bad
    <3> HIDE DEF bad, r
    <3> QED BY <2>3, <2>6
  <2>8. CASE r = {}
    <3>1. s = {x}
      BY <2>5, <2>8
    <3>2. x >= x
      BY <2>4, <2>5
    <3> QED BY <2>4, <3>1, <3>2
  <2>9. CASE r # {}
    <3>1. PICK z \in r : \A y \in r : z >= y
      BY <2>6, <2>7, <2>9
    <3>2. x \in Nat /\ z \in Nat /\ \A y \in s : y \in Nat /\ (y = x \/ y \in r)
      BY <2>4, <2>5
    <3>3. CASE x >= z
      <4>1. \A y \in s : x >= y
        BY <3>1, <3>2, <3>3
      <4> QED BY <2>4, <2>5, <4>1
    <3>4. CASE z >= x
      <4>1. z \in s /\ \A y \in s : z >= y
        BY <3>1, <3>2, <3>4
      <4> QED BY <2>4, <4>1
    <3> QED BY <3>2, <3>3, <3>4
  <2> QED BY <2>8, <2>9
<1>2. HasMax(S)
  BY <1>1
<1>3. Max(S) \in S /\ \A y \in S : Max(S) >= y
  BY <1>2, ZenonT(30) DEF Max
<1> QED BY <1>3

\* A function takes finitely many values on a finite set.
LEMMA FiniteImage ==
  ASSUME NEW S, IsFiniteSet(S), NEW f
  PROVE  IsFiniteSet({f[x] : x \in S})
<1> DEFINE T == {f[x] : x \in S}
           g == [x \in S |-> f[x]]
<1>1. g \in Surjection(S, T)
  BY DEF Surjection
<1> QED BY <1>1, FS_Surjection
=============================================================================
