------------------------------- MODULE Sums -------------------------------
(***************************************************************************)
(* What SumFunctionOnSet of the community modules computes on finite sets. *)
(* Its definition is a recursive function on sets; everything here follows *)
(* from the existence of minimal elements: a least number, a smallest      *)
(* subset that is no example.                                              *)
(***************************************************************************)
EXTENDS SumLaws, FiniteSetTheorems, WellFoundedInduction, TLAPS

\* A set of natural numbers that is not empty has a least element.
LEMMA LeastNumber ==
    ASSUME NEW T, T \subseteq Nat, T # {}
    PROVE  \E m \in T : \A k \in T : m <= k
<1> DEFINE Less == {p \in Nat \X Nat : p[1] < p[2]}
<1>1. IsWellFoundedOn(Less, Nat)
  BY NatLessThanWellFounded, Zenon DEF OpToRel
<1>2. \E m \in T : \A k \in T : ~ (<<k, m>> \in Less)
  BY <1>1, WFMin, Zenon
<1>3. \A k \in Nat, m \in Nat : <<k, m>> \in Less \/ m <= k
  OBVIOUS
<1> HIDE DEF Less
<1> QED BY <1>2, <1>3, Zenon

\* A family of subsets of a finite set that is not empty has a minimal element.
LEMMA SmallestSubset ==
    ASSUME NEW S, IsFiniteSet(S), NEW T, T \subseteq SUBSET S, T # {}
    PROVE  \E s \in T : \A t \in T : t \subseteq s => t = s
<1>1. IsWellFoundedOn(StrictSubsetOrdering(S), FiniteSubsetsOf(S))
  BY FS_StrictSubsetOrderingWellFounded
<1>2. T \subseteq FiniteSubsetsOf(S)
  BY FS_FiniteSubsetsOfFinite
<1>3. \E s \in T : \A t \in T : ~ (<<t, s>> \in StrictSubsetOrdering(S))
  BY <1>1, <1>2, WFMin
<1> QED BY <1>3, Zenon DEF StrictSubsetOrdering

(* Induction over the subsets of a finite set: Good is the set of those     *)
(* that have the property.                                                  *)
LEMMA SetInduction ==
    ASSUME NEW S, IsFiniteSet(S), NEW Good, {} \in Good,
           \A s \in SUBSET S, x \in S : s \in Good /\ x \notin s => s \cup {x} \in Good
    PROVE  S \in Good
<1> DEFINE Bad == {s \in SUBSET S : s \notin Good}
<1> SUFFICES ASSUME S \notin Good PROVE FALSE
  OBVIOUS
<1>1. Bad \subseteq SUBSET S /\ S \in Bad
  OBVIOUS
<1> HIDE DEF Bad
<1>2. PICK s \in Bad : \A t \in Bad : t \subseteq s => t = s
  BY <1>1, SmallestSubset
<1> USE DEF Bad
<1>3. PICK x : x \in s
  OBVIOUS
<1>4. s \ {x} \in Good /\ (s \ {x}) \cup {x} = s
  BY <1>2, <1>3
<1> QED BY <1>3, <1>4

-----------------------------------------------------------------------------
(* The element that the fold takes out of a set, and a function that        *)
(* satisfies the equation of the fold on a family of sets.                  *)
Taken(s) == CHOOSE x \in s : TRUE

Solves(g, f, sets) ==
    g = [s \in sets |-> IF s = {} THEN 0 ELSE f[Taken(s)] + g[s \ {Taken(s)}]]

\* The element taken out of a set is one of its elements.
LEMMA TakenMember == ASSUME NEW s, s # {} PROVE Taken(s) \in s
BY DEF Taken

(* The equation has a solution: it is built up by the size of the sets.     *)
LEMMA FoldExists ==
    ASSUME NEW f, NEW S, IsFiniteSet(S)
    PROVE  \E g : Solves(g, f, SUBSET S)
<1> DEFINE Small(n) == {s \in SUBSET S : Cardinality(s) <= n}
           Bad == {n \in Nat : ~ \E g : Solves(g, f, Small(n))}
<1>0. \A s \in SUBSET S : IsFiniteSet(s) /\ Cardinality(s) \in Nat /\ Cardinality(s) <= Cardinality(S)
  BY FS_Subset, FS_CardinalityType
<1>1. Bad = {}
  <2> SUFFICES ASSUME Bad # {} PROVE FALSE
    OBVIOUS
  <2>1. PICK n \in Bad : \A k \in Bad : n <= k
    BY LeastNumber, Zenon
  <2>2. CASE n = 0
    <3> DEFINE g == [s \in Small(0) |-> 0]
    <3>1. \A s \in Small(0) : s = {}
      BY <1>0, FS_EmptySet
    <3>2. Solves(g, f, Small(0))
      BY <3>1 DEF Solves
    <3> QED BY <2>2, <3>2, Zenon
  <2>3. CASE n # 0
    <3>1. n \in Nat /\ n - 1 \in Nat /\ n - 1 \notin Bad
      <4>1. n \in Nat
        OBVIOUS
      <4> HIDE DEF Bad
      <4> QED BY <2>1, <2>3, <4>1
    <3>2. PICK g : Solves(g, f, Small(n - 1))
      BY <3>1, Zenon
    <3> DEFINE h == [s \in Small(n) |-> IF s \in Small(n - 1) THEN g[s]
                                        ELSE f[Taken(s)] + g[s \ {Taken(s)}]]
    <3>3. \A s \in Small(n) : s # {} => s \ {Taken(s)} \in Small(n - 1)
      <4> SUFFICES ASSUME NEW s \in Small(n), s # {} PROVE s \ {Taken(s)} \in Small(n - 1)
        OBVIOUS
      <4>1. Taken(s) \in s /\ IsFiniteSet(s) /\ Cardinality(s) \in Nat
        BY <1>0, TakenMember
      <4>2. Cardinality(s \ {Taken(s)}) = Cardinality(s) - 1
        BY <4>1, FS_RemoveElement, Zenon
      <4> QED BY <4>1, <4>2
    <3>4. \A s \in Small(n - 1) : s \in Small(n) /\ h[s] = g[s]
      BY <1>0
    <3>5. \A s \in Small(n - 1) : g[s] = IF s = {} THEN 0 ELSE f[Taken(s)] + g[s \ {Taken(s)}]
      BY <3>2, Zenon DEF Solves
    <3>6. {} \in Small(n - 1)
      BY <3>1, FS_EmptySet
    <3>7. ASSUME NEW s \in Small(n)
          PROVE  h[s] = IF s = {} THEN 0 ELSE f[Taken(s)] + h[s \ {Taken(s)}]
      <4>1. CASE s = {}
        BY <3>4, <3>5, <3>6, <4>1, Zenon
      <4>2. CASE s # {}
        <5>1. h[s \ {Taken(s)}] = g[s \ {Taken(s)}]
          BY <3>3, <3>4, <4>2, Zenon
        <5>2. h[s] = f[Taken(s)] + g[s \ {Taken(s)}]
          BY <3>5, <4>2, Zenon
        <5> QED BY <4>2, <5>1, <5>2
      <4> QED BY <4>1, <4>2
    <3>8. h = [s \in Small(n) |-> h[s]]
      OBVIOUS
    <3> HIDE DEF h
    <3>9. Solves(h, f, Small(n))
      BY <3>7, <3>8, Zenon DEF Solves
    <3> QED BY <3>9, Zenon
  <2> QED BY <2>2, <2>3
<1>2. Cardinality(S) \in Nat /\ Small(Cardinality(S)) = SUBSET S
  BY <1>0
<1>3. \E g : Solves(g, f, Small(Cardinality(S)))
  BY <1>1, <1>2, Zenon
<1> QED BY <1>2, <1>3, Zenon

Fold(f, S) == CHOOSE g : Solves(g, f, SUBSET S)

\* SumFunctionOnSet is the solution of the equation on the subsets of its set.
LEMMA SumIsFold == ASSUME NEW f, NEW S PROVE SumFunctionOnSet(f, S) = Fold(f, S)[S]
BY DEF SumFunctionOnSet, FoldFunctionOnSet, MapThenFoldSet, Fold, Solves, Taken

\* The fold satisfies its equation on every subset.
LEMMA FoldEquation ==
    ASSUME NEW f, NEW S, IsFiniteSet(S), NEW s \in SUBSET S
    PROVE  Fold(f, S)[s] = IF s = {} THEN 0 ELSE f[Taken(s)] + Fold(f, S)[s \ {Taken(s)}]
<1>1. Solves(Fold(f, S), f, SUBSET S)
  BY FoldExists, Zenon DEF Fold
<1> QED BY <1>1, Zenon DEF Solves

(* The fold over a set uses the set only through its subsets.               *)
LEMMA FoldLocal ==
    ASSUME NEW f, NEW S, IsFiniteSet(S), NEW R \in SUBSET S
    PROVE  Fold(f, S)[R] = Fold(f, R)[R]
<1> DEFINE Bad == {s \in SUBSET R : Fold(f, S)[s] # Fold(f, R)[s]}
<1>1. IsFiniteSet(R)
  BY FS_Subset
<1>2. Bad = {}
  <2> SUFFICES ASSUME Bad # {} PROVE FALSE
    OBVIOUS
  <2>0. Bad \subseteq SUBSET R
    OBVIOUS
  <2> HIDE DEF Bad
  <2>1. PICK s \in Bad : \A t \in Bad : t \subseteq s => t = s
    BY <1>1, <2>0, SmallestSubset
  <2> USE DEF Bad
  <2>2. /\ Fold(f, S)[s] = IF s = {} THEN 0 ELSE f[Taken(s)] + Fold(f, S)[s \ {Taken(s)}]
        /\ Fold(f, R)[s] = IF s = {} THEN 0 ELSE f[Taken(s)] + Fold(f, R)[s \ {Taken(s)}]
    BY <1>1, FoldEquation
  <2>3. s # {}
    BY <2>2
  <2>4. s \ {Taken(s)} # s
    BY <2>3, TakenMember
  <2>5. s \ {Taken(s)} \notin Bad
    BY <2>1, <2>4
  <2> QED BY <2>2, <2>3, <2>5
<1> QED BY <1>2

(* The sum over no element, and the sum with the taken element apart.       *)
LEMMA SumEmpty == ASSUME NEW f PROVE SumFunctionOnSet(f, {}) = 0
BY SumIsFold, FoldEquation, FS_EmptySet

\* The sum over a set, by the element the fold takes out of it.
LEMMA SumTaken ==
    ASSUME NEW f, NEW S, IsFiniteSet(S), S # {}
    PROVE  SumFunctionOnSet(f, S) = f[Taken(S)] + SumFunctionOnSet(f, S \ {Taken(S)})
<1>1. Fold(f, S)[S] = f[Taken(S)] + Fold(f, S)[S \ {Taken(S)}]
  BY FoldEquation
<1>2. Fold(f, S)[S \ {Taken(S)}] = Fold(f, S \ {Taken(S)})[S \ {Taken(S)}]
  BY FoldLocal
<1> QED BY <1>1, <1>2, SumIsFold

(* A sum of integers is an integer, and of naturals a natural.              *)
LEMMA SumInt ==
    ASSUME NEW f, NEW S, IsFiniteSet(S), \A x \in S : f[x] \in Int
    PROVE  SumFunctionOnSet(f, S) \in Int
<1> DEFINE Bad == {s \in SUBSET S : SumFunctionOnSet(f, s) \notin Int}
<1>1. Bad = {}
  <2> SUFFICES ASSUME Bad # {} PROVE FALSE
    OBVIOUS
  <2>0. Bad \subseteq SUBSET S
    OBVIOUS
  <2> HIDE DEF Bad
  <2>1. PICK s \in Bad : \A t \in Bad : t \subseteq s => t = s
    BY <2>0, SmallestSubset
  <2> USE DEF Bad
  <2>2. s # {}
    BY SumEmpty
  <2>3. Taken(s) \in s /\ IsFiniteSet(s)
    BY <2>2, TakenMember, FS_Subset
  <2>4. SumFunctionOnSet(f, s \ {Taken(s)}) \in Int
    BY <2>1, <2>3
  <2> QED BY <2>2, <2>3, <2>4, SumTaken
<1> QED BY <1>1

\* A sum of natural numbers is a natural number.
LEMMA SumNat ==
    ASSUME NEW f, NEW S, IsFiniteSet(S), \A x \in S : f[x] \in Nat
    PROVE  SumFunctionOnSet(f, S) \in Nat
<1> DEFINE Bad == {s \in SUBSET S : SumFunctionOnSet(f, s) \notin Nat}
<1>1. Bad = {}
  <2> SUFFICES ASSUME Bad # {} PROVE FALSE
    OBVIOUS
  <2>0. Bad \subseteq SUBSET S
    OBVIOUS
  <2> HIDE DEF Bad
  <2>1. PICK s \in Bad : \A t \in Bad : t \subseteq s => t = s
    BY <2>0, SmallestSubset
  <2> USE DEF Bad
  <2>2. s # {}
    BY SumEmpty
  <2>3. Taken(s) \in s /\ IsFiniteSet(s)
    BY <2>2, TakenMember, FS_Subset
  <2>4. SumFunctionOnSet(f, s \ {Taken(s)}) \in Nat
    BY <2>1, <2>3
  <2> QED BY <2>2, <2>3, <2>4, SumTaken
<1> QED BY <1>1

(* Any element may be taken apart.                                          *)
LEMMA SumRemove ==
    ASSUME NEW f, NEW S, IsFiniteSet(S), \A x \in S : f[x] \in Int, NEW e \in S
    PROVE  SumFunctionOnSet(f, S) = f[e] + SumFunctionOnSet(f, S \ {e})
<1> DEFINE Bad == {s \in SUBSET S :
                     \E x \in s : SumFunctionOnSet(f, s) # f[x] + SumFunctionOnSet(f, s \ {x})}
<1>1. Bad = {}
  <2> SUFFICES ASSUME Bad # {} PROVE FALSE
    OBVIOUS
  <2>0. Bad \subseteq SUBSET S
    OBVIOUS
  <2> HIDE DEF Bad
  <2>1. PICK s \in Bad : \A t \in Bad : t \subseteq s => t = s
    BY <2>0, SmallestSubset
  <2> USE DEF Bad
  <2>2. PICK x \in s : SumFunctionOnSet(f, s) # f[x] + SumFunctionOnSet(f, s \ {x})
    OBVIOUS
  <2> DEFINE c == Taken(s)
  <2>3. c \in s /\ \A t \in SUBSET s : IsFiniteSet(t)
    BY TakenMember, FS_Subset
  <2>4. SumFunctionOnSet(f, s) = f[c] + SumFunctionOnSet(f, s \ {c})
    BY <2>3, SumTaken
  <2> HIDE DEF c
  <2>5. c # x
    BY <2>2, <2>4, Zenon
  <2>6. s \ {c} \notin Bad /\ s \ {x} \notin Bad
    BY <2>1, <2>3, Zenon
  <2>7. SumFunctionOnSet(f, s \ {c}) = f[x] + SumFunctionOnSet(f, (s \ {c}) \ {x})
    BY <2>3, <2>5, <2>6, Zenon
  <2>8. SumFunctionOnSet(f, s \ {x}) = f[c] + SumFunctionOnSet(f, (s \ {x}) \ {c})
    BY <2>3, <2>5, <2>6, Zenon
  <2>9. (s \ {c}) \ {x} = (s \ {x}) \ {c}
    OBVIOUS
  <2>10. SumFunctionOnSet(f, (s \ {c}) \ {x}) \in Int /\ f[x] \in Int /\ f[c] \in Int
    BY <2>3, SumInt
  <2> QED BY <2>2, <2>4, <2>7, <2>8, <2>9, <2>10
<1> QED BY <1>1, Zenon

\* A new element adds its value to the sum.
LEMMA SumAdd ==
    ASSUME NEW f, NEW S, IsFiniteSet(S), NEW e, e \notin S, \A x \in S \cup {e} : f[x] \in Int
    PROVE  SumFunctionOnSet(f, S \cup {e}) = SumFunctionOnSet(f, S) + f[e]
<1>1. IsFiniteSet(S \cup {e}) /\ (S \cup {e}) \ {e} = S
  BY FS_AddElement
<1>2. SumFunctionOnSet(f, S \cup {e}) = f[e] + SumFunctionOnSet(f, S)
  BY <1>1, SumRemove
<1>3. SumFunctionOnSet(f, S) \in Int
  BY SumInt
<1> QED BY <1>2, <1>3

-----------------------------------------------------------------------------
(* Functions that agree on a set have the same sum over it.                 *)
LEMMA SumSame ==
    ASSUME NEW f, NEW g, NEW S, IsFiniteSet(S), \A x \in S : f[x] \in Int /\ g[x] = f[x]
    PROVE  SumFunctionOnSet(g, S) = SumFunctionOnSet(f, S)
<1> DEFINE Good == {s \in SUBSET S : SumFunctionOnSet(g, s) = SumFunctionOnSet(f, s)}
<1>1. {} \in Good
  BY SumEmpty
<1>2. ASSUME NEW s \in SUBSET S, NEW x \in S, s \in Good, x \notin s
      PROVE  s \cup {x} \in Good
  <2>1. IsFiniteSet(s)
    BY FS_Subset
  <2>2. /\ SumFunctionOnSet(g, s \cup {x}) = SumFunctionOnSet(g, s) + g[x]
        /\ SumFunctionOnSet(f, s \cup {x}) = SumFunctionOnSet(f, s) + f[x]
    BY <1>2, <2>1, SumAdd
  <2> QED BY <1>2, <2>2
<1> HIDE DEF Good
<1>3. S \in Good
  BY <1>1, <1>2, SetInduction, Zenon
<1> QED BY <1>3 DEF Good

(* Sums are monotonic, also for a multiple: if d times g is at most f, then *)
(* so are the sums.                                                         *)
LEMMA SumScaled ==
    ASSUME NEW f, NEW g, NEW S, IsFiniteSet(S), NEW d \in Int,
           \A x \in S : f[x] \in Int /\ g[x] \in Int /\ d * g[x] <= f[x]
    PROVE  d * SumFunctionOnSet(g, S) <= SumFunctionOnSet(f, S)
<1> DEFINE Good == {s \in SUBSET S : d * SumFunctionOnSet(g, s) <= SumFunctionOnSet(f, s)}
<1>1. {} \in Good
  BY SumEmpty
<1>2. ASSUME NEW s \in SUBSET S, NEW x \in S, s \in Good, x \notin s
      PROVE  s \cup {x} \in Good
  <2>1. IsFiniteSet(s)
    BY FS_Subset
  <2>2. /\ SumFunctionOnSet(g, s \cup {x}) = SumFunctionOnSet(g, s) + g[x]
        /\ SumFunctionOnSet(f, s \cup {x}) = SumFunctionOnSet(f, s) + f[x]
        /\ SumFunctionOnSet(g, s) \in Int /\ SumFunctionOnSet(f, s) \in Int
    BY <1>2, <2>1, SumAdd, SumInt
  <2>3. \A a \in Int, b \in Int : d * (a + b) = d * a + d * b /\ d * a \in Int
    OBVIOUS
  <2>4. d * SumFunctionOnSet(g, s) <= SumFunctionOnSet(f, s) /\ d * g[x] <= f[x]
    BY <1>2
  <2>5. d * (SumFunctionOnSet(g, s) + g[x]) <= SumFunctionOnSet(f, s) + f[x]
    BY <2>2, <2>3, <2>4
  <2> QED BY <2>2, <2>5
<1> HIDE DEF Good
<1>3. S \in Good
  BY <1>1, <1>2, SetInduction, Zenon
<1> QED BY <1>3 DEF Good

\* A sum grows with its terms.
LEMMA SumLeq ==
    ASSUME NEW f, NEW g, NEW S, IsFiniteSet(S),
           \A x \in S : f[x] \in Int /\ g[x] \in Int /\ g[x] <= f[x]
    PROVE  SumFunctionOnSet(g, S) <= SumFunctionOnSet(f, S)
<1>1. 1 * SumFunctionOnSet(g, S) <= SumFunctionOnSet(f, S)
  BY SumScaled
<1>2. SumFunctionOnSet(g, S) \in Int
  BY SumInt
<1> QED BY <1>1, <1>2

(* The sum of a sum of functions.                                           *)
LEMMA SumPlus ==
    ASSUME NEW f, NEW g, NEW h, NEW S, IsFiniteSet(S),
           \A x \in S : f[x] \in Int /\ g[x] \in Int /\ h[x] = f[x] + g[x]
    PROVE  SumFunctionOnSet(h, S) = SumFunctionOnSet(f, S) + SumFunctionOnSet(g, S)
<1> DEFINE Good == {s \in SUBSET S : SumFunctionOnSet(h, s) =
                                       SumFunctionOnSet(f, s) + SumFunctionOnSet(g, s)}
<1>1. {} \in Good
  BY SumEmpty
<1>2. ASSUME NEW s \in SUBSET S, NEW x \in S, s \in Good, x \notin s
      PROVE  s \cup {x} \in Good
  <2>1. IsFiniteSet(s)
    BY FS_Subset
  <2>2. /\ SumFunctionOnSet(g, s \cup {x}) = SumFunctionOnSet(g, s) + g[x]
        /\ SumFunctionOnSet(f, s \cup {x}) = SumFunctionOnSet(f, s) + f[x]
        /\ SumFunctionOnSet(h, s \cup {x}) = SumFunctionOnSet(h, s) + h[x]
        /\ SumFunctionOnSet(g, s) \in Int /\ SumFunctionOnSet(f, s) \in Int
    BY <1>2, <2>1, SumAdd, SumInt
  <2> QED BY <1>2, <2>2
<1> HIDE DEF Good
<1>3. S \in Good
  BY <1>1, <1>2, SetInduction, Zenon
<1> QED BY <1>3 DEF Good

(* The sum over two sets without a common element.                          *)
LEMMA SumUnion ==
    ASSUME NEW f, NEW S, NEW R, IsFiniteSet(S), IsFiniteSet(R), S \cap R = {},
           \A x \in S \cup R : f[x] \in Int
    PROVE  SumFunctionOnSet(f, S \cup R) = SumFunctionOnSet(f, S) + SumFunctionOnSet(f, R)
<1> DEFINE Good == {r \in SUBSET R : SumFunctionOnSet(f, S \cup r) =
                                       SumFunctionOnSet(f, S) + SumFunctionOnSet(f, r)}
<1>0. SumFunctionOnSet(f, S) \in Int
  BY SumInt
<1>1. {} \in Good
  <2>1. S \cup {} = S
    OBVIOUS
  <2> QED BY <1>0, <2>1, SumEmpty
<1>2. ASSUME NEW r \in SUBSET R, NEW x \in R, r \in Good, x \notin r
      PROVE  r \cup {x} \in Good
  <2>1. IsFiniteSet(r) /\ IsFiniteSet(S \cup r) /\ x \notin S \cup r
    BY <1>2, FS_Subset, FS_Union, Zenon
  <2>2. /\ SumFunctionOnSet(f, r \cup {x}) = SumFunctionOnSet(f, r) + f[x]
        /\ SumFunctionOnSet(f, (S \cup r) \cup {x}) = SumFunctionOnSet(f, S \cup r) + f[x]
        /\ SumFunctionOnSet(f, r) \in Int
    BY <1>2, <2>1, SumAdd, SumInt, Zenon
  <2>3. S \cup (r \cup {x}) = (S \cup r) \cup {x}
    OBVIOUS
  <2>4. SumFunctionOnSet(f, S \cup r) = SumFunctionOnSet(f, S) + SumFunctionOnSet(f, r) /\ f[x] \in Int
    BY <1>2
  <2>5. SumFunctionOnSet(f, (S \cup r) \cup {x}) =
          SumFunctionOnSet(f, S) + SumFunctionOnSet(f, r \cup {x})
    BY <1>0, <2>2, <2>4
  <2> QED BY <2>3, <2>5, Zenon
<1> HIDE DEF Good
<1>3. R \in Good
  BY <1>1, <1>2, SetInduction, Zenon
<1> QED BY <1>3 DEF Good

(* Fewer naturals have a smaller sum.                                       *)
LEMMA SumSubset ==
    ASSUME NEW f, NEW S, IsFiniteSet(S), \A x \in S : f[x] \in Nat, NEW R \in SUBSET S
    PROVE  SumFunctionOnSet(f, R) <= SumFunctionOnSet(f, S)
<1>1. IsFiniteSet(R) /\ IsFiniteSet(S \ R) /\ R \cup (S \ R) = S /\ R \cap (S \ R) = {}
  BY FS_Subset
<1>2. SumFunctionOnSet(f, S) = SumFunctionOnSet(f, R) + SumFunctionOnSet(f, S \ R)
  BY <1>1, SumUnion
<1>3. SumFunctionOnSet(f, R) \in Nat /\ SumFunctionOnSet(f, S \ R) \in Nat
  BY <1>1, SumNat
<1> QED BY <1>2, <1>3

\* A sum changes by as much as its only term that changes.
LEMMA SumChange ==
    ASSUME NEW f, NEW S, NEW g, NEW e, OneChanged(f, S, g, e)
    PROVE  SumFunctionOnSet(g, S) = SumFunctionOnSet(f, S) + g[e] - f[e]
<1> USE DEF OneChanged
<1>1. IsFiniteSet(S \ {e})
  BY FS_RemoveElement
<1>2. SumFunctionOnSet(g, S \ {e}) = SumFunctionOnSet(f, S \ {e})
  BY <1>1, SumSame
<1>3. /\ SumFunctionOnSet(g, S) = g[e] + SumFunctionOnSet(g, S \ {e})
      /\ SumFunctionOnSet(f, S) = f[e] + SumFunctionOnSet(f, S \ {e})
  BY SumRemove
<1>4. SumFunctionOnSet(f, S \ {e}) \in Int
  BY <1>1, SumInt
<1> QED BY <1>2, <1>3, <1>4

\* The sum over the groups of their sums is the sum of everything.
LEMMA SumGroups ==
    ASSUME NEW f, NEW S, NEW group, NEW A, NEW part, NEW h, Grouped(f, S, group, A, part, h)
    PROVE  SumFunctionOnSet(h, A) = SumFunctionOnSet(f, S)
<1> USE DEF Grouped
<1> DEFINE G(s, a) == {x \in s : group[x] = a}
           H(s) == [a \in A |-> SumFunctionOnSet(f, G(s, a))]
           Good == {s \in SUBSET S : SumFunctionOnSet(H(s), A) = SumFunctionOnSet(f, s)}
<1>0. \A s \in SUBSET S : \A a \in A : IsFiniteSet(s) /\ IsFiniteSet(G(s, a)) /\ H(s)[a] \in Int
  <2> SUFFICES ASSUME NEW s \in SUBSET S, NEW a \in A
               PROVE  IsFiniteSet(s) /\ IsFiniteSet(G(s, a)) /\ H(s)[a] \in Int
    BY Zenon
  <2>1. IsFiniteSet(s) /\ IsFiniteSet(G(s, a))
    BY FS_Subset
  <2> QED BY <2>1, SumInt
<1>1. {} \in Good
  <2>1. \A a \in A : H({})[a] = 0
    <3>1. \A a \in A : G({}, a) = {}
      OBVIOUS
    <3> QED BY <3>1, SumEmpty
  <2> DEFINE Zero == [a \in A |-> 0]
  <2>2. SumFunctionOnSet(H({}), A) = SumFunctionOnSet(Zero, A)
    BY <2>1, SumSame
  <2>3. SumFunctionOnSet(Zero, A) = SumFunctionOnSet(Zero, A) + SumFunctionOnSet(Zero, A)
    BY SumPlus
  <2>4. SumFunctionOnSet(Zero, A) \in Int
    BY SumInt
  <2>5. SumFunctionOnSet(H({}), A) = SumFunctionOnSet(f, {})
    <3>1. \A z \in Int : z = z + z => z = 0
      OBVIOUS
    <3>2. SumFunctionOnSet(Zero, A) = 0
      BY <2>3, <2>4, <3>1, Zenon
    <3> QED BY <2>2, <3>2, SumEmpty, Zenon
  <2> QED BY <2>5, Zenon
<1>2. ASSUME NEW s \in SUBSET S, NEW x \in S, s \in Good, x \notin s
      PROVE  s \cup {x} \in Good
  <2> DEFINE t == s \cup {x}
             b == group[x]
  <2>1. IsFiniteSet(s) /\ t \in SUBSET S /\ b \in A
    BY <1>0, Zenon
  <2>2. \A a \in A \ {b} : G(t, a) = G(s, a)
    OBVIOUS
  <2>3. G(t, b) = G(s, b) \cup {x} /\ x \notin G(s, b)
    BY <1>2
  <2>4. H(t)[b] = H(s)[b] + f[x]
    <3>1. IsFiniteSet(G(s, b))
      BY <1>0, <2>1
    <3>2. \A y \in G(s, b) \cup {x} : f[y] \in Int
      OBVIOUS
    <3>3. H(t)[b] = SumFunctionOnSet(f, G(t, b)) /\ H(s)[b] = SumFunctionOnSet(f, G(s, b))
      BY <2>1, Zenon
    <3> HIDE DEF G, H, t, b
    <3> QED BY <2>3, <3>1, <3>2, <3>3, SumAdd
  <2>5. \A a \in A : H(s)[a] \in Int /\ H(t)[a] \in Int
    BY <1>0, <2>1, Zenon
  <2>6. \A a \in A \ {b} : H(t)[a] = H(s)[a]
    BY <2>2, Zenon
  <2>7. SumFunctionOnSet(H(t), A) = SumFunctionOnSet(H(s), A) + H(t)[b] - H(s)[b]
    <3>1. IsFiniteSet(A)
      OBVIOUS
    <3> HIDE DEF H, t, b, Grouped
    <3>2. OneChanged(H(s), A, H(t), b)
      BY <2>1, <2>5, <2>6, <3>1 DEF OneChanged
    <3> QED BY <3>2, SumChange
  <2>8. SumFunctionOnSet(f, t) = SumFunctionOnSet(f, s) + f[x]
    BY <1>2, <2>1, SumAdd
  <2>9. SumFunctionOnSet(H(s), A) = SumFunctionOnSet(f, s) /\ SumFunctionOnSet(f, s) \in Int
        /\ H(s)[b] \in Int /\ f[x] \in Int
    BY <1>2, <2>1, <2>5, SumInt, Zenon
  <2>10. SumFunctionOnSet(H(t), A) = SumFunctionOnSet(f, t)
    <3> HIDE DEF H, t, b
    <3> QED BY <2>4, <2>7, <2>8, <2>9
  <2> QED BY <2>1, <2>10
<1>3. S \in Good
  <2> HIDE DEF Good
  <2> QED BY <1>1, <1>2, SetInduction, Zenon
<1>4. SumFunctionOnSet(h, A) = SumFunctionOnSet(H(S), A)
  <2>0. \A a \in A : G(S, a) = part[a]
    OBVIOUS
  <2>1. \A a \in A : H(S)[a] \in Int /\ h[a] = H(S)[a]
    BY <1>0, <2>0, Zenon
  <2> HIDE DEF H
  <2> QED BY <2>1, SumSame
<1> QED BY <1>3, <1>4

\* One more argument adds its value.
LEMMA SumExtended ==
    ASSUME NEW f, NEW S, NEW g, NEW e, OneMore(f, S, g, e)
    PROVE  /\ SumFunctionOnSet(g, S \cup {e}) = SumFunctionOnSet(f, S) + g[e]
           /\ SumFunctionOnSet(f, S) \in Int /\ IsFiniteSet(S \cup {e})
<1> USE DEF OneMore
<1>1. \A x \in S \cup {e} : g[x] \in Int
  OBVIOUS
<1>2. SumFunctionOnSet(g, S \cup {e}) = SumFunctionOnSet(g, S) + g[e]
  BY <1>1, SumAdd
<1>3. SumFunctionOnSet(g, S) = SumFunctionOnSet(f, S)
  BY SumSame
<1>4. SumFunctionOnSet(f, S) \in Int
  BY SumInt
<1> QED BY <1>2, <1>3, <1>4, FS_AddElement

\* One argument less takes its value away.
LEMMA SumReduced ==
    ASSUME NEW f, NEW S, NEW g, NEW e, OneLess(f, S, g, e)
    PROVE  /\ SumFunctionOnSet(g, S \ {e}) = SumFunctionOnSet(f, S) - f[e]
           /\ SumFunctionOnSet(f, S) \in Int /\ IsFiniteSet(S \ {e})
<1> USE DEF OneLess
<1>1. IsFiniteSet(S \ {e})
  BY FS_RemoveElement
<1>2. \A x \in S \ {e} : f[x] \in Int /\ g[x] = f[x]
  OBVIOUS
<1>3. SumFunctionOnSet(f, S) = f[e] + SumFunctionOnSet(f, S \ {e})
  BY SumRemove
<1>4. SumFunctionOnSet(g, S \ {e}) = SumFunctionOnSet(f, S \ {e})
  BY <1>1, <1>2, SumSame
<1>5. SumFunctionOnSet(f, S \ {e}) \in Int
  BY <1>1, <1>2, SumInt
<1>6. SumFunctionOnSet(f, S) \in Int
  BY SumInt
<1> QED BY <1>1, <1>3, <1>4, <1>5, <1>6

(* A quotient is the greatest number of divisors that fit.                  *)
LEMMA DivFits ==
    ASSUME NEW a \in Int, NEW b \in Nat, b > 0
    PROVE  /\ a \div b \in Int /\ b * (a \div b) <= a
           /\ \A q \in Int : b * q <= a => q <= a \div b
<1>1. a \div b \in Int /\ b * (a \div b) <= a /\ a < b * (a \div b) + b
  OBVIOUS
<1>2. ASSUME NEW q \in Int, b * q <= a, ~ (q <= a \div b) PROVE FALSE
  <2> DEFINE d == a \div b
  <2>1. d \in Int /\ a < b * d + b
    BY <1>1
  <2> HIDE DEF d
  <2>2. q >= d + 1
    BY <1>2, <2>1 DEF d
  <2>3. b * q >= b * (d + 1)
    BY <2>1, <2>2
  <2>4. b * (d + 1) = b * d + b /\ b * q \in Int /\ b * d \in Int
    BY <2>1
  <2> QED BY <1>2, <2>1, <2>3, <2>4
<1> QED BY <1>1, <1>2

(* Rounding: the summands f over S are no more than m, and m at r each is   *)
(* no more than a; the summands over T are quotients by r of amounts that   *)
(* are no more than d.  All together they are no more than (a + d) \div r.  *)
LEMMA RoundedShares ==
    ASSUME NEW f, NEW S, NEW g, NEW T, NEW h, NEW r, NEW m, NEW a, NEW d,
           Rounded(f, S, g, T, h, r, m, a, d)
    PROVE  SumFunctionOnSet(h, S \cup T) <= (a + d) \div r
<1> USE DEF Rounded
<1> DEFINE b == SumFunctionOnSet(f, S)
           c == SumFunctionOnSet(h, T)
           e == SumFunctionOnSet(g, T)
<1>1. \A x \in T : g[x] \in Int /\ h[x] \in Int /\ r * h[x] <= g[x]
  BY DivFits
<1>2. b \in Int /\ SumFunctionOnSet(h, S) = b
  BY SumInt, SumSame
<1>3. c \in Int /\ e \in Int /\ r * c <= e
  <2>1. c \in Int /\ e \in Int
    BY <1>1, SumInt
  <2>2. r \in Int
    OBVIOUS
  <2> QED BY <1>1, <2>1, <2>2, SumScaled
<1>4. SumFunctionOnSet(h, S \cup T) = b + c
  <2>1. \A x \in S \cup T : h[x] \in Int
    BY <1>1
  <2> QED BY <1>2, <2>1, SumUnion
<1>5. b <= m /\ e <= d
  OBVIOUS
<1> HIDE DEF b, c, e
<1>6. r * b <= r * m
  BY <1>2, <1>5
<1>7. r * (b + c) = r * b + r * c /\ r * b \in Int /\ r * c \in Int /\ r * m \in Int
  BY <1>2, <1>3
<1>8. r * (b + c) <= a + d
  BY <1>3, <1>5, <1>6, <1>7
<1>9. b + c \in Int /\ a + d \in Int
  BY <1>2, <1>3
<1>10. b + c <= (a + d) \div r
  BY <1>8, <1>9, DivFits
<1> QED BY <1>4, <1>10

-----------------------------------------------------------------------------
(* A sum of one, of the greatest summand and of multiples.                  *)
LEMMA SumSingle ==
    ASSUME NEW f, NEW e, f[e] \in Int
    PROVE  SumFunctionOnSet(f, {e}) = f[e]
<1>1. IsFiniteSet({}) /\ {} \cup {e} = {e}
  BY FS_EmptySet
<1>2. SumFunctionOnSet(f, {} \cup {e}) = SumFunctionOnSet(f, {}) + f[e]
  BY <1>1, SumAdd
<1> QED BY <1>1, <1>2, SumEmpty

(* A summand is no more than the sum.                                       *)
LEMMA SumMember ==
    ASSUME NEW f, NEW S, IsFiniteSet(S), \A x \in S : f[x] \in Nat, NEW e \in S
    PROVE  f[e] <= SumFunctionOnSet(f, S)
<1>1. SumFunctionOnSet(f, {e}) <= SumFunctionOnSet(f, S)
  BY SumSubset
<1>2. SumFunctionOnSet(f, {e}) = f[e]
  BY SumSingle
<1> QED BY <1>1, <1>2

(* The sum of the multiples of a function.                                  *)
LEMMA SumMultiple ==
    ASSUME NEW f, NEW g, NEW S, IsFiniteSet(S), NEW d \in Int,
           \A x \in S : g[x] \in Int /\ f[x] = d * g[x]
    PROVE  SumFunctionOnSet(f, S) = d * SumFunctionOnSet(g, S)
<1> DEFINE Good == {s \in SUBSET S : SumFunctionOnSet(f, s) = d * SumFunctionOnSet(g, s)}
<1>1. {} \in Good
  BY SumEmpty
<1>2. ASSUME NEW s \in SUBSET S, NEW x \in S, s \in Good, x \notin s
      PROVE  s \cup {x} \in Good
  <2>1. IsFiniteSet(s) /\ \A y \in S : f[y] \in Int
    BY FS_Subset
  <2>2. /\ SumFunctionOnSet(g, s \cup {x}) = SumFunctionOnSet(g, s) + g[x]
        /\ SumFunctionOnSet(f, s \cup {x}) = SumFunctionOnSet(f, s) + f[x]
        /\ SumFunctionOnSet(g, s) \in Int /\ SumFunctionOnSet(f, s) \in Int
    BY <1>2, <2>1, SumAdd, SumInt
  <2>3. \A a \in Int, b \in Int : d * (a + b) = d * a + d * b /\ d * a \in Int
    OBVIOUS
  <2>4. SumFunctionOnSet(f, s) = d * SumFunctionOnSet(g, s) /\ f[x] = d * g[x]
    BY <1>2
  <2>5. SumFunctionOnSet(f, s) + f[x] = d * (SumFunctionOnSet(g, s) + g[x])
    BY <2>2, <2>3, <2>4
  <2> QED BY <2>2, <2>5
<1> HIDE DEF Good
<1>3. S \in Good
  BY <1>1, <1>2, SetInduction, Zenon
<1> QED BY <1>3 DEF Good

(* Summands that are all at least c.                                        *)
LEMMA SumAtLeast ==
    ASSUME NEW f, NEW S, IsFiniteSet(S), NEW c \in Nat, \A x \in S : f[x] \in Int /\ f[x] >= c
    PROVE  SumFunctionOnSet(f, S) >= c * Cardinality(S)
<1> DEFINE Good == {s \in SUBSET S : SumFunctionOnSet(f, s) >= c * Cardinality(s)}
<1>1. {} \in Good
  BY SumEmpty, FS_EmptySet
<1>2. ASSUME NEW s \in SUBSET S, NEW x \in S, s \in Good, x \notin s
      PROVE  s \cup {x} \in Good
  <2>1. IsFiniteSet(s)
    BY FS_Subset
  <2>2. /\ SumFunctionOnSet(f, s \cup {x}) = SumFunctionOnSet(f, s) + f[x]
        /\ SumFunctionOnSet(f, s) \in Int
    BY <1>2, <2>1, SumAdd, SumInt
  <2>3. Cardinality(s) \in Nat /\ Cardinality(s \cup {x}) = Cardinality(s) + 1
    BY <1>2, <2>1, FS_AddElement, FS_CardinalityType
  <2>0. \A n \in Nat : c * (n + 1) = c * n + c /\ c * n \in Int
    OBVIOUS
  <2>4. c * (Cardinality(s) + 1) = c * Cardinality(s) + c /\ c * Cardinality(s) \in Int
    BY <2>0, <2>3, Zenon
  <2>5. SumFunctionOnSet(f, s) >= c * Cardinality(s)
    BY <1>2
  <2>6. SumFunctionOnSet(f, s \cup {x}) >= c * Cardinality(s \cup {x})
    BY <2>2, <2>3, <2>4, <2>5
  <2> QED BY <2>6
<1> HIDE DEF Good
<1>3. S \in Good
  BY <1>1, <1>2, SetInduction, Zenon
<1> QED BY <1>3 DEF Good

\* A sum along an enumeration.
LEMMA SumImage ==
    ASSUME NEW f, NEW g, NEW l, NEW I, NEW S, Enumerates(l, I, S),
           \A i \in I : f[l[i]] \in Int /\ g[i] = f[l[i]]
    PROVE  SumFunctionOnSet(g, I) = SumFunctionOnSet(f, S)
<1> USE DEF Enumerates
<1>1. \A i \in I : g[i] \in Int /\ l[i] \in S
  OBVIOUS
<1>2. ASSUME NEW x \in S PROVE f[x] = SumFunctionOnSet(g, {i \in I : l[i] = x})
  <2>1. PICK i \in I : x = l[i]
    OBVIOUS
  <2>2. {j \in I : l[j] = x} = {i}
    BY <2>1
  <2>3. SumFunctionOnSet(g, {i}) = g[i]
    BY SumSingle, Zenon
  <2> QED BY <2>1, <2>2, <2>3
<1> DEFINE part == [x \in S |-> {i \in I : l[i] = x}]
<1>3. \A x \in S : \A i : i \in part[x] <=> i \in I /\ l[i] = x
  OBVIOUS
<1>4. \A x \in S : f[x] = SumFunctionOnSet(g, part[x])
  BY <1>2, Zenon
<1> HIDE DEF part
<1>5. Grouped(g, I, l, S, part, f)
  BY <1>1, <1>3, <1>4 DEF Grouped
<1>6. SumFunctionOnSet(f, S) = SumFunctionOnSet(g, I)
  BY <1>5, SumGroups
<1> QED BY <1>6

\* Arguments with the value 0 do not count.
LEMMA SumPadded ==
    ASSUME NEW f, NEW T, NEW g, NEW S, Padded(f, T, g, S)
    PROVE  SumFunctionOnSet(g, S) = SumFunctionOnSet(f, T)
<1> DEFINE R == S \ T
<1>1. /\ IsFiniteSet(S) /\ T \subseteq S /\ R \subseteq S /\ T \cap R = {} /\ T \cup R = S
      /\ \A x \in T : f[x] \in Int /\ g[x] = f[x]
      /\ \A x \in R : g[x] = 0
  BY DEF Padded
<1> HIDE DEF R
<1>2. IsFiniteSet(T) /\ IsFiniteSet(R)
  BY <1>1, FS_Subset
<1>3. SumFunctionOnSet(g, T) = SumFunctionOnSet(f, T) /\ SumFunctionOnSet(f, T) \in Int
  BY <1>1, <1>2, SumSame, SumInt
<1>4. \A x \in R : g[x] \in Int /\ g[x] = g[x] + g[x]
  BY <1>1
<1>5. SumFunctionOnSet(g, R) = SumFunctionOnSet(g, R) + SumFunctionOnSet(g, R)
      /\ SumFunctionOnSet(g, R) \in Int
  BY <1>2, <1>4, SumPlus, SumInt
<1>6. SumFunctionOnSet(g, T \cup R) = SumFunctionOnSet(g, T) + SumFunctionOnSet(g, R)
  <2>1. \A x \in T \cup R : g[x] \in Int
    BY <1>1
  <2> QED BY <1>1, <1>2, <2>1, SumUnion
<1>7. SumFunctionOnSet(g, S) = SumFunctionOnSet(g, T) + SumFunctionOnSet(g, R)
  BY <1>1, <1>6, Zenon
<1>8. \A x, y, z \in Int : x = x + x /\ z = y + x => z = y
  OBVIOUS
<1>9. SumFunctionOnSet(g, T) \in Int /\ SumFunctionOnSet(g, S) \in Int
  BY <1>1, <1>2, <1>4, SumInt
<1>10. SumFunctionOnSet(g, S) = SumFunctionOnSet(g, T)
  BY <1>5, <1>7, <1>8, <1>9, Zenon
<1> QED BY <1>3, <1>10

\* A new value at an argument that may be new.
LEMMA SumPut ==
    ASSUME NEW f, NEW S, NEW g, NEW e, OnePut(f, S, g, e)
    PROVE  SumFunctionOnSet(g, S \cup {e}) = SumFunctionOnSet(f, S) + g[e] - IF e \in S THEN f[e] ELSE 0
<1>1. CASE e \in S
  <2>1. OneChanged(f, S, g, e)
    BY <1>1 DEF OneChanged, OnePut
  <2>2. SumFunctionOnSet(g, S) = SumFunctionOnSet(f, S) + g[e] - f[e]
    BY <2>1, SumChange
  <2>3. S \cup {e} = S
    BY <1>1
  <2> QED BY <1>1, <2>2, <2>3
<1>2. CASE e \notin S
  <2>1. OneMore(f, S, g, e) /\ g[e] \in Int
    BY <1>2 DEF OneMore, OnePut
  <2>2. SumFunctionOnSet(g, S \cup {e}) = SumFunctionOnSet(f, S) + g[e] /\ SumFunctionOnSet(f, S) \in Int
    BY <2>1, SumExtended
  <2> QED BY <1>2, <2>1, <2>2
<1> QED BY <1>1, <1>2

-----------------------------------------------------------------------------
\* The laws of finite sets and sums hold: the hypothesis of the lemmas about the elector
\* and the pool.
LEMMA SumLawsHold == Laws
<1>1. LeastLaw
  BY LeastNumber, Zenon DEF LeastLaw
<1>2. DivLaw
  BY DivFits DEF DivLaw
<1>3. EmptyLaw
  BY FS_EmptySet DEF EmptyLaw
<1>4. CardinalityLaw
  BY FS_CardinalityType DEF CardinalityLaw
<1>5. AddLaw
  BY FS_AddElement DEF AddLaw
<1>6. SubsetLaw
  BY FS_Subset DEF SubsetLaw
<1>7. IntervalLaw
  BY FS_Interval DEF IntervalLaw
<1>8. InjectionLaw
  BY FS_Injection DEF InjectionLaw
<1>9. SumEmptyLaw
  BY SumEmpty DEF SumEmptyLaw
<1>10. SumIntLaw
  BY SumInt DEF SumIntLaw
<1>11. SumNatLaw
  BY SumNat DEF SumNatLaw
<1>12. SumSameLaw
  BY SumSame DEF SumSameLaw
<1>13. SumLeqLaw
  BY SumLeq DEF SumLeqLaw
<1>14. SumScaledLaw
  BY SumScaled DEF SumScaledLaw
<1>15. SumMultipleLaw
  BY SumMultiple DEF SumMultipleLaw
<1>16. SumPlusLaw
  BY SumPlus DEF SumPlusLaw
<1>17. SumMemberLaw
  BY SumMember DEF SumMemberLaw
<1>18. SumAtLeastLaw
  BY SumAtLeast DEF SumAtLeastLaw
<1>19. SumChangeLaw
  BY SumChange DEF SumChangeLaw
<1>20. SumGroupsLaw
  BY SumGroups DEF SumGroupsLaw
<1>21. SumExtendedLaw
  BY SumExtended DEF SumExtendedLaw
<1>22. SumReducedLaw
  BY SumReduced DEF SumReducedLaw
<1>23. SumImageLaw
  BY SumImage DEF SumImageLaw
<1>24. SumPaddedLaw
  BY SumPadded DEF SumPaddedLaw
<1>25. SumPutLaw
  BY SumPut DEF SumPutLaw
<1>26. RoundedLaw
  BY RoundedShares DEF RoundedLaw
<1> QED BY <1>1, <1>2, <1>3, <1>4, <1>5, <1>6, <1>7, <1>8, <1>9, <1>10, <1>11, <1>12, <1>13,
        <1>14, <1>15, <1>16, <1>17, <1>18, <1>19, <1>20, <1>21, <1>22, <1>23, <1>24, <1>25,
        <1>26, Zenon DEF Laws
=============================================================================
