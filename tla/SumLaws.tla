------------------------------ MODULE SumLaws ------------------------------
(***************************************************************************)
(* The laws of finite sets and of sums over them that the proofs about the *)
(* elector and the pool use, as formulas.  Module Sums proves them.        *)
(* Stated apart from their proofs they can be the hypothesis of a lemma,   *)
(* and the lemma does without the modules those proofs need.               *)
(***************************************************************************)
EXTENDS Integers, FiniteSets, Functions

\* The functions f and g on S differ at most at e.
OneChanged(f, S, g, e) ==
    /\ IsFiniteSet(S) /\ e \in S
    /\ \A x \in S : f[x] \in Int /\ g[x] \in Int
    /\ \A x \in S \ {e} : g[x] = f[x]

\* S falls into the parts part[a] of its groups a, whose sums are h[a].
Grouped(f, S, group, A, part, h) ==
    /\ IsFiniteSet(S) /\ IsFiniteSet(A)
    /\ \A x \in S : f[x] \in Int /\ group[x] \in A
    /\ \A a \in A : \A x : x \in part[a] <=> x \in S /\ group[x] = a
    /\ \A a \in A : h[a] = SumFunctionOnSet(f, part[a])

\* g is f on S and has one more argument.
OneMore(f, S, g, e) ==
    /\ IsFiniteSet(S) /\ e \notin S /\ g[e] \in Int
    /\ \A x \in S : f[x] \in Int /\ g[x] = f[x]

\* g is f without the argument e.
OneLess(f, S, g, e) ==
    /\ IsFiniteSet(S) /\ e \in S
    /\ \A x \in S : f[x] \in Int
    /\ \A x \in S \ {e} : g[x] = f[x]

\* l runs once through the elements of S.
Enumerates(l, I, S) ==
    /\ IsFiniteSet(I) /\ IsFiniteSet(S) /\ S = {l[i] : i \in I}
    /\ \A i, j \in I : l[i] = l[j] => i = j

\* g is f on T and 0 on the rest of S.
Padded(f, T, g, S) ==
    /\ IsFiniteSet(S) /\ T \subseteq S
    /\ \A x \in T : f[x] \in Int /\ g[x] = f[x]
    /\ \A x \in S \ T : g[x] = 0

\* g is f with a new value at e, which may be a new argument.
OnePut(f, S, g, e) ==
    /\ IsFiniteSet(S) /\ g[e] \in Int
    /\ \A x \in S : f[x] \in Int
    /\ \A x \in S \ {e} : g[x] = f[x]

\* The summands f over S are no more than m, and m at r each is no more than a; the summands
\* h over T are quotients by r of amounts that are no more than b.
Rounded(f, S, g, T, h, r, m, a, b) ==
    /\ IsFiniteSet(S) /\ IsFiniteSet(T) /\ S \cap T = {}
    /\ r \in Nat /\ r > 0 /\ m \in Int /\ a \in Int /\ b \in Int /\ r * m <= a
    /\ \A x \in S : f[x] \in Int /\ h[x] = f[x]
    /\ \A x \in T : g[x] \in Int /\ h[x] = g[x] \div r
    /\ SumFunctionOnSet(f, S) <= m /\ SumFunctionOnSet(g, T) <= b

-----------------------------------------------------------------------------
\* Numbers: the least element of a set, and division.
LeastLaw == \A T : T \subseteq Nat /\ T # {} => \E m \in T : \A k \in T : m <= k

DivLaw ==
    \A a \in Int, b \in Nat : b > 0 =>
        /\ a \div b \in Int /\ b * (a \div b) <= a
        /\ \A q \in Int : b * q <= a => q <= a \div b

\* Finite sets.
EmptyLaw == IsFiniteSet({}) /\ \A S : IsFiniteSet(S) => (Cardinality(S) = 0 <=> S = {})

CardinalityLaw == \A S : IsFiniteSet(S) => Cardinality(S) \in Nat

AddLaw == \A S, x : IsFiniteSet(S) => IsFiniteSet(S \cup {x})

SubsetLaw ==
    \A S, T : IsFiniteSet(S) /\ T \subseteq S =>
        /\ IsFiniteSet(T) /\ Cardinality(T) <= Cardinality(S)
        /\ Cardinality(S) = Cardinality(T) => S = T

IntervalLaw ==
    \A a, b \in Int :
        IsFiniteSet(a..b) /\ Cardinality(a..b) = IF a > b THEN 0 ELSE b - a + 1

InjectionLaw ==
    \A S, T, f : f \in Injection(S, T) /\ IsFiniteSet(T) =>
        /\ IsFiniteSet(S) /\ Cardinality(S) <= Cardinality(T)
        /\ Cardinality(S) = Cardinality(T) <=> f \in Surjection(S, T)

\* Sums.
SumEmptyLaw == \A f : SumFunctionOnSet(f, {}) = 0

SumIntLaw ==
    \A f, S : IsFiniteSet(S) /\ (\A x \in S : f[x] \in Int) => SumFunctionOnSet(f, S) \in Int

SumNatLaw ==
    \A f, S : IsFiniteSet(S) /\ (\A x \in S : f[x] \in Nat) => SumFunctionOnSet(f, S) \in Nat

SumSameLaw ==
    \A f, g, S : IsFiniteSet(S) /\ (\A x \in S : f[x] \in Int /\ g[x] = f[x])
                     => SumFunctionOnSet(g, S) = SumFunctionOnSet(f, S)

SumLeqLaw ==
    \A f, g, S : IsFiniteSet(S) /\ (\A x \in S : f[x] \in Int /\ g[x] \in Int /\ g[x] <= f[x])
                     => SumFunctionOnSet(g, S) <= SumFunctionOnSet(f, S)

SumScaledLaw ==
    \A f, g, S : \A d \in Int :
        IsFiniteSet(S) /\ (\A x \in S : f[x] \in Int /\ g[x] \in Int /\ d * g[x] <= f[x])
            => d * SumFunctionOnSet(g, S) <= SumFunctionOnSet(f, S)

SumMultipleLaw ==
    \A f, g, S : \A d \in Int :
        IsFiniteSet(S) /\ (\A x \in S : g[x] \in Int /\ f[x] = d * g[x])
            => SumFunctionOnSet(f, S) = d * SumFunctionOnSet(g, S)

SumPlusLaw ==
    \A f, g, h, S :
        IsFiniteSet(S) /\ (\A x \in S : f[x] \in Int /\ g[x] \in Int /\ h[x] = f[x] + g[x])
            => SumFunctionOnSet(h, S) = SumFunctionOnSet(f, S) + SumFunctionOnSet(g, S)

SumMemberLaw ==
    \A f, S : \A e \in S :
        IsFiniteSet(S) /\ (\A x \in S : f[x] \in Nat) => f[e] <= SumFunctionOnSet(f, S)

SumAtLeastLaw ==
    \A f, S : \A c \in Nat :
        IsFiniteSet(S) /\ (\A x \in S : f[x] \in Int /\ f[x] >= c)
            => SumFunctionOnSet(f, S) >= c * Cardinality(S)

SumChangeLaw ==
    \A f, S, g, e : OneChanged(f, S, g, e)
        => SumFunctionOnSet(g, S) = SumFunctionOnSet(f, S) + g[e] - f[e]

SumGroupsLaw ==
    \A f, S, group, A, part, h : Grouped(f, S, group, A, part, h)
        => SumFunctionOnSet(h, A) = SumFunctionOnSet(f, S)

SumExtendedLaw ==
    \A f, S, g, e : OneMore(f, S, g, e)
        => /\ SumFunctionOnSet(g, S \cup {e}) = SumFunctionOnSet(f, S) + g[e]
           /\ SumFunctionOnSet(f, S) \in Int /\ IsFiniteSet(S \cup {e})

SumReducedLaw ==
    \A f, S, g, e : OneLess(f, S, g, e)
        => /\ SumFunctionOnSet(g, S \ {e}) = SumFunctionOnSet(f, S) - f[e]
           /\ SumFunctionOnSet(f, S) \in Int /\ IsFiniteSet(S \ {e})

SumImageLaw ==
    \A f, g, l, I, S :
        Enumerates(l, I, S) /\ (\A i \in I : f[l[i]] \in Int /\ g[i] = f[l[i]])
            => SumFunctionOnSet(g, I) = SumFunctionOnSet(f, S)

SumPaddedLaw ==
    \A f, T, g, S : Padded(f, T, g, S) => SumFunctionOnSet(g, S) = SumFunctionOnSet(f, T)

SumPutLaw ==
    \A f, S, g, e : OnePut(f, S, g, e)
        => SumFunctionOnSet(g, S \cup {e})
             = SumFunctionOnSet(f, S) + g[e] - IF e \in S THEN f[e] ELSE 0

RoundedLaw ==
    \A f, S, g, T, h, r, m, a, b : Rounded(f, S, g, T, h, r, m, a, b)
        => SumFunctionOnSet(h, S \cup T) <= (a + b) \div r

Laws ==
    /\ LeastLaw /\ DivLaw
    /\ EmptyLaw /\ CardinalityLaw /\ AddLaw /\ SubsetLaw /\ IntervalLaw /\ InjectionLaw
    /\ SumEmptyLaw /\ SumIntLaw /\ SumNatLaw /\ SumSameLaw /\ SumLeqLaw /\ SumScaledLaw
    /\ SumMultipleLaw /\ SumPlusLaw /\ SumMemberLaw /\ SumAtLeastLaw /\ SumChangeLaw
    /\ SumGroupsLaw /\ SumExtendedLaw /\ SumReducedLaw /\ SumImageLaw /\ SumPaddedLaw
    /\ SumPutLaw /\ RoundedLaw
=============================================================================
