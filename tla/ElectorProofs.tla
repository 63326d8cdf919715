--------------------------- MODULE ElectorProofs ---------------------------
(***************************************************************************)
(* The inductive invariant of Elections and what the operators of Elector  *)
(* do to it.  It has three parts: the books of the elector are consistent  *)
(* (GoodData), the elections go through their phases in step with the      *)
(* configuration contract and the messages between them (Phase, Placed,    *)
(* Behind), and the balance covers the books (Solvent).  The first two are *)
(* stated for any data d, so that the lemmas speak of the operators of     *)
(* Elector; they take the laws of sums (Laws) as a hypothesis.  Module     *)
(* ElectionsProofs goes through the steps and has the theorems.            *)
(***************************************************************************)
EXTENDS Elections, SumLaws, TLAPS

\* The data has the fields of store_data.
Shape(d) ==
    d = [elect |-> d.elect, credits |-> d.credits, past |-> d.past,
         grams |-> d.grams, active_id |-> d.active_id, active_hash |-> d.active_hash]

\* A record of elections held at id: its total is right, at least the least total, its
\* set validates for ElectFor after id and its stakes are held for StakeHeld longer.
GoodRecord(id, r) ==
    /\ IsRecord(r)
    /\ r.stakes = StakeSum(r.frozen) /\ r.stakes > 0 /\ r.stakes >= MinTotalStake
    /\ r.stake_held = StakeHeld
    /\ 0 < id /\ id <= r.vset.since /\ r.vset.until = r.vset.since + ElectFor
    /\ r.unfreeze_at >= r.vset.until + StakeHeld

GoodElection(e) == IsElection(e) /\ e.total_stake = StakeSum(e.members)

\* The records are of one time after the other, and the active one is the one of the
\* active validator set.
GoodPast(d) ==
    /\ IsFiniteSet(DOMAIN d.past) /\ DOMAIN d.past \subseteq Nat
    /\ \A id \in DOMAIN d.past : GoodRecord(id, d.past[id])
    /\ \A i, j \in DOMAIN d.past : i < j => d.past[i].vset.until <= j

GoodActive(d) ==
    /\ d.active_id \in Nat /\ d.active_hash \in Vset \cup {NoVset}
    /\ d.active_id # 0 => d.active_hash # NoVset /\ d.active_id < d.active_hash.until
    /\ d.active_id \in DOMAIN d.past => d.past[d.active_id].vset = d.active_hash
    /\ \A id \in DOMAIN d.past : d.past[id].vset = d.active_hash => id = d.active_id

GoodData(d) ==
    /\ Shape(d)
    /\ d.elect = NoElect \/ GoodElection(d.elect)
    /\ d.credits \in [Addrs -> Nat] /\ d.grams \in Nat
    /\ GoodPast(d) /\ GoodActive(d)

\* The configuration: the next validator set begins when the current one ends.
GoodConfig(c) ==
    /\ c \in [cur : Vset, next : Vset \cup {NoVset}]
    /\ c.cur.since < c.cur.until
    /\ c.next # NoVset => c.next.since >= c.cur.until /\ c.next.since < c.next.until

\* The answers te on their way: one after the other, each about a record.
GoodAnswers(d, te) ==
    /\ te \in Seq([id : Nat, ok : BOOLEAN])
    /\ \A i \in DOMAIN te : te[i].id \in DOMAIN d.past
    /\ \A i, j \in DOMAIN te : i < j => te[i].id < te[j].id

NoRefusal(te) == \A i \in DOMAIN te : te[i].ok

\* The phases of elections: none or open; held and their set on its way to the
\* configuration contract; refused; installed.
Idle(d, c, tc, te) ==
    /\ tc = << >> /\ NoRefusal(te)
    /\ \/ d.elect = NoElect
       \/ ~d.elect.finished /\ c.next = NoVset /\ d.elect.elect_at >= c.cur.until

Held(d) == d.elect # NoElect /\ d.elect.finished /\ d.elect.elect_at \in DOMAIN d.past

Proposed(d, c, tc, te) ==
    /\ Held(d) /\ c.next = NoVset /\ d.elect.elect_at >= c.cur.until
    /\ tc = << [id |-> d.elect.elect_at, vset |-> d.past[d.elect.elect_at].vset] >>
    /\ NoRefusal(te) /\ \A i \in DOMAIN te : te[i].id < d.elect.elect_at

Refused(d, c, tc, te) ==
    /\ Held(d) /\ c.next = NoVset /\ d.elect.elect_at >= c.cur.until
    /\ tc = << >>
    /\ \E i \in DOMAIN te : te[i] = [id |-> d.elect.elect_at, ok |-> FALSE]
    /\ \A i \in DOMAIN te : te[i].ok \/ te[i].id = d.elect.elect_at

Agreed(d, c, tc, te) ==
    /\ Held(d) /\ tc = << >> /\ NoRefusal(te)
    /\ \/ d.past[d.elect.elect_at].vset = c.next
       \/ d.past[d.elect.elect_at].vset = c.cur /\ c.next = NoVset

Phase(d, c, tc, te) ==
    /\ GoodAnswers(d, te)
    /\ \/ Idle(d, c, tc, te) \/ Proposed(d, c, tc, te)
       \/ Refused(d, c, tc, te) \/ Agreed(d, c, tc, te)

\* Where the records stand: their sets have ended by the end of the current one, or
\* are the next one, or are those of the elections just held.
Placed(d, c) ==
    \A id \in DOMAIN d.past :
        \/ d.past[id].vset.until <= c.cur.until
        \/ d.past[id].vset = c.next
        \/ Held(d) /\ id = d.elect.elect_at

\* The active set is the current one, or it has ended.
Behind(d, c, t) ==
    \/ d.active_hash \in {c.cur, NoVset}
    \/ d.active_hash.until <= t /\ d.active_hash.until <= c.cur.until

\* The inductive invariant.
IInv ==
    /\ seqno \in {0, 1} /\ now \in Nat /\ balance \in Nat
    /\ GoodData(data) /\ GoodConfig(config) /\ seen \in [cur : Vset, next : Vset \cup {NoVset}]
    /\ Phase(data, config, to_config, to_elector)
    /\ Placed(data, config) /\ Behind(data, config, now)
    /\ claim \in [Addrs -> Int]
    /\ Solvent

-----------------------------------------------------------------------------
\* The proofs are by first-order reasoning where they do not say otherwise.
USE ZenonT(60)

\* An election is not the null cell.
LEMMA ElectionNotNull == ASSUME NEW e, IsElection(e) PROVE e # NoElect
<1>1. e.members \in UNION {[S -> Member] : S \in SUBSET Keys}
  BY DEF IsElection, IsDict
<1>2. e \in Election(UNION {[S -> Member] : S \in SUBSET Keys})
  BY <1>1 DEF IsElection, Election
<1> QED BY <1>2, ElectorAssumption

\* Natural numbers are integers.
LEMMA NatInt == \A n \in Nat : n \in Int
  BY SMT

\* Orders of times and amounts.
LEMMA LeLe == \A a, b, c \in Nat : a <= b /\ b <= c => a <= c
  BY SMT

\* An order and a strict order.
LEMMA LeLt == \A a, b, c \in Nat : a <= b /\ b < c => a < c
  BY SMT

\* A strict order and an order.
LEMMA LtLe == \A a, b, c \in Nat : a < b /\ b <= c => a < c
  BY SMT

\* Of two numbers one is not less than the other.
LEMMA NotLess ==
    \A a, b \in Nat : /\ (a < b <=> ~ (b <= a)) /\ (a >= b <=> b <= a)
                      /\ ~ (a < a) /\ (a < b => ~ (b < a))
  BY SMT

\* A delay moves a time on.
LEMMA MoreLater == \A a, b, c \in Nat : a <= a + b /\ (b <= c => a + b <= a + c)
  BY SMT

\* Sums of amounts are amounts.
LEMMA NatAdd == \A a, b \in Nat : a + b \in Nat /\ a + 0 = a /\ 0 + a = a
  BY SMT

\* Amounts with the same rest are the same.
LEMMA SameRest == \A a, b, x \in Nat : a - x = b - x => a = b
  BY SMT

\* A multiple is no less.
LEMMA TimesMore == \A b, y \in Nat : b > 0 => b * y \in Nat /\ y <= b * y
  BY SMT

\* No amount is negative.
LEMMA NonNegative == \A n \in Nat : n >= 0
  BY SMT

\* Nothing is an amount.
LEMMA ZeroNat == 0 \in Nat
  BY SMT

\* The share of the bonuses is of a positive number of validator sets.
LEMMA BonusShareType == BonusShare \in Nat /\ BonusShare > 0
  BY ElectorAssumption, SMT

\* Sets of keys are finite.
LEMMA KeysFinite == ASSUME Laws, NEW f, NEW V, IsDict(f, Keys, V) PROVE IsFiniteSet(DOMAIN f)
BY ElectorAssumption DEF IsDict, Laws, SubsetLaw

\* What the entry of a key in a dictionary is.
LEMMA DictEntry ==
    ASSUME NEW f, NEW K, NEW V, IsDict(f, K, V), NEW k \in DOMAIN f
    PROVE  k \in K /\ f[k] \in V
BY DEF IsDict

-----------------------------------------------------------------------------
\* The stake of a member that counts is a part of its stake.
LEMMA Effective ==
    ASSUME NEW m \in Member, NEW low \in Nat
    PROVE  /\ CutStake(m) \in Nat /\ CutStake(m) <= m.stake
           /\ EffectiveStake(m, low) \in Nat /\ EffectiveStake(m, low) <= CutStake(m)
<1>1. m.stake \in Nat /\ m.factor \in Nat /\ MaxStake \in Nat /\ MaxStakeFactor \in Nat
      /\ FactorOne \in Nat /\ FactorOne > 0
  BY ElectorAssumption, SMT DEF Member
<1>2. CutStake(m) \in Nat /\ CutStake(m) <= m.stake
  BY <1>1, SMT DEF CutStake, Lesser
<1> DEFINE f == Lesser(m.factor, MaxStakeFactor)
           p == f * low
<1>3. f \in Nat
  BY <1>1 DEF Lesser
<1>4. p \in Nat
  BY <1>3, SMT
<1> HIDE DEF p, f
<1>5. p \div FactorOne \in Nat
  BY <1>1, <1>4, SMT
<1> QED BY <1>2, <1>5, SMT DEF EffectiveStake, Lesser, p, f

\* The least element of a set of numbers.
LEMMA MinMember ==
    ASSUME Laws, NEW S, S \subseteq Nat, S # {}
    PROVE  Min(S) \in S /\ \A x \in S : Min(S) <= x
BY DEF Min, Laws, LeastLaw

-----------------------------------------------------------------------------
\* Amounts by owner add up to the amounts by key.
LEMMA SumByOwner ==
    ASSUME Laws, NEW f, IsFiniteSet(DOMAIN f), \A k \in DOMAIN f : f[k].addr \in Addrs,
           NEW g, \A k \in DOMAIN f : g[k] \in Int,
           NEW h, \A a \in Addrs : h[a] = SumFunctionOnSet(g, OwnedBy(f, a))
    PROVE  SumFunctionOnSet(h, Addrs) = SumFunctionOnSet(g, DOMAIN f)
<1> DEFINE D == DOMAIN f
           owner == [k \in D |-> f[k].addr]
           part == [a \in Addrs |-> OwnedBy(f, a)]
<1>1. \A k \in D : g[k] \in Int /\ owner[k] \in Addrs
  OBVIOUS
<1>2. \A a \in Addrs : \A k : k \in part[a] <=> k \in D /\ owner[k] = a
  BY DEF OwnedBy
<1>3. \A a \in Addrs : h[a] = SumFunctionOnSet(g, part[a])
  OBVIOUS
<1>4. IsFiniteSet(D) /\ IsFiniteSet(Addrs)
  BY ElectorAssumption
<1> HIDE DEF D, owner, part
<1>5. Grouped(g, D, owner, Addrs, part, h)
  BY <1>1, <1>2, <1>3, <1>4 DEF Grouped
<1>6. SumFunctionOnSet(h, Addrs) = SumFunctionOnSet(g, D)
  BY <1>5, SMT DEF Laws, SumGroupsLaw
<1> QED BY <1>6 DEF D

\* The keys of an owner are finitely many.
LEMMA OwnedFinite ==
    ASSUME Laws, NEW f, IsFiniteSet(DOMAIN f), NEW a
    PROVE  OwnedBy(f, a) \in SUBSET DOMAIN f /\ IsFiniteSet(OwnedBy(f, a))
BY DEF OwnedBy, Laws, SubsetLaw

\* The stakes of members and of records are natural numbers, and so are their sums.
LEMMA StakeTypes ==
    ASSUME Laws, NEW f, IsDict(f, Keys, Member) \/ IsDict(f, Keys, Frozen)
    PROVE  /\ IsFiniteSet(DOMAIN f) /\ DOMAIN Stakes(f) = DOMAIN f
           /\ \A k \in DOMAIN f : Stakes(f)[k] = f[k].stake /\ Stakes(f)[k] \in Nat /\ f[k].addr \in Addrs
           /\ StakeSum(f) = SumFunctionOnSet(Stakes(f), DOMAIN f) /\ StakeSum(f) \in Nat
           /\ \A a : StakeOfAddr(f, a) \in Nat
<1>1. IsFiniteSet(DOMAIN f)
  BY KeysFinite
<1>2. \A k \in DOMAIN f : f[k].stake \in Nat /\ f[k].addr \in Addrs
  <2>1. \A k \in DOMAIN f : f[k] \in Member \/ f[k] \in Frozen
    BY DictEntry
  <2> QED BY <2>1 DEF Member, Frozen
<1>3. DOMAIN Stakes(f) = DOMAIN f /\ \A k \in DOMAIN f : Stakes(f)[k] = f[k].stake
  BY DEF Stakes
<1>4. StakeSum(f) = SumFunctionOnSet(Stakes(f), DOMAIN f)
  BY <1>3 DEF StakeSum, SumFunction
<1>5. SumFunctionOnSet(Stakes(f), DOMAIN f) \in Nat
  BY <1>1, <1>2, <1>3 DEF Laws, SumNatLaw
<1>6. ASSUME NEW a PROVE StakeOfAddr(f, a) \in Nat
  <2>1. OwnedBy(f, a) \in SUBSET DOMAIN f /\ IsFiniteSet(OwnedBy(f, a))
    BY <1>1, OwnedFinite
  <2>2. SumFunctionOnSet(Stakes(f), OwnedBy(f, a)) \in Nat
    BY <1>2, <1>3, <2>1 DEF Laws, SumNatLaw
  <2> QED BY <2>2 DEF StakeOfAddr
<1> QED BY <1>1, <1>2, <1>3, <1>4, <1>5, <1>6

\* The record of elections that are held.
LEMMA NewRecord ==
    ASSUME Laws
    PROVE  \A d : \A t \in Nat :
               /\ GoodData(d)
               /\ Open(d)
               /\ Elected(d.elect.members) # 0
               /\ 0 < d.elect.elect_at
               => LET M == d.elect.members
                      frozen == FrozenStakes(M, Elected(M))
                      vset == ElectedVset(d, t)
                      r == [unfreeze_at |-> vset.until + StakeHeld, stake_held |-> StakeHeld,
                            vset |-> vset, frozen |-> frozen, stakes |-> StakeSum(frozen), bonuses |-> 0]
                  IN  /\ GoodRecord(d.elect.elect_at, r)
                      /\ IsDict(frozen, Keys, Frozen) /\ DOMAIN frozen \subseteq DOMAIN M
                      /\ \A k \in DOMAIN frozen :
                             frozen[k].addr = M[k].addr /\ frozen[k].stake <= CutStake(M[k])
       \* The comparison of try_elect orders the members.
<1>AheadOrder.
      ASSUME NEW members, IsDict(members, Keys, Member),
             NEW i \in DOMAIN members, NEW j \in DOMAIN members, NEW k \in DOMAIN members
      PROVE  /\ Ahead(members, i, j) \/ Ahead(members, j, i)
             /\ Ahead(members, i, j) /\ Ahead(members, j, i) => i = j
             /\ Ahead(members, i, j) /\ Ahead(members, j, k) => Ahead(members, i, k)
  <2> USE <1>AheadOrder
  <2>1. /\ i \in Nat /\ j \in Nat /\ k \in Nat
        /\ members[i] \in Member /\ members[j] \in Member /\ members[k] \in Member
    BY DictEntry, ElectorAssumption
  <2>2. /\ members[i].stake \in Nat /\ members[j].stake \in Nat /\ members[k].stake \in Nat
        /\ members[i].time \in Nat /\ members[j].time \in Nat /\ members[k].time \in Nat
    BY <2>1 DEF Member
  <2> QED BY <2>1, <2>2, SMT DEF Ahead
\* Every place is taken by one member.
<1>Places.
      ASSUME NEW members, IsDict(members, Keys, Member), NEW i \in 1..Cardinality(DOMAIN members)
      PROVE  \E k \in DOMAIN members : Place(members, k) = i
  <2> USE <1>Places
  <2> DEFINE D == DOMAIN members
             n == Cardinality(D)
             Before(k) == {j \in D : Ahead(members, j, k)}
             f == [k \in D |-> Place(members, k)]
  <2>1. IsFiniteSet(D) /\ n \in Nat
    BY KeysFinite DEF Laws, CardinalityLaw
  <2>2. ASSUME NEW k \in D PROVE IsFiniteSet(Before(k)) /\ f[k] = Cardinality(Before(k)) /\ f[k] \in 1..n
    <3>1. IsFiniteSet(Before(k)) /\ Cardinality(Before(k)) <= n /\ Cardinality(Before(k)) \in Nat
      BY <2>1 DEF Laws, SubsetLaw, CardinalityLaw
    <3>2. k \in Before(k)
      BY <1>AheadOrder
    <3>3. Cardinality(Before(k)) # 0
      BY <3>1, <3>2 DEF Laws, EmptyLaw
    <3> QED BY <2>1, <3>1, <3>3, SMT DEF Place
  <2>3. ASSUME NEW j \in D, NEW k \in D, Ahead(members, j, k), j # k PROVE f[j] # f[k]
    <3>1. k \in Before(k) /\ k \notin Before(j)
      BY <2>3, <1>AheadOrder
    <3>2. Before(j) \subseteq Before(k)
      BY <2>3, <1>AheadOrder
    <3>3. Cardinality(Before(k)) # Cardinality(Before(j))
      <4> HIDE DEF Before
      <4> QED BY <2>2, <3>1, <3>2 DEF Laws, SubsetLaw
    <3> QED BY <2>2, <3>3
  <2>4. ASSUME NEW j \in D, NEW k \in D, f[j] = f[k] PROVE j = k
    BY <2>3, <2>4, <1>AheadOrder
  <2>5. f \in Injection(D, 1..n)
    <3>1. f \in [D -> 1..n] /\ DOMAIN f = D
      BY <2>2
    <3> HIDE DEF f
    <3> QED BY <2>4, <3>1 DEF Injection, IsInjective
  <2>6. IsFiniteSet(1..n) /\ Cardinality(1..n) = n
    BY <2>1, SMT DEF Laws, IntervalLaw
  <2>7. f \in Surjection(D, 1..n)
    <3> HIDE DEF f, n
    <3> QED BY <2>5, <2>6 DEF n, Laws, InjectionLaw
  <2>8. PICK k \in D : f[k] = i
    <3>1. \A t \in 1..n : \E k \in D : f[k] = t
      <4> HIDE DEF f, n
      <4> QED BY <2>7 DEF Surjection
    <3> QED BY <3>1
  <2> QED BY <2>8
\* The ranking lists members, each once.
<1>Ranked.
      ASSUME NEW members, IsDict(members, Keys, Member)
      PROVE  /\ Cardinality(DOMAIN members) \in Nat
             /\ DOMAIN Ranking(members) = 1..Cardinality(DOMAIN members)
             /\ \A i \in 1..Cardinality(DOMAIN members) : Ranking(members)[i] \in DOMAIN members
             /\ \A i, j \in 1..Cardinality(DOMAIN members) :
                    Ranking(members)[i] = Ranking(members)[j] => i = j
  <2> USE <1>Ranked
  <2>1. Cardinality(DOMAIN members) \in Nat
    BY KeysFinite DEF Laws, CardinalityLaw
  <2>2. ASSUME NEW i \in 1..Cardinality(DOMAIN members)
        PROVE  Ranking(members)[i] \in DOMAIN members /\ Place(members, Ranking(members)[i]) = i
    BY <1>Places DEF Ranking
  <2> QED BY <2>1, <2>2 DEF Ranking
\* The number of elected validators; their effective stakes are in all MinTotalStake.
<1>ElectedNumber.
      ASSUME NEW members, IsDict(members, Keys, Member), Elected(members) # 0
      PROVE  /\ Elected(members) \in 1..Cardinality(DOMAIN members)
             /\ TotalStake(members, Ranking(members), Elected(members)) > 0
             /\ ~ (TotalStake(members, Ranking(members), Elected(members)) < MinTotalStake)
  <2> USE <1>ElectedNumber
  <2> DEFINE l == Ranking(members)
             n == Lesser(Cardinality(DOMAIN members), MaxValidators)
             tot == [i \in 1..n |-> TotalStake(members, l, i)]
             eligible == {i \in Greater(MinValidators, 1)..n :
                             CutStake(members[l[i]]) >= MinStake /\ tot[i] > 0}
             best == {i \in eligible : \A j \in eligible : tot[j] <= tot[i]}
  <2>1. Elected(members) = IF best = {} THEN 0 ELSE IF tot[Min(best)] < MinTotalStake THEN 0 ELSE Min(best)
    BY DEF Elected
  <2>2. Cardinality(DOMAIN members) \in Nat /\ MaxValidators \in Nat /\ MinValidators \in Nat
    BY <1>Ranked, ElectorAssumption
  <2>3. n \in Nat /\ n <= Cardinality(DOMAIN members) /\ Greater(MinValidators, 1) \in Nat
        /\ Greater(MinValidators, 1) >= 1
    BY <2>2, SMT DEF Lesser, Greater
  <2> HIDE DEF n
  <2>4. best \subseteq 1..n /\ \A i \in best : tot[i] > 0
    BY <2>3, SMT
  <2>5. best # {} /\ ~ (tot[Min(best)] < MinTotalStake) /\ Elected(members) = Min(best)
    BY <2>1
  <2> HIDE DEF best, tot
  <2>6. Min(best) \in best
    <3>1. 1..n \subseteq Nat
      BY SMT
    <3>2. best \subseteq Nat /\ best # {}
      BY <2>4, <2>5, <3>1
    <3> QED BY <3>2, MinMember
  <2>7. Min(best) \in 1..n /\ tot[Min(best)] > 0
    BY <2>4, <2>6
  <2> QED BY <2>2, <2>3, <2>5, <2>7, SMT DEF tot
\* What is frozen for the members that are elected: a part of the stake of each, in all
\* what the elections counted.
<1>FrozenFor.
      ASSUME NEW members, IsDict(members, Keys, Member),
             NEW m \in 1..Cardinality(DOMAIN members)
      PROVE  /\ IsDict(FrozenStakes(members, m), Keys, Frozen)
             /\ DOMAIN FrozenStakes(members, m) = {Ranking(members)[i] : i \in 1..m}
             /\ DOMAIN FrozenStakes(members, m) \subseteq DOMAIN members
             /\ \A k \in DOMAIN FrozenStakes(members, m) :
                    /\ FrozenStakes(members, m)[k].addr = members[k].addr
                    /\ FrozenStakes(members, m)[k].stake <= CutStake(members[k])
             /\ StakeSum(FrozenStakes(members, m)) = TotalStake(members, Ranking(members), m)
  <2> USE <1>FrozenFor
  <2> DEFINE l == Ranking(members)
             low == CutStake(members[l[m]])
             D == {l[i] : i \in 1..m}
             fr == FrozenStakes(members, m)
  <2>1. m \in Nat /\ 1..m \subseteq 1..Cardinality(DOMAIN members) /\ m \in 1..m
    BY <1>Ranked, SMT
  <2>2. D \subseteq DOMAIN members /\ l[m] \in DOMAIN members
    BY <2>1, <1>Ranked, SMT
  <2>3. \A k \in DOMAIN members : k \in Keys /\ members[k] \in Member
    BY DictEntry
  <2>4. low \in Nat
    BY <2>2, <2>3, Effective, 0 \in Nat
  <2>5. fr = [k \in D |-> [addr |-> members[k].addr, stake |-> EffectiveStake(members[k], low)]]
    BY DEF FrozenStakes
  <2> HIDE DEF low, fr
  <2>6. ASSUME NEW k \in D
        PROVE  /\ k \in Keys /\ fr[k] \in Frozen /\ fr[k].addr = members[k].addr
               /\ fr[k].stake = EffectiveStake(members[k], low) /\ fr[k].stake \in Nat
               /\ fr[k].stake <= CutStake(members[k])
    <3>1. k \in Keys /\ members[k] \in Member /\ members[k].addr \in Addrs
      BY <2>2, <2>3 DEF Member
    <3>2. EffectiveStake(members[k], low) \in Nat /\ EffectiveStake(members[k], low) <= CutStake(members[k])
      BY <2>4, <3>1, Effective
    <3>3. fr[k] = [addr |-> members[k].addr, stake |-> EffectiveStake(members[k], low)]
      BY <2>5
    <3> QED BY <3>1, <3>2, <3>3, SMT DEF Frozen
  <2>7. DOMAIN fr = D /\ IsDict(fr, Keys, Frozen)
    BY <2>5, <2>6 DEF IsDict
  <2>8. StakeSum(fr) = TotalStake(members, l, m)
    <3> DEFINE g == [j \in 1..m |-> EffectiveStake(members[l[j]], low)]
               f == Stakes(fr)
    <3>1. Enumerates(l, 1..m, D)
      <4>1. IsFiniteSet(1..m)
        BY <2>1, NatInt DEF Laws, IntervalLaw
      <4>2. IsFiniteSet(D)
        BY <2>7, KeysFinite
      <4> QED BY <2>1, <4>1, <4>2, <1>Ranked DEF Enumerates
    <3>2. DOMAIN f = D /\ \A k \in D : f[k] = fr[k].stake
      BY <2>7 DEF Stakes
    <3>3. \A i \in 1..m : f[l[i]] \in Int /\ g[i] = f[l[i]]
      BY <2>6, <3>2, NatInt
    <3>4. SumFunction(g) = TotalStake(members, l, m) /\ DOMAIN g = 1..m
      BY DEF TotalStake, low
    <3> HIDE DEF g, f, D, l
    <3>5. SumFunctionOnSet(g, 1..m) = SumFunctionOnSet(f, D)
      BY <3>1, <3>3, SMT DEF Laws, SumImageLaw
    <3> QED BY <3>2, <3>4, <3>5 DEF SumFunction, StakeSum, f
  <2> QED BY <2>2, <2>6, <2>7, <2>8 DEF fr
\* The validator set of elections is a validator set for ElectFor from their time on.
<1>ElectedSet.
      ASSUME NEW d, GoodData(d), Open(d), NEW t \in Nat, Elected(d.elect.members) # 0
      PROVE  LET vset == ElectedVset(d, t)
             IN  /\ vset \in Vset /\ d.elect.elect_at <= vset.since
                 /\ vset.until = vset.since + ElectFor
  <2> USE <1>ElectedSet
  <2> DEFINE M == d.elect.members
             l == Ranking(M)
             m == Elected(M)
             frozen == FrozenStakes(M, m)
             start == Greater(t + EndBefore - Grace, d.elect.elect_at)
             list == [i \in 1..m |-> <<l[i], (frozen[l[i]].stake * WeightOne) \div StakeSum(frozen)>>]
  <2>1. IsDict(M, Keys, Member) /\ d.elect.elect_at \in Nat
    BY DEF Open, GoodData, GoodElection, IsElection, Election
  <2>2. ElectedVset(d, t) = [since |-> start, until |-> start + ElectFor, list |-> list]
    BY DEF ElectedVset
  <2>3. start \in Nat /\ start >= d.elect.elect_at /\ ElectFor \in Nat
    <3>1. EndBefore \in Nat /\ Grace \in Nat /\ ElectFor \in Nat
      BY ElectorAssumption
    <3> QED BY <2>1, <3>1, SMT DEF Greater
  <2>4. /\ m \in 1..Cardinality(DOMAIN M) /\ Cardinality(DOMAIN M) \in Nat
        /\ IsDict(frozen, Keys, Frozen) /\ DOMAIN frozen = {l[i] : i \in 1..m}
        /\ StakeSum(frozen) > 0 /\ StakeSum(frozen) \in Nat
    <3>1. m \in 1..Cardinality(DOMAIN M) /\ TotalStake(M, l, m) > 0
      BY <2>1, <1>ElectedNumber
    <3>2. /\ IsDict(frozen, Keys, Frozen) /\ DOMAIN frozen = {l[i] : i \in 1..m}
          /\ StakeSum(frozen) = TotalStake(M, l, m)
      BY <2>1, <3>1, <1>FrozenFor
    <3>3. Cardinality(DOMAIN M) \in Nat
      BY <2>1, <1>Ranked
    <3>4. StakeSum(frozen) \in Nat
      BY <3>2, StakeTypes
    <3> HIDE DEF m, l, frozen, M
    <3> QED BY <3>1, <3>2, <3>3, <3>4
  <2>5. ASSUME NEW i \in 1..m PROVE list[i] \in Keys \X Nat
    <3>1. l[i] \in DOMAIN frozen
      BY <2>4
    <3>2. l[i] \in Keys /\ frozen[l[i]].stake \in Nat
      <4>1. l[i] \in Keys /\ frozen[l[i]] \in Frozen
        BY <2>4, <3>1, DictEntry
      <4> HIDE DEF l, frozen
      <4> QED BY <4>1 DEF Frozen
    <3> DEFINE x == frozen[l[i]].stake * WeightOne
               y == StakeSum(frozen)
    <3>3. x \in Nat
      BY <3>2, ElectorAssumption, SMT
    <3>4. y \in Nat /\ y > 0
      BY <2>4
    <3> HIDE DEF x, y, l, m, frozen
    <3>5. x \div y \in Nat
      BY <3>3, <3>4, SMT
    <3>6. list[i] = <<l[i], x \div y>>
      BY DEF x, y
    <3> QED BY <3>2, <3>5, <3>6
  <2>6. list \in Seq(Keys \X Nat)
    <3>1. m \in Nat
      BY <2>4, SMT
    <3>2. DOMAIN list = 1..m /\ list = [i \in 1..m |-> list[i]]
      OBVIOUS
    <3> HIDE DEF list, m
    <3> QED BY <2>5, <3>1, <3>2, SMT
  <2> HIDE DEF list, start
  <2> QED BY <2>2, <2>3, <2>6, SMT DEF Vset
<1> SUFFICES ASSUME NEW d, GoodData(d), Open(d), NEW t \in Nat, Elected(d.elect.members) # 0,
                    0 < d.elect.elect_at
             PROVE  LET M == d.elect.members
                        frozen == FrozenStakes(M, Elected(M))
                        vset == ElectedVset(d, t)
                        r == [unfreeze_at |-> vset.until + StakeHeld, stake_held |-> StakeHeld,
                              vset |-> vset, frozen |-> frozen, stakes |-> StakeSum(frozen), bonuses |-> 0]
                    IN  /\ GoodRecord(d.elect.elect_at, r)
                        /\ IsDict(frozen, Keys, Frozen) /\ DOMAIN frozen \subseteq DOMAIN M
                        /\ \A k \in DOMAIN frozen :
                               frozen[k].addr = M[k].addr /\ frozen[k].stake <= CutStake(M[k])
  OBVIOUS
<1> DEFINE M == d.elect.members
           m == Elected(M)
           l == Ranking(M)
           frozen == FrozenStakes(M, m)
           vset == ElectedVset(d, t)
           r == [unfreeze_at |-> vset.until + StakeHeld, stake_held |-> StakeHeld,
                 vset |-> vset, frozen |-> frozen, stakes |-> StakeSum(frozen), bonuses |-> 0]
<1>1. IsDict(M, Keys, Member) /\ d.elect.elect_at \in Nat
  BY DEF Open, GoodData, GoodElection, IsElection, Election
<1>2. /\ vset \in Vset /\ d.elect.elect_at <= vset.since /\ vset.until = vset.since + ElectFor
  BY <1>ElectedSet
<1>3. /\ m \in 1..Cardinality(DOMAIN M) /\ TotalStake(M, l, m) > 0
      /\ ~ (TotalStake(M, l, m) < MinTotalStake)
  BY <1>1, <1>ElectedNumber
<1>4. /\ IsDict(frozen, Keys, Frozen) /\ DOMAIN frozen \subseteq DOMAIN M
      /\ \A k \in DOMAIN frozen :
             frozen[k].addr = M[k].addr /\ frozen[k].stake <= CutStake(M[k])
      /\ StakeSum(frozen) = TotalStake(M, l, m)
  BY <1>1, <1>3, <1>FrozenFor
<1>5. StakeSum(frozen) \in Nat
  BY <1>4, StakeTypes
<1> HIDE DEF frozen, vset, m, l, M
<1>6. StakeSum(frozen) > 0 /\ StakeSum(frozen) >= MinTotalStake
  <2>1. MinTotalStake \in Nat
    BY ElectorAssumption
  <2> QED BY <1>3, <1>4, <1>5, <2>1, SMT
<1>7. vset.since \in Nat /\ vset.until \in Nat /\ StakeHeld \in Nat
  BY <1>2, ElectorAssumption DEF Vset
<1>8. r \in Record({frozen})
  BY <1>2, <1>5, <1>7, SMTT(30) DEF Record
<1>9. GoodRecord(d.elect.elect_at, r)
  BY <1>1, <1>2, <1>4, <1>6, <1>7, <1>8, SMT DEF GoodRecord, IsRecord
<1> QED BY <1>4, <1>9 DEF frozen, vset, m, M

\* The bonuses of a record are shared by stake and rounded down: the shares are no more
\* than the bonuses.  With the stakes they are what the owners get back.
LEMMA RecordSums ==
    ASSUME Laws, NEW id \in Nat, NEW r, GoodRecord(id, r)
    PROVE  /\ r.stakes \in Nat /\ r.bonuses \in Nat
           /\ UnusedPrizes(r) \in Nat
           /\ \A a : Returned(r, a) \in Nat /\ Returned(r, a) >= StakeOfAddr(r.frozen, a)
           /\ \A h : (\A a \in Addrs : h[a] = Returned(r, a)) =>
                  SumFunctionOnSet(h, Addrs) + UnusedPrizes(r) = r.stakes + r.bonuses
<1> DEFINE D == DOMAIN r.frozen
           s == Stakes(r.frozen)
           b == BonusOf(r)
           m == [k \in D |-> r.bonuses * s[k]]
           f == Refund(r)
<1>1. r.stakes \in Nat /\ r.bonuses \in Nat /\ r.stakes > 0 /\ IsDict(r.frozen, Keys, Frozen)
      /\ r.stakes = StakeSum(r.frozen)
  BY DEF GoodRecord, IsRecord, Record
<1>2. /\ IsFiniteSet(D) /\ \A k \in D : s[k] = r.frozen[k].stake /\ s[k] \in Nat /\ r.frozen[k].addr \in Addrs
      /\ SumFunctionOnSet(s, D) = r.stakes
  BY <1>1, StakeTypes
<1>3. DOMAIN b = D /\ \A k \in D : b[k] = IF r.bonuses > 0 THEN m[k] \div r.stakes ELSE 0
  BY <1>2 DEF BonusOf
<1>4. \A k \in D : m[k] \in Nat /\ m[k] = r.bonuses * s[k]
  BY <1>1, <1>2, SMT
<1>5. DOMAIN f = D /\ \A k \in D : f[k] = s[k] + b[k]
  BY <1>2 DEF Refund
<1> HIDE DEF D, s, b, m, f
<1>6. ASSUME NEW k \in D PROVE b[k] \in Nat /\ r.stakes * b[k] <= m[k]
  <2>1. m[k] \in Nat
    BY <1>4
  <2>2. m[k] \div r.stakes \in Nat
    BY <1>1, <2>1, SMT
  <2>3. r.stakes * (m[k] \div r.stakes) <= m[k]
    BY <1>1, <2>1, NatInt DEF Laws, DivLaw
  <2>4. CASE r.bonuses > 0
    BY <1>3, <2>2, <2>3, <2>4
  <2>5. CASE ~ (r.bonuses > 0)
    BY <1>1, <1>3, <2>1, <2>5, SMT
  <2> QED BY <2>4, <2>5
<1> DEFINE sb == SumFunctionOnSet(b, D)
<1>7. sb \in Nat /\ SumFunction(b) = sb
  BY <1>2, <1>3, <1>6 DEF SumFunction, Laws, SumNatLaw
<1>8. sb <= r.bonuses
  <2>1. r.stakes * sb <= SumFunctionOnSet(m, D)
    BY <1>1, <1>2, <1>4, <1>6, NatInt DEF Laws, SumScaledLaw
  <2>2. SumFunctionOnSet(m, D) = r.bonuses * r.stakes
    <3>1. \A k \in D : s[k] \in Int /\ m[k] = r.bonuses * s[k]
      BY <1>2, <1>4, NatInt
    <3>2. SumFunctionOnSet(m, D) = r.bonuses * SumFunctionOnSet(s, D)
      BY <1>1, <1>2, <3>1, SMT DEF Laws, SumMultipleLaw
    <3> QED BY <1>2, <3>2
  <2> HIDE DEF sb
  <2>3. \A x \in Nat, y \in Nat, z \in Nat : z > 0 /\ z * x <= y * z => x <= y
    BY SMT
  <2> QED BY <1>1, <1>7, <2>1, <2>2, <2>3
<1>9. UnusedPrizes(r) = r.bonuses - sb
  BY <1>7 DEF UnusedPrizes, b
<1> HIDE DEF sb
<1>10. \A k \in D : f[k] \in Nat /\ s[k] <= f[k]
  BY <1>2, <1>5, <1>6, SMT
<1>11. ASSUME NEW a PROVE Returned(r, a) \in Nat /\ Returned(r, a) >= StakeOfAddr(r.frozen, a)
  <2> DEFINE O == OwnedBy(r.frozen, a)
  <2>1. O \in SUBSET D /\ IsFiniteSet(O)
    BY <1>2, OwnedFinite DEF D
  <2>2. Returned(r, a) = SumFunctionOnSet(f, O) /\ StakeOfAddr(r.frozen, a) = SumFunctionOnSet(s, O)
    BY DEF Returned, StakeOfAddr, f, s
  <2> HIDE DEF O
  <2>3. \A k \in O : f[k] \in Nat /\ f[k] \in Int /\ s[k] \in Int /\ s[k] <= f[k]
    BY <1>2, <1>10, <2>1, NatInt
  <2>4. SumFunctionOnSet(f, O) \in Nat
    BY <2>1, <2>3 DEF Laws, SumNatLaw
  <2>5. SumFunctionOnSet(s, O) <= SumFunctionOnSet(f, O) /\ SumFunctionOnSet(s, O) \in Int
    BY <2>1, <2>3 DEF Laws, SumLeqLaw, SumIntLaw
  <2> QED BY <2>2, <2>4, <2>5
<1>12. ASSUME NEW h, \A a \in Addrs : h[a] = Returned(r, a)
       PROVE  SumFunctionOnSet(h, Addrs) + UnusedPrizes(r) = r.stakes + r.bonuses
  <2>1. \A a \in Addrs : h[a] = SumFunctionOnSet(f, OwnedBy(r.frozen, a))
    BY <1>12 DEF Returned, f
  <2>2. SumFunctionOnSet(h, Addrs) = SumFunctionOnSet(f, D)
    BY <1>2, <1>10, <2>1, SumByOwner, NatInt DEF D
  <2>3. SumFunctionOnSet(f, D) = SumFunctionOnSet(s, D) + SumFunctionOnSet(b, D)
    BY <1>2, <1>5, <1>6, SMT DEF Laws, SumPlusLaw
  <2> QED BY <1>1, <1>2, <1>7, <1>9, <2>2, <2>3, SMT DEF sb
<1> QED BY <1>1, <1>7, <1>8, <1>9, <1>11, <1>12, SMT

-----------------------------------------------------------------------------
\* What an address has in the books d.
Kept(d, a) == d.credits[a] + StakedBy(d, a)

\* The sums of the books are sums of natural numbers.
LEMMA BookTypes ==
    ASSUME Laws, NEW d, GoodData(d)
    PROVE  /\ IsFiniteSet(DOMAIN d.past)
           /\ DOMAIN d.credits = Addrs /\ \A a \in Addrs : d.credits[a] \in Nat
           /\ SumFunction(d.credits) = SumFunctionOnSet(d.credits, Addrs)
           /\ SumFunction(d.credits) \in Nat
           /\ DOMAIN Worth(d) = DOMAIN d.past
           /\ \A id \in DOMAIN d.past :
                  /\ id \in Nat /\ GoodRecord(id, d.past[id])
                  /\ Worth(d)[id] = d.past[id].stakes + d.past[id].bonuses
                  /\ Worth(d)[id] \in Nat
           /\ SumFunction(Worth(d)) = SumFunctionOnSet(Worth(d), DOMAIN d.past)
           /\ SumFunction(Worth(d)) \in Nat
           /\ AtStake(d) \in Nat /\ d.grams \in Nat
           /\ Owed(d) = AtStake(d) + SumFunction(d.credits) + d.grams + SumFunction(Worth(d))
           /\ Owed(d) \in Nat
<1>1. IsFiniteSet(DOMAIN d.past) /\ IsFiniteSet(Addrs) /\ d.grams \in Nat
  BY ElectorAssumption DEF GoodData, GoodPast
<1>2. d.credits \in [Addrs -> Nat]
  BY DEF GoodData
<1>3. /\ DOMAIN d.credits = Addrs /\ \A a \in Addrs : d.credits[a] \in Nat
      /\ SumFunction(d.credits) = SumFunctionOnSet(d.credits, Addrs)
      /\ SumFunction(d.credits) \in Nat
  BY <1>1, <1>2 DEF SumFunction, Laws, SumNatLaw
<1>4. ASSUME NEW id \in DOMAIN d.past
      PROVE  /\ id \in Nat /\ GoodRecord(id, d.past[id])
             /\ d.past[id].stakes \in Nat /\ d.past[id].bonuses \in Nat
  <2>1. id \in Nat /\ GoodRecord(id, d.past[id])
    BY DEF GoodData, GoodPast
  <2> QED BY <2>1 DEF GoodRecord, IsRecord, Record
<1>5. /\ DOMAIN Worth(d) = DOMAIN d.past
      /\ \A id \in DOMAIN d.past : Worth(d)[id] = d.past[id].stakes + d.past[id].bonuses
      /\ \A id \in DOMAIN d.past : Worth(d)[id] \in Nat
  BY <1>4, SMT DEF Worth
<1>6. /\ SumFunction(Worth(d)) = SumFunctionOnSet(Worth(d), DOMAIN d.past)
      /\ SumFunction(Worth(d)) \in Nat
  BY <1>1, <1>5 DEF SumFunction, Laws, SumNatLaw
<1>7. AtStake(d) \in Nat
  <2>1. CASE Open(d)
    <3>1. IsDict(d.elect.members, Keys, Member)
      BY <2>1 DEF Open, GoodData, GoodElection, IsElection
    <3> QED BY <2>1, <3>1, StakeTypes DEF AtStake
  <2>2. CASE ~ Open(d)
    BY <2>2 DEF AtStake
  <2> QED BY <2>1, <2>2
<1> QED BY <1>1, <1>3, <1>4, <1>5, <1>6, <1>7, SMT DEF Owed

\* The stakes of an address in the books are natural numbers.
LEMMA KeptTypes ==
    ASSUME Laws, NEW d, GoodData(d), NEW a \in Addrs
    PROVE  /\ d.credits[a] \in Nat /\ IsFiniteSet(DOMAIN d.past)
           /\ DOMAIN FrozenOf(d, a) = DOMAIN d.past
           /\ \A id \in DOMAIN d.past :
                  /\ FrozenOf(d, a)[id] = StakeOfAddr(d.past[id].frozen, a)
                  /\ FrozenOf(d, a)[id] \in Nat
           /\ SumFunction(FrozenOf(d, a)) = SumFunctionOnSet(FrozenOf(d, a), DOMAIN d.past)
           /\ SumFunction(FrozenOf(d, a)) \in Nat
           /\ Open(d) => StakeOfAddr(d.elect.members, a) \in Nat
           /\ Kept(d, a) = d.credits[a] + SumFunction(FrozenOf(d, a))
                             + IF Open(d) THEN StakeOfAddr(d.elect.members, a) ELSE 0
<1>1. d.credits[a] \in Nat /\ IsFiniteSet(DOMAIN d.past)
  BY BookTypes
<1>2. ASSUME NEW id \in DOMAIN d.past PROVE StakeOfAddr(d.past[id].frozen, a) \in Nat
  <2>1. IsDict(d.past[id].frozen, Keys, Frozen)
    BY BookTypes DEF GoodRecord, IsRecord
  <2> QED BY <2>1, StakeTypes
<1>3. DOMAIN FrozenOf(d, a) = DOMAIN d.past
      /\ \A id \in DOMAIN d.past : FrozenOf(d, a)[id] = StakeOfAddr(d.past[id].frozen, a)
  BY DEF FrozenOf
<1>4. /\ SumFunction(FrozenOf(d, a)) = SumFunctionOnSet(FrozenOf(d, a), DOMAIN d.past)
      /\ SumFunction(FrozenOf(d, a)) \in Nat
  BY <1>1, <1>2, <1>3 DEF SumFunction, Laws, SumNatLaw
<1>5. Open(d) => StakeOfAddr(d.elect.members, a) \in Nat
  <2>1. SUFFICES ASSUME Open(d) PROVE StakeOfAddr(d.elect.members, a) \in Nat
    OBVIOUS
  <2>2. IsDict(d.elect.members, Keys, Member)
    BY <2>1 DEF Open, GoodData, GoodElection, IsElection
  <2> QED BY <2>2, StakeTypes
<1> QED BY <1>1, <1>2, <1>3, <1>4, <1>5, SMT DEF Kept, StakedBy

\* The amounts that the steps compare are natural numbers.
LEMMA AmountTypes ==
    ASSUME Laws, NEW d, GoodData(d)
    PROVE  /\ Owed(d) \in Nat /\ Owed(d) <= Owed(d)
           /\ \A a \in Addrs : Kept(d, a) \in Nat /\ Kept(d, a) >= Kept(d, a)
<1>1. Owed(d) \in Nat
  <2>1. /\ AtStake(d) \in Nat /\ SumFunction(d.credits) \in Nat /\ d.grams \in Nat
        /\ SumFunction(Worth(d)) \in Nat
    BY BookTypes
  <2> QED BY <2>1, SMT DEF Owed
<1>2. ASSUME NEW a \in Addrs PROVE Kept(d, a) \in Nat
  <2>1. /\ d.credits[a] \in Nat /\ SumFunction(FrozenOf(d, a)) \in Nat
        /\ Open(d) => StakeOfAddr(d.elect.members, a) \in Nat
    BY KeptTypes
  <2> QED BY <2>1, SMT DEF Kept, StakedBy
<1>3. \A n \in Nat : n <= n /\ n >= n
  BY SMT
<1> QED BY <1>1, <1>2, <1>3

\* Records that keep their validator sets stay in order, and the active one stays active.
LEMMA PastKept ==
    ASSUME Laws, NEW d, NEW u, GoodPast(d), DOMAIN u.past \subseteq DOMAIN d.past,
           \A id \in DOMAIN u.past : /\ GoodRecord(id, u.past[id])
                                     /\ u.past[id].vset = d.past[id].vset
    PROVE  /\ GoodPast(u)
           /\ GoodActive(d) /\ u.active_id = d.active_id /\ u.active_hash = d.active_hash
                => GoodActive(u)
<1>1. GoodPast(u)
  <2>1. IsFiniteSet(DOMAIN u.past)
    BY DEF GoodPast, Laws, SubsetLaw
  <2> QED BY <2>1 DEF GoodPast
<1>2. ASSUME GoodActive(d), u.active_id = d.active_id, u.active_hash = d.active_hash
      PROVE  GoodActive(u)
  BY <1>2 DEF GoodActive
<1> QED BY <1>1, <1>2

\* unfreeze_all returns what the record is worth: the books owe as much as before, and
\* no address has less.
LEMMA UnfreezeKeeps ==
    ASSUME Laws, NEW d, GoodData(d), NEW id \in DOMAIN d.past
    PROVE  /\ GoodData(UnfreezeAll(d, id))
           /\ UnfreezeAll(d, id).elect = d.elect
           /\ UnfreezeAll(d, id).active_id = d.active_id
           /\ UnfreezeAll(d, id).active_hash = d.active_hash
           /\ UnfreezeAll(d, id).past = Drop(d.past, id)
           /\ Owed(UnfreezeAll(d, id)) = Owed(d)
           /\ \A a \in Addrs : Kept(UnfreezeAll(d, id), a) >= Kept(d, a)
<1> DEFINE r == d.past[id]
           u == UnfreezeAll(d, id)
           D == DOMAIN d.past
           h == [a \in Addrs |-> Returned(r, a)]
<1>1. id \in Nat /\ GoodRecord(id, r)
  BY BookTypes
<1>2. u = [elect |-> d.elect, credits |-> [a \in Addrs |-> d.credits[a] + Returned(r, a)],
           past |-> Drop(d.past, id), grams |-> d.grams + UnusedPrizes(r),
           active_id |-> d.active_id, active_hash |-> d.active_hash]
  BY DEF UnfreezeAll, GoodData, Shape
<1> HIDE DEF u
<1>3. /\ u.elect = d.elect /\ u.active_id = d.active_id /\ u.active_hash = d.active_hash
      /\ u.past = Drop(d.past, id) /\ u.grams = d.grams + UnusedPrizes(r)
      /\ u.credits = [a \in Addrs |-> d.credits[a] + Returned(r, a)] /\ Shape(u)
  BY <1>2 DEF Shape
<1>4. DOMAIN u.past = D \ {id} /\ \A i \in D \ {id} : u.past[i] = d.past[i]
  BY <1>3 DEF Drop
<1>5. /\ r.stakes \in Nat /\ r.bonuses \in Nat /\ UnusedPrizes(r) \in Nat
      /\ \A a : Returned(r, a) \in Nat /\ Returned(r, a) >= StakeOfAddr(r.frozen, a)
      /\ SumFunctionOnSet(h, Addrs) + UnusedPrizes(r) = r.stakes + r.bonuses
  BY <1>1, RecordSums
<1>6. GoodData(u)
  <2>1. u.credits \in [Addrs -> Nat] /\ u.grams \in Nat
    BY <1>3, <1>5, BookTypes, SMT
  <2>2. GoodPast(u) /\ GoodActive(u)
    BY <1>3, <1>4, BookTypes, PastKept DEF GoodData
  <2> QED BY <1>3, <2>1, <2>2 DEF GoodData
<1>7. Owed(u) = Owed(d)
  <2>1. AtStake(u) = AtStake(d)
    BY <1>3 DEF AtStake, Open
  <2>2. SumFunction(u.credits) = SumFunction(d.credits) + SumFunctionOnSet(h, Addrs)
        /\ SumFunctionOnSet(h, Addrs) \in Int
    <3>1. \A a \in Addrs : d.credits[a] \in Int /\ h[a] \in Int /\ u.credits[a] = d.credits[a] + h[a]
      BY <1>3, <1>5, BookTypes, NatInt
    <3> HIDE DEF h
    <3>2. SumFunctionOnSet(u.credits, Addrs)
            = SumFunctionOnSet(d.credits, Addrs) + SumFunctionOnSet(h, Addrs)
      BY <3>1, ElectorAssumption, SMT DEF Laws, SumPlusLaw
    <3> QED BY <1>6, <3>1, <3>2, BookTypes, ElectorAssumption DEF Laws, SumIntLaw
  <2>3. SumFunction(Worth(u)) = SumFunction(Worth(d)) - (r.stakes + r.bonuses)
    <3>1. \A i \in D \ {id} : Worth(u)[i] = Worth(d)[i]
      BY <1>4, <1>6, BookTypes, SMT
    <3>2. OneLess(Worth(d), D, Worth(u), id)
      BY <3>1, BookTypes, NatInt DEF OneLess
    <3>3. SumFunctionOnSet(Worth(u), D \ {id}) = SumFunctionOnSet(Worth(d), D) - Worth(d)[id]
      BY <3>2 DEF Laws, SumReducedLaw
    <3> QED BY <1>4, <1>6, <3>3, BookTypes
  <2> QED BY <1>3, <1>5, <1>6, <2>1, <2>2, <2>3, BookTypes, SMT
<1>8. ASSUME NEW a \in Addrs PROVE Kept(u, a) >= Kept(d, a)
  <2>1. u.credits[a] = d.credits[a] + Returned(r, a)
    BY <1>3
  <2>2. SumFunction(FrozenOf(u, a)) = SumFunction(FrozenOf(d, a)) - StakeOfAddr(r.frozen, a)
    <3>1. \A i \in D \ {id} : FrozenOf(u, a)[i] = FrozenOf(d, a)[i]
      BY <1>4, <1>6, KeptTypes, SMT
    <3>2. OneLess(FrozenOf(d, a), D, FrozenOf(u, a), id)
      BY <3>1, KeptTypes, NatInt DEF OneLess
    <3>3. SumFunctionOnSet(FrozenOf(u, a), D \ {id})
            = SumFunctionOnSet(FrozenOf(d, a), D) - FrozenOf(d, a)[id]
      BY <3>2 DEF Laws, SumReducedLaw
    <3> QED BY <1>4, <1>6, <3>3, KeptTypes
  <2>3. /\ Open(u) <=> Open(d)
        /\ Open(d) => StakeOfAddr(u.elect.members, a) = StakeOfAddr(d.elect.members, a)
    BY <1>3 DEF Open
  <2>4. StakeOfAddr(r.frozen, a) \in Nat
    BY KeptTypes
  <2> QED BY <1>5, <1>6, <2>1, <2>2, <2>3, <2>4, KeptTypes, SMT
<1> QED BY <1>3, <1>6, <1>7, <1>8 DEF u

\* A record gets another time or other bonuses, and "grams" another amount.
Replaced(d, u, id, q) ==
    /\ q.vset = d.past[id].vset /\ q.frozen = d.past[id].frozen
    /\ Shape(u) /\ u.past = [d.past EXCEPT ![id] = q]
    /\ u.elect = d.elect /\ u.credits = d.credits /\ u.grams \in Nat

\* Grams become bonuses of the record; bonuses grow by n.
Shared(d, u, id, q) == u.grams + q.bonuses = d.grams + d.past[id].bonuses
Grown(d, u, id, q, n) == u.grams = d.grams /\ q.bonuses = d.past[id].bonuses + n

\* What is owed stays or grows by n; everyone keeps the same.
SameBooks(d, u) == Owed(u) = Owed(d) /\ \A a \in Addrs : Kept(u, a) = Kept(d, a)
MoreOwed(d, u, n) == Owed(u) = Owed(d) + n /\ \A a \in Addrs : Kept(u, a) = Kept(d, a)

\* One record is replaced by one with the same stakes.
LEMMA RecordChange ==
    ASSUME Laws, NEW d, GoodData(d), NEW id \in DOMAIN d.past, NEW q, GoodRecord(id, q),
           NEW u, Replaced(d, u, id, q)
    PROVE  /\ GoodPast(u)
           /\ u.active_id = d.active_id /\ u.active_hash = d.active_hash => GoodActive(u)
           /\ GoodActive(u) => GoodData(u)
           /\ GoodData(u) => /\ Shared(d, u, id, q) => SameBooks(d, u)
                             /\ \A n \in Nat : Grown(d, u, id, q, n) => MoreOwed(d, u, n)
<1> USE DEF Replaced
<1> DEFINE D == DOMAIN d.past
           r == d.past[id]
<1>1. id \in Nat /\ GoodRecord(id, r) /\ r.stakes = q.stakes
  BY BookTypes, NatInt DEF GoodRecord
<1>2. DOMAIN u.past = D /\ u.past[id] = q /\ \A i \in D \ {id} : u.past[i] = d.past[i]
  OBVIOUS
<1>3. \A i \in D : /\ GoodRecord(i, u.past[i]) /\ u.past[i].vset = d.past[i].vset
                   /\ u.past[i].frozen = d.past[i].frozen
  <2>1. \A i \in D : i = id \/ i \in D \ {id}
    OBVIOUS
  <2> QED BY <1>2, <2>1, BookTypes
<1>4. /\ GoodPast(u)
      /\ u.active_id = d.active_id /\ u.active_hash = d.active_hash => GoodActive(u)
  <2>1. GoodPast(d) /\ GoodActive(d) /\ DOMAIN u.past \subseteq DOMAIN d.past
    BY <1>2 DEF GoodData
  <2> QED BY <1>2, <1>3, <2>1, PastKept
<1>5. GoodActive(u) => GoodData(u)
  BY <1>4 DEF GoodData
<1>6. ASSUME GoodData(u)
      PROVE  /\ u.grams + q.bonuses = d.grams + r.bonuses => Owed(u) = Owed(d)
             /\ \A n \in Nat : u.grams = d.grams /\ q.bonuses = r.bonuses + n => Owed(u) = Owed(d) + n
  <2>1. AtStake(u) = AtStake(d)
    BY DEF AtStake, Open
  <2>2. OneChanged(Worth(d), D, Worth(u), id)
    <3>1. \A i \in D : Worth(d)[i] \in Int /\ Worth(u)[i] \in Int
      BY <1>2, <1>6, BookTypes, NatInt
    <3>2. \A i \in D \ {id} : Worth(u)[i] = Worth(d)[i]
      <4>1. \A i \in D : Worth(u)[i] = u.past[i].stakes + u.past[i].bonuses
        BY <1>2, <1>6, BookTypes
      <4>2. \A i \in D : Worth(d)[i] = d.past[i].stakes + d.past[i].bonuses
        BY BookTypes
      <4> QED BY <1>2, <4>1, <4>2, SMT
    <3> QED BY <3>1, <3>2, BookTypes DEF OneChanged
  <2>3. SumFunctionOnSet(Worth(u), D) = SumFunctionOnSet(Worth(d), D) + Worth(u)[id] - Worth(d)[id]
    BY <2>2, SMTT(30) DEF Laws, SumChangeLaw
  <2>4. /\ Worth(u)[id] = q.stakes + q.bonuses /\ Worth(d)[id] = r.stakes + r.bonuses
        /\ q.stakes \in Nat /\ q.bonuses \in Nat /\ r.stakes \in Nat /\ r.bonuses \in Nat
    BY <1>1, <1>2, <1>6, BookTypes, RecordSums, NatInt
  <2>5. /\ Owed(u) = AtStake(d) + SumFunction(d.credits) + u.grams + SumFunctionOnSet(Worth(u), D)
        /\ SumFunctionOnSet(Worth(u), D) \in Nat
    BY <1>2, <1>6, <2>1, BookTypes
  <2>6. /\ Owed(d) = AtStake(d) + SumFunction(d.credits) + d.grams + SumFunctionOnSet(Worth(d), D)
        /\ AtStake(d) \in Nat /\ SumFunction(d.credits) \in Nat /\ SumFunctionOnSet(Worth(d), D) \in Nat
        /\ d.grams \in Nat
    BY BookTypes
  <2> HIDE DEF D, r
  <2>7. Owed(u) \in Int /\ Owed(d) \in Int
        /\ Owed(u) - Owed(d) = (u.grams + q.bonuses) - (d.grams + r.bonuses)
    BY <1>1, <2>3, <2>4, <2>5, <2>6, SMT
  <2> QED BY <2>4, <2>6, <2>7, SMT
<1>7. ASSUME GoodData(u), NEW a \in Addrs PROVE Kept(u, a) = Kept(d, a)
  <2>1. FrozenOf(u, a) = FrozenOf(d, a)
    BY <1>2, <1>3 DEF FrozenOf
  <2> QED BY <2>1 DEF Kept, StakedBy, Open
<1>8. ASSUME GoodData(u), Shared(d, u, id, q) PROVE SameBooks(d, u)
  BY <1>6, <1>7, <1>8 DEF Shared, SameBooks
<1>9. ASSUME GoodData(u), NEW n \in Nat, Grown(d, u, id, q, n) PROVE MoreOwed(d, u, n)
  BY <1>6, <1>7, <1>9 DEF Grown, MoreOwed
<1> QED BY <1>4, <1>5, <1>8, <1>9

\* The same records are worth the same.
LEMMA SamePast ==
    ASSUME NEW d, NEW u, u.past = d.past
    PROVE  Worth(u) = Worth(d) /\ \A a : FrozenOf(u, a) = FrozenOf(d, a)
BY DEF Worth, FrozenOf

\* Only the elections change.
OnlyElect(d, u) ==
    /\ Shape(u) /\ u.past = d.past /\ u.credits = d.credits /\ u.grams = d.grams
    /\ u.active_id = d.active_id /\ u.active_hash = d.active_hash

\* Data with other elections: the rest stays.
LEMMA SetElect ==
    ASSUME NEW d, GoodData(d), NEW e, NEW u, u = [d EXCEPT !.elect = e]
    PROVE  OnlyElect(d, u) /\ u.elect = e
BY DEF GoodData, Shape, OnlyElect

\* The elections change and nothing else: what is owed and what everyone keeps stay, except
\* for the open stakes.
LEMMA ElectChange ==
    ASSUME Laws, NEW d, GoodData(d), NEW u, OnlyElect(d, u), u.elect = NoElect \/ GoodElection(u.elect)
    PROVE  /\ GoodData(u)
           /\ Owed(u) - AtStake(u) = Owed(d) - AtStake(d)
           /\ \A a \in Addrs : Kept(u, a) - (IF Open(u) THEN StakeOfAddr(u.elect.members, a) ELSE 0)
                                 = Kept(d, a) - IF Open(d) THEN StakeOfAddr(d.elect.members, a) ELSE 0
<1>1. GoodData(u)
  BY DEF OnlyElect, GoodData, GoodPast, GoodActive
<1>2. u.credits = d.credits /\ u.grams = d.grams
  BY DEF OnlyElect
<1>3. Worth(u) = Worth(d) /\ \A a : FrozenOf(u, a) = FrozenOf(d, a)
  BY SamePast DEF OnlyElect
<1>4. Owed(u) - AtStake(u) = Owed(d) - AtStake(d)
  BY <1>1, <1>2, <1>3, BookTypes, SMTT(30)
<1>5. ASSUME NEW a \in Addrs
      PROVE  Kept(u, a) - (IF Open(u) THEN StakeOfAddr(u.elect.members, a) ELSE 0)
               = Kept(d, a) - IF Open(d) THEN StakeOfAddr(d.elect.members, a) ELSE 0
  BY <1>1, <1>2, <1>3, KeptTypes, SMT
<1> QED BY <1>1, <1>4, <1>5

\* The fields of a record.
LEMMA RecordTypes ==
    ASSUME NEW id \in Nat, NEW r, GoodRecord(id, r)
    PROVE  /\ r \in Record({r.frozen}) /\ r.bonuses \in Nat /\ r.stakes \in Nat
           /\ r.unfreeze_at \in Nat /\ r.vset \in Vset
           /\ r.vset.since \in Nat /\ r.vset.until \in Nat
           /\ id <= r.vset.since /\ r.vset.since < r.vset.until
           /\ id + ElectFor <= r.vset.until /\ r.vset.until + StakeHeld <= r.unfreeze_at
           /\ ElectFor \in Nat /\ StakeHeld \in Nat
<1>1. r \in Record({r.frozen}) /\ r.bonuses \in Nat /\ r.stakes \in Nat /\ r.unfreeze_at \in Nat /\ r.vset \in Vset
  BY DEF GoodRecord, IsRecord, Record
<1>2. r.vset.since \in Nat /\ r.vset.until \in Nat
  BY <1>1 DEF Vset
<1>3. ElectFor \in Nat /\ ElectFor > 0 /\ StakeHeld \in Nat
  BY ElectorAssumption, SMT
<1>4. /\ id <= r.vset.since /\ r.vset.until = r.vset.since + ElectFor
      /\ r.unfreeze_at >= r.vset.until + StakeHeld
  BY DEF GoodRecord
<1> QED BY <1>1, <1>2, <1>3, <1>4, SMT

\* Elections are held: a new record after all others; the books owe no more than
\* before, and no address has less when no stake is cut.
LEMMA SucceedKeeps ==
    ASSUME Laws
    PROVE  \A d : \A t \in Nat :
               /\ GoodData(d)
               /\ Open(d)
               /\ Elected(d.elect.members) # 0
               /\ 0 < d.elect.elect_at
               /\ \A id \in DOMAIN d.past : d.past[id].vset.until <= d.elect.elect_at
               /\ d.active_hash # NoVset => d.active_hash.until <= d.elect.elect_at
               => LET u == ElectionsSucceed(d, t)
                      at == d.elect.elect_at
                  IN  /\ GoodData(u) /\ u.elect # NoElect /\ u.elect.finished /\ u.elect.elect_at = at
                      /\ u.active_id = d.active_id /\ u.active_hash = d.active_hash
                      /\ DOMAIN u.past = DOMAIN d.past \cup {at} /\ at \notin DOMAIN d.past
                      /\ \A id \in DOMAIN d.past : u.past[id] = d.past[id]
                      /\ u.past[at].vset = ElectedVset(d, t)
                      /\ Owed(u) <= Owed(d)
                      /\ (\A k \in DOMAIN d.elect.members : d.elect.members[k].stake <= MaxStake) =>
                             \A a \in Addrs : Kept(u, a) >= Kept(d, a)
       \* What is not frozen of the stakes (as cut) is credited.
<1>UnusedAndFrozen.
      ASSUME NEW members, IsDict(members, Keys, Member), NEW frozen, IsDict(frozen, Keys, Frozen),
             DOMAIN frozen \subseteq DOMAIN members,
             \A k \in DOMAIN frozen : frozen[k].stake <= CutStake(members[k]),
             NEW S \in SUBSET DOMAIN members
      PROVE  LET unused == [k \in DOMAIN members |-> UnusedStake(members, frozen, k)]
                 cut == [k \in DOMAIN members |-> CutStake(members[k])]
             IN  /\ \A k \in DOMAIN members : unused[k] \in Nat
                 /\ SumFunctionOnSet(unused, S) \in Nat
                 /\ SumFunctionOnSet(unused, S) + SumFunctionOnSet(Stakes(frozen), S \cap DOMAIN frozen)
                      = SumFunctionOnSet(cut, S)
                 /\ SumFunctionOnSet(cut, S) \in Nat
                 /\ SumFunctionOnSet(cut, S) <= SumFunctionOnSet(Stakes(members), S)
                 /\ (\A k \in DOMAIN members : members[k].stake <= MaxStake) =>
                       SumFunctionOnSet(cut, S) = SumFunctionOnSet(Stakes(members), S)
  <2> USE <1>UnusedAndFrozen
  <2> DEFINE D == DOMAIN members
             T == S \cap DOMAIN frozen
             s == Stakes(members)
             z == Stakes(frozen)
             u == [k \in D |-> UnusedStake(members, frozen, k)]
             c == [k \in D |-> CutStake(members[k])]
             p == [k \in D |-> IF k \in DOMAIN frozen THEN frozen[k].stake ELSE 0]
  <2>1. /\ IsFiniteSet(D) /\ IsFiniteSet(S)
        /\ \A k \in D : s[k] = members[k].stake /\ s[k] \in Nat /\ members[k] \in Member
        /\ \A k \in DOMAIN frozen : z[k] = frozen[k].stake /\ z[k] \in Nat
    BY StakeTypes, DictEntry DEF Laws, SubsetLaw
  <2>2. \A k \in D : c[k] = CutStake(members[k]) /\ c[k] \in Nat /\ c[k] <= s[k]
    BY <2>1, Effective, 0 \in Nat
  <2>3. \A k \in D : p[k] \in Nat /\ p[k] <= c[k] /\ u[k] = c[k] - p[k]
    BY <2>1, <2>2, SMTT(30) DEF UnusedStake
  <2>4. \A k \in D : u[k] \in Nat /\ c[k] = u[k] + p[k]
    BY <2>2, <2>3, SMTT(30)
  <2>5. Padded(z, T, p, S)
    BY <2>1, NatInt DEF Padded
  <2>6. (\A k \in D : members[k].stake <= MaxStake) => \A k \in D : c[k] = s[k]
    BY <2>1, <2>2 DEF CutStake, Lesser
  <2> HIDE DEF s, z, u, c, p, D, T
  <2>7. S \subseteq D
    BY DEF D
  <2>8. SumFunctionOnSet(c, S) = SumFunctionOnSet(u, S) + SumFunctionOnSet(p, S)
    BY <2>1, <2>3, <2>4, <2>7, SMTT(30) DEF Laws, SumPlusLaw
  <2>9. SumFunctionOnSet(p, S) = SumFunctionOnSet(z, T)
    BY <2>5, SMT DEF Laws, SumPaddedLaw
  <2>10. SumFunctionOnSet(u, S) \in Nat /\ SumFunctionOnSet(c, S) \in Nat /\ SumFunctionOnSet(p, S) \in Nat
    BY <2>1, <2>2, <2>3, <2>4, <2>7 DEF Laws, SumNatLaw
  <2>11. SumFunctionOnSet(c, S) <= SumFunctionOnSet(s, S)
    BY <2>1, <2>2, <2>7, NatInt DEF Laws, SumLeqLaw
  <2>12. (\A k \in D : members[k].stake <= MaxStake) => SumFunctionOnSet(c, S) = SumFunctionOnSet(s, S)
    BY <2>1, <2>6, <2>7, NatInt DEF Laws, SumSameLaw
  <2> QED BY <2>4, <2>8, <2>9, <2>10, <2>11, <2>12 DEF s, z, u, c, D, T
\* What ElectionsSucceed changes.
<1>SucceedFields.
      ASSUME NEW d, GoodData(d), Open(d), NEW t
      PROVE  LET u == ElectionsSucceed(d, t)
                 M == d.elect.members
                 frozen == FrozenStakes(M, Elected(M))
                 vset == ElectedVset(d, t)
             IN  /\ Shape(u) /\ GoodElection(u.elect)
                 /\ u.elect.finished /\ u.elect.elect_at = d.elect.elect_at
                 /\ u.credits = CreditUnused(d.credits, M, frozen)
                 /\ u.past = Put(d.past, d.elect.elect_at,
                                 [unfreeze_at |-> vset.until + StakeHeld, stake_held |-> StakeHeld,
                                  vset |-> vset, frozen |-> frozen, stakes |-> StakeSum(frozen),
                                  bonuses |-> 0])
                 /\ u.grams = d.grams /\ u.active_id = d.active_id /\ u.active_hash = d.active_hash
  <2> USE <1>SucceedFields
  <2> DEFINE e == [d.elect EXCEPT !.min_stake = MinStake, !.finished = TRUE]
             M == d.elect.members
             frozen == FrozenStakes(M, Elected(M))
             vset == ElectedVset(d, t)
             r == [unfreeze_at |-> vset.until + StakeHeld, stake_held |-> StakeHeld,
                   vset |-> vset, frozen |-> frozen, stakes |-> StakeSum(frozen), bonuses |-> 0]
             c == CreditUnused(d.credits, M, frozen)
             u == ElectionsSucceed(d, t)
  <2>1. u = [d EXCEPT !.elect = e, !.credits = c, !.past = Put(d.past, d.elect.elect_at, r)]
    BY DEF ElectionsSucceed
  <2>2. GoodElection(e) /\ e.finished /\ e.elect_at = d.elect.elect_at
    <3>1. GoodElection(d.elect)
      BY DEF GoodData, Open
    <3>2. MinStake \in Nat
      BY ElectorAssumption
    <3>3. d.elect \in Election({M}) /\ IsDict(M, Keys, Member) /\ d.elect.total_stake = StakeSum(M)
      BY <3>1 DEF GoodElection, IsElection
    <3>4. /\ e \in Election({M}) /\ e.members = M /\ e.total_stake = d.elect.total_stake
          /\ e.finished /\ e.elect_at = d.elect.elect_at
      BY <3>2, <3>3 DEF Election
    <3> QED BY <3>3, <3>4 DEF GoodElection, IsElection
  <2> HIDE DEF e, r, c, u
  <2>3. /\ u.elect = e /\ u.credits = c /\ u.past = Put(d.past, d.elect.elect_at, r) /\ u.grams = d.grams
        /\ u.active_id = d.active_id /\ u.active_hash = d.active_hash /\ Shape(u)
    BY <2>1 DEF GoodData, Shape
  <2> QED BY <2>2, <2>3 DEF u, c, r, frozen, vset, M
<1> SUFFICES ASSUME NEW d, GoodData(d), Open(d), NEW t \in Nat, Elected(d.elect.members) # 0,
                    0 < d.elect.elect_at,
                    \A id \in DOMAIN d.past : d.past[id].vset.until <= d.elect.elect_at,
                    d.active_hash # NoVset => d.active_hash.until <= d.elect.elect_at
             PROVE  LET u == ElectionsSucceed(d, t)
                        at == d.elect.elect_at
                    IN  /\ GoodData(u) /\ u.elect # NoElect /\ u.elect.finished /\ u.elect.elect_at = at
                        /\ u.active_id = d.active_id /\ u.active_hash = d.active_hash
                        /\ DOMAIN u.past = DOMAIN d.past \cup {at} /\ at \notin DOMAIN d.past
                        /\ \A id \in DOMAIN d.past : u.past[id] = d.past[id]
                        /\ u.past[at].vset = ElectedVset(d, t)
                        /\ Owed(u) <= Owed(d)
                        /\ (\A k \in DOMAIN d.elect.members : d.elect.members[k].stake <= MaxStake) =>
                               \A a \in Addrs : Kept(u, a) >= Kept(d, a)
  OBVIOUS
<1> DEFINE u == ElectionsSucceed(d, t)
           at == d.elect.elect_at
           M == d.elect.members
           D == DOMAIN d.past
           frozen == FrozenStakes(M, Elected(M))
           vset == ElectedVset(d, t)
           r == [unfreeze_at |-> vset.until + StakeHeld, stake_held |-> StakeHeld,
                 vset |-> vset, frozen |-> frozen, stakes |-> StakeSum(frozen), bonuses |-> 0]
           unused == [k \in DOMAIN M |-> UnusedStake(M, frozen, k)]
           cut == [k \in DOMAIN M |-> CutStake(M[k])]
           h == [a \in Addrs |-> SumFunctionOnSet(unused, OwnedBy(M, a))]
<1>1. IsDict(M, Keys, Member) /\ at \in Nat
  BY DEF Open, GoodData, GoodElection, IsElection, Election
<1>2. /\ GoodRecord(at, r) /\ IsDict(frozen, Keys, Frozen) /\ DOMAIN frozen \subseteq DOMAIN M
      /\ \A k \in DOMAIN frozen : frozen[k].addr = M[k].addr /\ frozen[k].stake <= CutStake(M[k])
  BY NewRecord
<1>3. /\ Shape(u) /\ GoodElection(u.elect) /\ u.elect.finished /\ u.elect.elect_at = at
      /\ u.past = Put(d.past, at, r)
      /\ u.grams = d.grams /\ u.active_id = d.active_id /\ u.active_hash = d.active_hash
  BY <1>SucceedFields
<1>4. u.credits = [a \in Addrs |-> d.credits[a] + h[a]]
  <2>1. u.credits = CreditUnused(d.credits, M, frozen)
    BY <1>SucceedFields
  <2> HIDE DEF u, M, frozen
  <2> QED BY <2>1 DEF CreditUnused
<1>5. r.vset = vset /\ r.frozen = frozen /\ r.stakes = StakeSum(frozen) /\ r.bonuses = 0
  OBVIOUS
<1>6. ASSUME NEW S \in SUBSET DOMAIN M
      PROVE  /\ \A k \in DOMAIN M : unused[k] \in Nat
             /\ SumFunctionOnSet(unused, S) \in Nat
             /\ SumFunctionOnSet(unused, S) + SumFunctionOnSet(Stakes(frozen), S \cap DOMAIN frozen)
                  = SumFunctionOnSet(cut, S)
             /\ SumFunctionOnSet(cut, S) \in Nat
             /\ SumFunctionOnSet(cut, S) <= SumFunctionOnSet(Stakes(M), S)
             /\ (\A k \in DOMAIN M : M[k].stake <= MaxStake) =>
                   SumFunctionOnSet(cut, S) = SumFunctionOnSet(Stakes(M), S)
  BY <1>1, <1>2, <1>UnusedAndFrozen
<1>7. \A a \in Addrs : h[a] = SumFunctionOnSet(unused, OwnedBy(M, a)) /\ h[a] \in Nat
  BY <1>6 DEF OwnedBy
<1>8. Open(d) /\ AtStake(d) = StakeSum(M)
  BY DEF AtStake
<1>9. u.elect # NoElect /\ ~ Open(u) /\ AtStake(u) = 0
  BY <1>3, ElectionNotNull DEF AtStake, Open, GoodElection
<1> HIDE DEF u, at, M, frozen, vset, r, unused, cut, h
<1>10. ASSUME NEW id \in D
       PROVE  id \in Nat /\ id < at /\ d.past[id].vset.until <= at /\ GoodRecord(id, d.past[id])
  <2>1. id \in Nat /\ GoodRecord(id, d.past[id])
    BY BookTypes
  <2>2. /\ id <= d.past[id].vset.since /\ d.past[id].vset.since < d.past[id].vset.until
        /\ d.past[id].vset.since \in Nat /\ d.past[id].vset.until \in Nat
    BY <2>1, RecordTypes
  <2>3. d.past[id].vset.until <= at
    BY DEF at
  <2> QED BY <1>1, <2>1, <2>2, <2>3, LeLt, LtLe
<1>11. /\ at \notin D /\ DOMAIN u.past = D \cup {at} /\ u.past[at] = r
       /\ \A id \in D : u.past[id] = d.past[id]
  <2>1. at \notin D
    BY <1>1, <1>10, NotLess
  <2> QED BY <1>3, <2>1 DEF Put
<1>12. GoodPast(u)
  <2>1. IsFiniteSet(D \cup {at})
    BY BookTypes DEF Laws, AddLaw
  <2>2. \A id \in D \cup {at} : id \in Nat /\ GoodRecord(id, u.past[id])
    BY <1>1, <1>2, <1>10, <1>11
  <2>3. ASSUME NEW i \in D \cup {at}, NEW j \in D \cup {at}, i < j
        PROVE  u.past[i].vset.until <= j
    <3>1. CASE j = at
      <4>1. i \in D
        BY <1>1, <2>3, <3>1, NotLess
      <4> QED BY <1>10, <1>11, <3>1, <4>1
    <3>2. CASE j \in D
      <4>1. j \in Nat /\ j < at
        BY <1>10, <3>2
      <4>2. i \in D
        BY <1>1, <2>3, <4>1, NotLess
      <4> QED BY <1>11, <2>3, <3>2, <4>2 DEF GoodData, GoodPast
    <3> QED BY <3>1, <3>2
  <2> QED BY <1>11, <2>1, <2>2, <2>3 DEF GoodPast
<1>13. GoodActive(u)
  <2>1. GoodActive(d)
    BY DEF GoodData
  <2>2. vset \in Vset /\ vset.until \in Nat /\ at < vset.until
    <3>1. r.vset \in Vset /\ at <= r.vset.since /\ r.vset.since < r.vset.until
          /\ r.vset.since \in Nat /\ r.vset.until \in Nat
      BY <1>1, <1>2, RecordTypes
    <3> QED BY <1>1, <1>5, <3>1, LeLt
  <2>3. d.active_hash # vset
    BY <1>1, <2>2, ElectorAssumption, NotLess DEF at
  <2>4. d.active_id # at
    <3>1. SUFFICES ASSUME d.active_id = at PROVE FALSE
      OBVIOUS
    <3>2. d.active_hash \in Vset /\ at < d.active_hash.until /\ d.active_hash.until <= at
      BY <2>1, <3>1, ElectorAssumption, SMT DEF GoodActive, at
    <3>3. d.active_hash.until \in Nat
      BY <3>2 DEF Vset
    <3> QED BY <1>1, <3>2, <3>3, NotLess
  <2> QED BY <1>3, <1>5, <1>11, <2>1, <2>3, <2>4 DEF GoodActive
<1>14. GoodData(u)
  <2>1. u.credits \in [Addrs -> Nat] /\ u.grams \in Nat
    <3>1. d.grams \in Nat /\ \A a \in Addrs : d.credits[a] \in Nat
      BY BookTypes
    <3>2. \A a \in Addrs : d.credits[a] + h[a] \in Nat
      BY <1>7, <3>1, NatAdd
    <3> QED BY <1>3, <1>4, <3>1, <3>2
  <2> QED BY <1>3, <1>12, <1>13, <2>1 DEF GoodData
<1>15. Owed(u) <= Owed(d)
  <2>1. SumFunction(u.credits) = SumFunction(d.credits) + SumFunctionOnSet(h, Addrs)
        /\ SumFunctionOnSet(h, Addrs) \in Nat
    <3>1. \A a \in Addrs : d.credits[a] \in Int /\ h[a] \in Int /\ u.credits[a] = d.credits[a] + h[a]
      BY <1>4, <1>7, BookTypes, NatInt
    <3>2. SumFunctionOnSet(u.credits, Addrs)
            = SumFunctionOnSet(d.credits, Addrs) + SumFunctionOnSet(h, Addrs)
      BY <3>1, ElectorAssumption, SMT DEF Laws, SumPlusLaw
    <3>3. SumFunctionOnSet(h, Addrs) \in Nat
      BY <1>7, ElectorAssumption DEF Laws, SumNatLaw
    <3> QED BY <1>14, <3>2, <3>3, BookTypes
  <2>2. SumFunctionOnSet(h, Addrs) = SumFunctionOnSet(unused, DOMAIN M)
    <3>1. IsFiniteSet(DOMAIN M) /\ \A k \in DOMAIN M : M[k].addr \in Addrs
      BY <1>1, StakeTypes
    <3>2. \A k \in DOMAIN M : unused[k] \in Int
      <4>1. \A k \in DOMAIN M : unused[k] \in Nat
        BY <1>6, {} \in SUBSET DOMAIN M
      <4> QED BY <4>1, NatInt
    <3> QED BY <1>7, <3>1, <3>2, SumByOwner
  <2>3. SumFunction(Worth(u)) = SumFunction(Worth(d)) + StakeSum(frozen) /\ StakeSum(frozen) \in Nat
    <3>1. StakeSum(frozen) \in Nat
      BY <1>2, StakeTypes
    <3>2. Worth(u)[at] = StakeSum(frozen)
      <4>1. Worth(u)[at] = r.stakes + r.bonuses
        BY <1>11, <1>14, BookTypes
      <4> QED BY <1>5, <3>1, <4>1, NatAdd
    <3>3. \A id \in D : Worth(d)[id] \in Int /\ Worth(u)[id] = Worth(d)[id]
      BY <1>11, <1>14, BookTypes, NatInt
    <3>4. OneMore(Worth(d), D, Worth(u), at)
      BY <1>11, <3>1, <3>2, <3>3, BookTypes, NatInt DEF OneMore
    <3>5. SumFunctionOnSet(Worth(u), D \cup {at}) = SumFunctionOnSet(Worth(d), D) + Worth(u)[at]
      BY <3>4, SMT DEF Laws, SumExtendedLaw
    <3> QED BY <1>11, <1>14, <3>1, <3>2, <3>5, BookTypes
  <2>4. SumFunctionOnSet(unused, DOMAIN M) + StakeSum(frozen) <= StakeSum(M) /\ StakeSum(M) \in Nat
    <3>1. /\ StakeSum(frozen) = SumFunctionOnSet(Stakes(frozen), DOMAIN frozen)
          /\ StakeSum(M) = SumFunctionOnSet(Stakes(M), DOMAIN M) /\ StakeSum(M) \in Nat
      BY <1>1, <1>2, StakeTypes
    <3>2. DOMAIN M \cap DOMAIN frozen = DOMAIN frozen
      BY <1>2
    <3> QED BY <1>6, <3>1, <3>2
  <2>5. /\ Owed(u) = SumFunction(u.credits) + d.grams + SumFunction(Worth(u))
        /\ SumFunction(u.credits) \in Nat /\ d.grams \in Nat
    <3>1. /\ Owed(u) = 0 + SumFunction(u.credits) + d.grams + SumFunction(Worth(u))
          /\ SumFunction(u.credits) \in Nat /\ d.grams \in Nat
      BY <1>3, <1>9, <1>14, BookTypes
    <3> QED BY <3>1, NatAdd
  <2>6. /\ Owed(d) = StakeSum(M) + SumFunction(d.credits) + d.grams + SumFunction(Worth(d))
        /\ SumFunction(d.credits) \in Nat /\ SumFunction(Worth(d)) \in Nat
    BY <1>8, BookTypes
  <2> QED BY <2>1, <2>2, <2>3, <2>4, <2>5, <2>6, SMT
<1>16. ASSUME \A k \in DOMAIN M : M[k].stake <= MaxStake, NEW a \in Addrs
       PROVE  Kept(u, a) >= Kept(d, a)
  <2>1. u.credits[a] = d.credits[a] + h[a] /\ h[a] \in Nat
    BY <1>4, <1>7
  <2>2. StakeOfAddr(frozen, a) \in Nat
    BY <1>2, StakeTypes
  <2>3. SumFunction(FrozenOf(u, a)) = SumFunction(FrozenOf(d, a)) + StakeOfAddr(frozen, a)
    <3> DEFINE g == FrozenOf(u, a)
               f == FrozenOf(d, a)
    <3>11. \A id \in DOMAIN u.past : g[id] = StakeOfAddr(u.past[id].frozen, a)
      BY <1>14, KeptTypes
    <3>12. \A id \in D : f[id] = StakeOfAddr(d.past[id].frozen, a) /\ f[id] \in Nat
      BY KeptTypes
    <3>1. g[at] = StakeOfAddr(frozen, a)
      BY <1>5, <1>11, <3>11
    <3>2. \A id \in D : f[id] \in Int /\ g[id] = f[id]
      BY <1>11, <3>11, <3>12, NatInt
    <3>3. OneMore(FrozenOf(d, a), D, FrozenOf(u, a), at)
      BY <1>11, <2>2, <3>1, <3>2, KeptTypes, NatInt DEF OneMore
    <3>4. SumFunctionOnSet(FrozenOf(u, a), D \cup {at})
            = SumFunctionOnSet(FrozenOf(d, a), D) + FrozenOf(u, a)[at]
      BY <3>3, SMT DEF Laws, SumExtendedLaw
    <3> QED BY <1>11, <1>14, <3>1, <3>4, KeptTypes
  <2>4. h[a] + StakeOfAddr(frozen, a) = StakeOfAddr(M, a)
    <3>1. OwnedBy(M, a) \in SUBSET DOMAIN M /\ OwnedBy(M, a) \cap DOMAIN frozen = OwnedBy(frozen, a)
      BY <1>2 DEF OwnedBy
    <3> QED BY <1>6, <1>7, <1>16, <3>1 DEF StakeOfAddr
  <2>5. StakeOfAddr(M, a) \in Nat
    BY <1>1, StakeTypes
  <2>6. Kept(d, a) = d.credits[a] + SumFunction(FrozenOf(d, a)) + StakeOfAddr(M, a)
        /\ d.credits[a] \in Nat /\ SumFunction(FrozenOf(d, a)) \in Nat
    BY <1>8, KeptTypes DEF M
  <2>7. Kept(u, a) = u.credits[a] + SumFunction(FrozenOf(u, a)) + 0
    BY <1>9, <1>14, KeptTypes
  <2> QED BY <2>1, <2>2, <2>3, <2>4, <2>5, <2>6, <2>7, SMT
<1> QED BY <1>3, <1>5, <1>9, <1>11, <1>14, <1>15, <1>16 DEF u, at, M, vset

\* The elections change and their members stay.
LEMMA ElectStays ==
    ASSUME Laws, NEW d, GoodData(d), NEW u, OnlyElect(d, u), u.elect = NoElect \/ GoodElection(u.elect),
           Open(u) <=> Open(d), Open(d) => u.elect.members = d.elect.members
    PROVE  GoodData(u) /\ Owed(u) = Owed(d) /\ \A a \in Addrs : Kept(u, a) = Kept(d, a)
<1>1. /\ GoodData(u) /\ Owed(u) - AtStake(u) = Owed(d) - AtStake(d)
      /\ \A a \in Addrs : Kept(u, a) - (IF Open(u) THEN StakeOfAddr(u.elect.members, a) ELSE 0)
                            = Kept(d, a) - IF Open(d) THEN StakeOfAddr(d.elect.members, a) ELSE 0
  BY ElectChange
<1>2. AtStake(u) = AtStake(d)
  BY DEF AtStake
<1>3. Owed(u) = Owed(d)
  <2>1. Owed(u) \in Nat /\ Owed(d) \in Nat /\ AtStake(d) \in Nat
    BY <1>1, BookTypes
  <2>2. Owed(u) - AtStake(d) = Owed(d) - AtStake(d)
    BY <1>1, <1>2
  <2> QED BY <2>1, <2>2, SameRest
<1>4. ASSUME NEW a \in Addrs PROVE Kept(u, a) = Kept(d, a)
  <2> DEFINE m == IF Open(d) THEN StakeOfAddr(d.elect.members, a) ELSE 0
  <2>1. Kept(u, a) \in Nat /\ Kept(d, a) \in Nat /\ m \in Nat
    BY <1>1, AmountTypes, KeptTypes
  <2>2. Kept(u, a) - m = Kept(d, a) - m
    BY <1>1
  <2> HIDE DEF m
  <2> QED BY <2>1, <2>2, SameRest
<1> QED BY <1>1, <1>3, <1>4

\* The part of run_ticktock after the elections: at most one record goes, whose time has
\* come and whose set is not current; the current set is the active one.
Ticked(d, u, t, c) ==
    /\ GoodData(u) /\ u.elect = d.elect /\ u.active_hash = c.cur
    /\ Owed(u) = Owed(d) /\ \A a \in Addrs : Kept(u, a) >= Kept(d, a)
    /\ DOMAIN u.past \subseteq DOMAIN d.past
    /\ \A id \in DOMAIN u.past :
           /\ u.past[id].vset = d.past[id].vset /\ u.past[id].frozen = d.past[id].frozen
           /\ u.past[id].bonuses >= d.past[id].bonuses
    /\ \A id \in DOMAIN d.past \ DOMAIN u.past :
           d.past[id].unfreeze_at <= t /\ d.past[id].vset # c.cur

\* When the active set is not the current one, it has ended.
Ended(d, t, c) ==
    c.cur # d.active_hash /\ d.active_id \in DOMAIN d.past => d.past[d.active_id].vset.until <= t

\* What update_active_vset_id does to the data.
Updated(d, u, c) ==
    /\ GoodData(u) /\ u.elect = d.elect /\ u.credits = d.credits
    /\ DOMAIN u.past = DOMAIN d.past /\ u.active_hash = c.cur
    /\ \A id \in DOMAIN d.past :
           /\ u.past[id].vset = d.past[id].vset /\ u.past[id].frozen = d.past[id].frozen
           /\ u.past[id].bonuses >= d.past[id].bonuses
    /\ SameBooks(d, u)

\* The bonuses of a record are a number.
LEMMA SameBonuses ==
    ASSUME Laws, NEW d, GoodData(d), NEW id \in DOMAIN d.past
    PROVE  d.past[id].bonuses \in Nat /\ d.past[id].bonuses >= d.past[id].bonuses
<1>1. d.past[id].bonuses \in Nat
  BY BookTypes, RecordSums
<1> QED BY <1>1, SMT

\* The step of a tick that notices a new validator set (update_active_vset_id).
LEMMA UpdateTicks ==
    ASSUME Laws
    PROVE  \A d, c, old : \A t \in Nat :
               /\ GoodData(d)
               /\ c.cur \in Vset
               /\ Ended(d, t, c)
               => /\ Ticked(d, UpdateActive(old, d, t, c), t, c)
                  /\ DOMAIN UpdateActive(old, d, t, c).past = DOMAIN d.past
       \* Release holds the stakes of the active set for StakeHeld from now on.
<1>ReleaseKeeps.
      ASSUME NEW d, GoodData(d), NEW t \in Nat,
             d.active_id \in DOMAIN d.past => d.past[d.active_id].vset.until <= t
      PROVE  LET u == Release(d, t)
             IN  /\ GoodData(u) /\ u.elect = d.elect /\ u.credits = d.credits
                 /\ DOMAIN u.past = DOMAIN d.past /\ u.grams = d.grams
                 /\ \A id \in DOMAIN d.past :
                        /\ u.past[id].vset = d.past[id].vset /\ u.past[id].frozen = d.past[id].frozen
                        /\ u.past[id].bonuses = d.past[id].bonuses
                 /\ SameBooks(d, u)
  <2> USE <1>ReleaseKeeps
  <2> DEFINE u == Release(d, t)
             id == d.active_id
             r == d.past[id]
             q == [r EXCEPT !.unfreeze_at = t + r.stake_held]
  <2>1. CASE id \notin DOMAIN d.past
    <3>1. u = d
      BY <2>1 DEF Release
    <3> QED BY <3>1 DEF SameBooks
  <2>2. CASE id \in DOMAIN d.past
    <3>1. id \in Nat /\ GoodRecord(id, r) /\ r.vset.until <= t
      BY <2>2, BookTypes
    <3>2. r \in Record({r.frozen}) /\ r.stake_held = StakeHeld /\ StakeHeld \in Nat /\ r.vset.until \in Nat
      BY <3>1, ElectorAssumption DEF GoodRecord, IsRecord, Record, Vset
    <3>3. /\ q \in Record({r.frozen}) /\ q.unfreeze_at = t + StakeHeld /\ q.vset = r.vset /\ q.frozen = r.frozen
          /\ q.stakes = r.stakes /\ q.bonuses = r.bonuses /\ q.stake_held = r.stake_held
      <4> DEFINE z == t + r.stake_held
      <4>1. z \in Nat /\ z = t + StakeHeld
        BY <3>2, NatAdd
      <4> HIDE DEF z, r
      <4> QED BY <3>2, <4>1 DEF Record, z
    <3> HIDE DEF q
    <3>4. GoodRecord(id, q)
      <4>1. q.unfreeze_at >= q.vset.until + StakeHeld
        BY <3>1, <3>2, <3>3, SMT
      <4> QED BY <3>1, <3>2, <3>3, <4>1 DEF GoodRecord, IsRecord
    <3>5. u = [d EXCEPT !.past = [d.past EXCEPT ![id] = q]]
      BY <2>2 DEF Release, q
    <3> HIDE DEF u
    <3>6. /\ Shape(u) /\ u.elect = d.elect /\ u.past = [d.past EXCEPT ![id] = q]
          /\ u.credits = d.credits /\ u.grams = d.grams
          /\ u.active_id = d.active_id /\ u.active_hash = d.active_hash
      BY <3>5 DEF GoodData, Shape
    <3> HIDE DEF id, r
    <3>7. GoodData(u) /\ SameBooks(d, u)
      <4>1. u.grams \in Nat
        BY <3>6, BookTypes
      <4>2. Replaced(d, u, id, q) /\ u.active_id = d.active_id /\ u.active_hash = d.active_hash
        BY <3>3, <3>6, <4>1 DEF r, Replaced
      <4>3. Shared(d, u, id, q)
        BY <3>3, <3>6 DEF r, Shared
      <4>4. GoodData(u) /\ SameBooks(d, u)
        BY <2>2, <3>4, <4>2, <4>3, RecordChange
      <4> QED BY <4>4
    <3>8. DOMAIN u.past = DOMAIN d.past
          /\ \A i \in DOMAIN d.past :
                 /\ u.past[i].vset = d.past[i].vset /\ u.past[i].frozen = d.past[i].frozen
                 /\ u.past[i].bonuses = d.past[i].bonuses
      BY <2>2, <3>3, <3>6 DEF r
    <3> QED BY <3>6, <3>7, <3>8 DEF u
  <2> QED BY <2>1, <2>2
\* Different records are of different validator sets.
<1>DistinctSets.
      ASSUME NEW d, GoodPast(d), NEW i \in DOMAIN d.past, NEW j \in DOMAIN d.past,
             d.past[i].vset = d.past[j].vset
      PROVE  i = j
  <2>1. ASSUME NEW m \in DOMAIN d.past, NEW n \in DOMAIN d.past, m < n,
               d.past[m].vset = d.past[n].vset
        PROVE  FALSE
    <3>1. /\ m \in Nat /\ n \in Nat /\ d.past[m].vset.until <= n
          /\ GoodRecord(m, d.past[m]) /\ GoodRecord(n, d.past[n])
      BY <2>1, <1>DistinctSets DEF GoodPast
    <3>2. /\ d.past[n].vset.since \in Nat /\ d.past[n].vset.until \in Nat /\ n <= d.past[n].vset.since
          /\ d.past[n].vset.since < d.past[n].vset.until
      BY <3>1, RecordTypes
    <3>3. d.past[n].vset.until <= n
      BY <2>1, <3>1
    <3>4. d.past[n].vset.until <= d.past[n].vset.since
      BY <3>1, <3>2, <3>3, LeLe
    <3> QED BY <3>2, <3>4, NotLess
  <2>2. i \in Nat /\ j \in Nat
    BY <1>DistinctSets DEF GoodPast
  <2>3. ~ (i < j) /\ ~ (j < i)
    BY <2>1, <1>DistinctSets
  <2> QED BY <2>2, <2>3, SMT
\* Activate gives the new set its share of "grams".
<1>ActivateKeeps.
      ASSUME NEW d, GoodData(d), NEW c, c.cur \in Vset
      PROVE  LET u == Activate(d, c)
             IN  /\ GoodData(u) /\ u.elect = d.elect /\ u.credits = d.credits
                 /\ DOMAIN u.past = DOMAIN d.past /\ u.active_hash = c.cur
                 /\ \A id \in DOMAIN d.past :
                        /\ u.past[id].vset = d.past[id].vset /\ u.past[id].frozen = d.past[id].frozen
                        /\ u.past[id].bonuses >= d.past[id].bonuses
                 /\ SameBooks(d, u)
  <2> USE <1>ActivateKeeps
  <2> DEFINE u == Activate(d, c)
             ids == {id \in DOMAIN d.past : d.past[id].vset = c.cur}
             id == Min(ids)
             r == d.past[id]
             x == d.grams \div BonusShare
             q == [r EXCEPT !.bonuses = r.bonuses + x]
  <2>1. CASE ids = {}
    <3>1. u = [d EXCEPT !.active_id = 0, !.active_hash = c.cur]
      BY <2>1 DEF Activate
    <3> HIDE DEF u
    <3>2. /\ Shape(u) /\ u.elect = d.elect /\ u.past = d.past /\ u.credits = d.credits
          /\ u.grams = d.grams /\ u.active_id = 0 /\ u.active_hash = c.cur
      BY <3>1 DEF GoodData, Shape
    <3>3. 0 \notin DOMAIN d.past
      BY BookTypes, NotLess DEF GoodRecord
    <3>4. GoodActive(u) /\ GoodPast(u)
      BY <2>1, <3>2, <3>3, ZeroNat DEF GoodActive, GoodData, GoodPast
    <3>5. GoodData(u)
      BY <3>2, <3>4 DEF GoodData
    <3>6. Worth(u) = Worth(d) /\ AtStake(u) = AtStake(d) /\ \A a \in Addrs : FrozenOf(u, a) = FrozenOf(d, a)
      BY <3>2 DEF Worth, AtStake, Open, FrozenOf
    <3>7. Owed(u) = Owed(d) /\ \A a \in Addrs : Kept(u, a) = Kept(d, a)
      BY <3>2, <3>6 DEF Owed, Kept, StakedBy, Open
    <3>8. \A i \in DOMAIN d.past : u.past[i].bonuses >= d.past[i].bonuses
      BY <3>2, SameBonuses
    <3> QED BY <3>2, <3>5, <3>7, <3>8 DEF u, SameBooks
  <2>2. CASE ids # {}
    <3>1. id \in ids
      <4>1. ids \subseteq Nat
        BY BookTypes
      <4> HIDE DEF ids
      <4> QED BY <2>2, <4>1, MinMember
    <3>2. /\ u = [d EXCEPT !.active_id = id, !.active_hash = c.cur,
                           !.past = [d.past EXCEPT ![id] = q], !.grams = d.grams - x]
      BY <2>2 DEF Activate
    <3>3. id \in DOMAIN d.past /\ id \in Nat /\ GoodRecord(id, r) /\ r.vset = c.cur
      BY <3>1, BookTypes
    <3>4. r \in Record({r.frozen}) /\ r.bonuses \in Nat /\ d.grams \in Nat /\ BonusShare \in Nat /\ BonusShare > 0
      <4>1. BonusShare \in Nat /\ BonusShare > 0
        BY BonusShareType
      <4> QED BY <3>3, <4>1, BookTypes, RecordTypes
    <3>5. x \in Nat /\ x <= d.grams
      <4>1. x \in Nat /\ BonusShare * x <= d.grams
        BY <3>4, SMT DEF Laws, DivLaw
      <4> HIDE DEF x
      <4> QED BY <3>4, <4>1, TimesMore, LeLe
    <3> HIDE DEF x
    <3>6. /\ q \in Record({r.frozen}) /\ q.unfreeze_at = r.unfreeze_at /\ q.vset = r.vset /\ q.frozen = r.frozen
          /\ q.stakes = r.stakes /\ q.bonuses = r.bonuses + x /\ q.stake_held = r.stake_held
      <4> DEFINE y == r.bonuses + x
      <4>1. y \in Nat
        BY <3>4, <3>5, NatAdd
      <4> HIDE DEF y, r
      <4> QED BY <3>4, <4>1 DEF Record, y
    <3> HIDE DEF q, u
    <3>7. GoodRecord(id, q)
      BY <3>3, <3>6 DEF GoodRecord, IsRecord
    <3>8. /\ Shape(u) /\ u.elect = d.elect /\ u.past = [d.past EXCEPT ![id] = q]
          /\ u.credits = d.credits /\ u.grams = d.grams - x
          /\ u.active_id = id /\ u.active_hash = c.cur
      BY <3>2 DEF GoodData, Shape
    <3> HIDE DEF id, r, ids
    <3>9. u.grams \in Nat /\ u.grams + q.bonuses = d.grams + d.past[id].bonuses
      BY <3>4, <3>5, <3>6, <3>8, SMT DEF r
    <3>10. /\ GoodPast(u) /\ (GoodActive(u) => GoodData(u))
           /\ GoodData(u) => SameBooks(d, u)
      <4>1. Replaced(d, u, id, q) /\ Shared(d, u, id, q)
        BY <3>6, <3>8, <3>9 DEF r, Replaced, Shared
      <4> QED BY <3>3, <3>7, <4>1, RecordChange
    <3>11. DOMAIN u.past = DOMAIN d.past
           /\ \A i \in DOMAIN d.past :
                 /\ u.past[i].vset = d.past[i].vset /\ u.past[i].frozen = d.past[i].frozen
                 /\ u.past[i].bonuses >= d.past[i].bonuses
      <4>1. DOMAIN u.past = DOMAIN d.past /\ \A i \in DOMAIN d.past : u.past[i] = IF i = id THEN q ELSE d.past[i]
        BY <3>8
      <4>2. \A i \in DOMAIN d.past : d.past[i].bonuses >= d.past[i].bonuses
        BY SameBonuses
      <4>3. q.bonuses >= r.bonuses
        BY <3>4, <3>5, <3>6, SMT
      <4> QED BY <3>6, <4>1, <4>2, <4>3 DEF r
    <3>12. GoodActive(u)
      <4>1. u.past[id].vset = c.cur /\ id \in DOMAIN u.past
        BY <3>3, <3>11 DEF r
      <4>2. \A i \in DOMAIN u.past : u.past[i].vset = c.cur => i = id
        BY <3>10, <4>1, <1>DistinctSets
      <4>3. c.cur # NoVset /\ id < c.cur.until
        <5>1. id \in Nat /\ {r.vset.since, r.vset.until} \subseteq Nat /\ id <= r.vset.since /\ r.vset.since < r.vset.until
          BY <3>3, RecordTypes
        <5> QED BY <3>3, <5>1, ElectorAssumption, LeLt
      <4> QED BY <3>3, <3>8, <4>1, <4>2, <4>3 DEF GoodActive
    <3> QED BY <3>8, <3>10, <3>11, <3>12 DEF u
  <2> QED BY <2>1, <2>2
\* update_active_vset_id never throws; the record of the current set becomes the active one.
<1>UpdateKeeps.
      ASSUME NEW d, GoodData(d), NEW t \in Nat, NEW c, c.cur \in Vset, NEW old,
             c.cur # d.active_hash /\ d.active_id \in DOMAIN d.past => d.past[d.active_id].vset.until <= t
      PROVE  Updated(d, UpdateActive(old, d, t, c), c)
  <2> USE <1>UpdateKeeps
  <2>1. CASE c.cur = d.active_hash
    <3>1. UpdateActive(old, d, t, c) = d
      BY <2>1 DEF UpdateActive
    <3>2. \A id \in DOMAIN d.past : d.past[id].bonuses >= d.past[id].bonuses
      BY SameBonuses
    <3> QED BY <2>1, <3>1, <3>2 DEF SameBooks, Updated
  <2>2. CASE c.cur # d.active_hash
    <3> DEFINE v == Release(d, t)
               u == Activate(v, c)
    <3>1. ~ ReleaseThrows(d)
      BY DEF ReleaseThrows, GoodData, GoodActive
    <3>2. UpdateActive(old, d, t, c) = u
      BY <2>2, <3>1 DEF UpdateActive
    <3>3. /\ GoodData(v) /\ v.elect = d.elect /\ v.credits = d.credits
          /\ DOMAIN v.past = DOMAIN d.past
          /\ \A id \in DOMAIN d.past :
                 /\ v.past[id].vset = d.past[id].vset /\ v.past[id].frozen = d.past[id].frozen
                 /\ v.past[id].bonuses = d.past[id].bonuses
          /\ SameBooks(d, v)
      BY <2>2, <1>ReleaseKeeps
    <3> HIDE DEF v
    <3>4. /\ GoodData(u) /\ u.elect = v.elect /\ u.credits = v.credits
          /\ DOMAIN u.past = DOMAIN v.past /\ u.active_hash = c.cur
          /\ \A id \in DOMAIN v.past :
                 /\ u.past[id].vset = v.past[id].vset /\ u.past[id].frozen = v.past[id].frozen
                 /\ u.past[id].bonuses >= v.past[id].bonuses
          /\ SameBooks(v, u)
      BY <3>3, <1>ActivateKeeps
    <3> HIDE DEF u
    <3>5. SameBooks(d, u)
      BY <3>3, <3>4 DEF SameBooks
    <3> QED BY <3>2, <3>3, <3>4, <3>5 DEF Updated
  <2> QED BY <2>1, <2>2
<1> TAKE d, c, old
<1> TAKE t \in Nat
<1> HAVE GoodData(d) /\ c.cur \in Vset /\ Ended(d, t, c)
<1> DEFINE u == UpdateActive(old, d, t, c)
<1>11. c.cur # d.active_hash /\ d.active_id \in DOMAIN d.past => d.past[d.active_id].vset.until <= t
  BY DEF Ended
<1>1. Updated(d, u, c)
  BY <1>11, <1>UpdateKeeps
<1> HIDE DEF u
<1>2. \A a \in Addrs : Kept(u, a) >= Kept(d, a)
  BY <1>1, AmountTypes DEF SameBooks, Updated
<1>3. Ticked(d, u, t, c)
  BY <1>1, <1>2 DEF Ticked, SameBooks, Updated
<1> QED BY <1>1, <1>3 DEF u, Updated

\* Elections that are not open are forgotten.
LEMMA ForgetKeeps ==
    ASSUME Laws, NEW d, GoodData(d), ~ Open(d)
    PROVE  LET u == ForgetElections(d)
           IN  /\ GoodData(u) /\ OnlyElect(d, u) /\ u.elect = NoElect
               /\ Owed(u) = Owed(d) /\ \A a \in Addrs : Kept(u, a) = Kept(d, a)
<1> DEFINE u == ForgetElections(d)
<1>1. OnlyElect(d, u) /\ u.elect = NoElect
  BY SetElect DEF ForgetElections
<1>2. ~ Open(u)
  BY <1>1 DEF Open
<1>3. GoodData(u) /\ Owed(u) = Owed(d) /\ \A a \in Addrs : Kept(u, a) = Kept(d, a)
  BY <1>1, <1>2, ElectStays
<1> QED BY <1>1, <1>3

\* The records and the elections of d, but for the bonuses.
SameRecords(d, u) ==
    /\ u.elect = d.elect /\ u.active_id = d.active_id /\ u.active_hash = d.active_hash
    /\ DOMAIN u.past = DOMAIN d.past
    /\ \A id \in DOMAIN d.past :
           /\ u.past[id].vset = d.past[id].vset /\ u.past[id].frozen = d.past[id].frozen
           /\ u.past[id].bonuses >= d.past[id].bonuses

-----------------------------------------------------------------------------
\* run_ticktock of the configuration contract at time n.
Turned(c, e, n) ==
    e = IF c.next # NoVset /\ c.next.since <= n THEN [cur |-> c.next, next |-> NoVset] ELSE c

\* A validator set has a beginning and an end.
LEMMA VsetTimes ==
    ASSUME NEW v \in Vset
    PROVE  v.since \in Nat /\ v.until \in Nat /\ v # NoVset
BY ElectorAssumption DEF Vset

\* The delay of the messages: what they are about is not unfrozen before they arrive.
InTime(tc, te, t) ==
    /\ \A i \in DOMAIN tc : t < tc[i].id + MaxDelay
    /\ \A i \in DOMAIN te : t < te[i].id + MaxDelay

\* What a tick of the elector does.
NotCut(d) == Open(d) => \A k \in DOMAIN d.elect.members : d.elect.members[k].stake <= MaxStake

RecordsStay(d, u) ==
    \A id \in DOMAIN d.past \cap DOMAIN u.past :
        /\ u.past[id].vset = d.past[id].vset /\ u.past[id].frozen = d.past[id].frozen
        /\ u.past[id].bonuses >= d.past[id].bonuses

Done(d, u, c, tc, te, t) ==
    /\ GoodData(u) /\ Phase(u, c, tc, te) /\ Placed(u, c) /\ Behind(u, c, t)
    /\ Owed(u) <= Owed(d) /\ (NotCut(d) => \A a \in Addrs : Kept(u, a) >= Kept(d, a))
    /\ RecordsStay(d, u)
    /\ \A id \in DOMAIN d.past \ DOMAIN u.past :
           d.past[id].unfreeze_at <= t /\ d.past[id].vset # c.cur

\* When a tick may begin.
Ready(d, c, tc, te, t) ==
    /\ GoodData(d) /\ GoodConfig(c) /\ t \in Nat
    /\ Phase(d, c, tc, te) /\ Placed(d, c) /\ Ended(d, t, c) /\ Behind(d, c, t)
    /\ InTime(tc, te, t)

\* The same records have the same bonuses.
LEMMA SameStay ==
    ASSUME Laws, NEW d, GoodData(d), NEW u, u.past = d.past
    PROVE  RecordsStay(d, u) /\ DOMAIN d.past \ DOMAIN u.past = {}
BY SameBonuses DEF RecordsStay

\* The set of elections that the configuration contract does not have begins later.
LEMMA NotCurrent ==
    ASSUME Laws, NEW d, GoodData(d), NEW c, GoodConfig(c), NEW id \in DOMAIN d.past, id >= c.cur.until
    PROVE  d.past[id].vset # c.cur /\ d.past[id].vset # NoVset
<1>1. id \in Nat /\ GoodRecord(id, d.past[id])
  BY BookTypes
<1>2. d.past[id].vset \in Vset /\ id <= d.past[id].vset.since /\ d.past[id].vset.since \in Nat
  BY <1>1, RecordTypes
<1>3. c.cur \in Vset /\ c.cur.since \in Nat /\ c.cur.until \in Nat /\ c.cur.since < c.cur.until
  BY VsetTimes DEF GoodConfig
<1>4. ~ (id <= c.cur.since)
  <2>1. c.cur.until <= id
    BY <1>1, <1>3, NotLess
  <2>2. c.cur.since < id
    BY <1>1, <1>3, <2>1, LtLe
  <2> QED BY <1>1, <1>3, <2>2, NotLess
<1> QED BY <1>2, <1>4, VsetTimes

\* A tick of the elector.
LEMMA TickKeeps ==
    ASSUME Laws
    PROVE  \A d, c, tc, te, t : \A sendable \in BOOLEAN :
               Ready(d, c, tc, te, t)
               => Done(d, RunTicktock(d, t, c, sendable), c,
                       IF Conducts(d, t) /\ sendable
                         THEN Append(tc, [id |-> d.elect.elect_at, vset |-> ElectedVset(d, t)])
                         ELSE tc,
                       te, t)
<1>UnfreezeTicks.
      ASSUME NEW d, GoodData(d), NEW t \in Nat, NEW c, c.cur = d.active_hash, NEW old
      PROVE  Ticked(d, CheckUnfreeze(old, d, t), t, c)
  <2> USE <1>UnfreezeTicks
  <2> DEFINE u == CheckUnfreeze(old, d, t)
             id == Min(Matured(d, t))
  <2>1. CASE Matured(d, t) = {}
    <3>1. u = d
      BY <2>1 DEF CheckUnfreeze
    <3>2. \A i \in DOMAIN d.past : d.past[i].bonuses >= d.past[i].bonuses
      BY SameBonuses
    <3>3. \A a \in Addrs : Kept(d, a) >= Kept(d, a)
      BY AmountTypes
    <3>4. Ticked(d, d, t, c)
      BY <3>2, <3>3 DEF Ticked
    <3> QED BY <3>1, <3>4
  <2>2. CASE Matured(d, t) # {}
    <3>1. id \in Matured(d, t)
      <4>1. Matured(d, t) \subseteq Nat
        BY BookTypes DEF Matured
      <4> QED BY <2>2, <4>1, MinMember
    <3> HIDE DEF id
    <3>2. id \in DOMAIN d.past /\ d.past[id].unfreeze_at <= t /\ id # d.active_id
      BY <3>1 DEF Matured
    <3>3. RecordAddsUp(d.past[id])
      <4>1. id \in Nat /\ GoodRecord(id, d.past[id])
        BY <3>2, BookTypes
      <4>2. UnusedPrizes(d.past[id]) >= 0
        BY <4>1, RecordSums, NonNegative
      <4> QED BY <4>1, <4>2 DEF RecordAddsUp, GoodRecord
    <3>4. u = UnfreezeAll(d, id)
      BY <2>2, <3>3 DEF CheckUnfreeze, UnfreezeThrows, id
    <3> HIDE DEF u
    <3>5. /\ GoodData(u) /\ u.elect = d.elect /\ u.active_id = d.active_id
          /\ u.active_hash = d.active_hash /\ u.past = Drop(d.past, id)
          /\ Owed(u) = Owed(d) /\ \A a \in Addrs : Kept(u, a) >= Kept(d, a)
      BY <3>2, <3>4, UnfreezeKeeps
    <3>6. DOMAIN u.past = DOMAIN d.past \ {id} /\ \A i \in DOMAIN u.past : u.past[i] = d.past[i]
      BY <3>5 DEF Drop
    <3>7. d.past[id].vset # c.cur
      BY <3>2 DEF GoodData, GoodActive
    <3>8. \A i \in DOMAIN u.past : u.past[i].bonuses >= d.past[i].bonuses
      BY <3>6, SameBonuses
    <3>9. Ticked(d, u, t, c)
      BY <3>2, <3>5, <3>6, <3>7, <3>8 DEF Ticked
    <3> QED BY <3>9 DEF u
  <2> QED BY <2>1, <2>2
<1>LaterTicks.
      ASSUME NEW d, GoodData(d), NEW t \in Nat, NEW c, c.cur \in Vset, Ended(d, t, c), NEW old
      PROVE  Ticked(d, Later(old, d, t, c), t, c)
  <2> USE <1>LaterTicks
  <2>1. CASE c.cur # d.active_hash
    BY <2>1, UpdateTicks DEF Later
  <2>2. CASE c.cur = d.active_hash
    BY <2>2, <1>UnfreezeTicks DEF Later
  <2> QED BY <2>1, <2>2
\* Elections fail: only their flag and least stake change.
<1>FailKeeps.
      ASSUME NEW d, GoodData(d), d.elect # NoElect
      PROVE  LET u == ElectionsFail(d)
             IN  /\ GoodData(u) /\ OnlyElect(d, u) /\ u.elect # NoElect
                 /\ u.elect.elect_at = d.elect.elect_at /\ u.elect.finished = d.elect.finished
                 /\ Owed(u) = Owed(d) /\ \A a \in Addrs : Kept(u, a) = Kept(d, a)
  <2> USE <1>FailKeeps
  <2> DEFINE u == ElectionsFail(d)
             M == d.elect.members
             e == [d.elect EXCEPT !.min_stake = MinStake, !.failed = TRUE]
  <2>1. d.elect \in Election({M}) /\ IsDict(M, Keys, Member) /\ d.elect.total_stake = StakeSum(M)
    BY DEF GoodData, GoodElection, IsElection
  <2>2. /\ e \in Election({M}) /\ e.members = M /\ e.total_stake = d.elect.total_stake
        /\ e.elect_at = d.elect.elect_at /\ e.finished = d.elect.finished
    BY <2>1, ElectorAssumption DEF Election
  <2>3. u = [d EXCEPT !.elect = e]
    BY DEF ElectionsFail
  <2> HIDE DEF e, u
  <2>4. GoodElection(e)
    BY <2>1, <2>2 DEF GoodElection, IsElection
  <2>5. e # NoElect
    BY <2>4, ElectionNotNull DEF GoodElection
  <2>6. OnlyElect(d, u) /\ u.elect = e
    BY <2>3, SetElect
  <2>7. (Open(u) <=> Open(d)) /\ u.elect.members = d.elect.members
    BY <2>2, <2>5, <2>6 DEF Open
  <2>8. GoodData(u) /\ Owed(u) = Owed(d) /\ \A a \in Addrs : Kept(u, a) = Kept(d, a)
    BY <2>4, <2>6, <2>7, ElectStays
  <2> QED BY <2>2, <2>5, <2>6, <2>8 DEF u
\* New elections are announced, not before the current validator set ends.
<1>AnnounceKeeps.
      ASSUME NEW d, GoodData(d), d.elect = NoElect, NEW t \in Nat, NEW c, c.cur \in Vset, MayAnnounce(t, c)
      PROVE  LET u == Announce(d, t, c)
             IN  /\ GoodData(u) /\ OnlyElect(d, u) /\ u.elect # NoElect
                 /\ u.elect.elect_at >= c.cur.until /\ ~ u.elect.finished
                 /\ Owed(u) = Owed(d) /\ \A a \in Addrs : Kept(u, a) = Kept(d, a)
  <2> USE <1>AnnounceKeeps
  <2> DEFINE u == Announce(d, t, c)
             t0 == c.cur.until - BeginBefore
             at == BeginBefore + IF t - t0 < Grace THEN t0 ELSE t
             e == [elect_at |-> at, elect_close |-> at - EndBefore, min_stake |-> MinStake,
                   total_stake |-> 0, members |-> << >>, failed |-> FALSE, finished |-> FALSE]
  <2>1. u = [d EXCEPT !.elect = e]
    BY DEF Announce
  <2>2. at \in Nat /\ at >= c.cur.until /\ at - EndBefore \in Int
    <3>1. c.cur.until \in Nat /\ BeginBefore \in Nat /\ Grace \in Nat /\ EndBefore \in Nat
      BY ElectorAssumption DEF Vset
    <3> QED BY <3>1, SMT DEF MayAnnounce
  <2> HIDE DEF at
  <2>3. /\ e \in Election({<< >>}) /\ e.members = << >> /\ e.total_stake = 0 /\ e.elect_at = at
        /\ ~ e.finished
    BY <2>2, ElectorAssumption DEF Election
  <2>4. IsDict(<< >>, Keys, Member) /\ DOMAIN << >> = {}
    BY SMT DEF IsDict
  <2>5. StakeSum(<< >>) = 0 /\ \A a : StakeOfAddr(<< >>, a) = 0
    <3>1. StakeSum(<< >>) = SumFunctionOnSet(Stakes(<< >>), {})
      BY <2>4, StakeTypes
    <3>2. \A a : OwnedBy(<< >>, a) = {}
      BY <2>4 DEF OwnedBy
    <3> QED BY <3>1, <3>2 DEF StakeOfAddr, Laws, SumEmptyLaw
  <2> HIDE DEF e, u
  <2>6. GoodElection(e)
    BY <2>3, <2>4, <2>5 DEF GoodElection, IsElection
  <2>7. e # NoElect
    BY <2>6, ElectionNotNull DEF GoodElection
  <2>8. OnlyElect(d, u) /\ u.elect = e
    BY <2>1, SetElect
  <2>9. /\ GoodData(u) /\ Owed(u) - AtStake(u) = Owed(d) - AtStake(d)
        /\ \A a \in Addrs : Kept(u, a) - (IF Open(u) THEN StakeOfAddr(u.elect.members, a) ELSE 0)
                              = Kept(d, a) - IF Open(d) THEN StakeOfAddr(d.elect.members, a) ELSE 0
    BY <2>6, <2>8, ElectChange
  <2>10. AtStake(u) = 0 /\ AtStake(d) = 0 /\ ~ Open(d) /\ u.elect.members = << >>
    BY <2>3, <2>5, <2>8 DEF AtStake, Open
  <2>11. Owed(u) = Owed(d)
    <3>1. Owed(u) \in Nat /\ Owed(d) \in Nat /\ Owed(u) - 0 = Owed(d) - 0
      BY <2>9, <2>10, AmountTypes
    <3> QED BY <3>1, ZeroNat, SameRest
  <2>12. ASSUME NEW a \in Addrs PROVE Kept(u, a) = Kept(d, a)
    <3>1. (IF Open(u) THEN StakeOfAddr(u.elect.members, a) ELSE 0) = 0
      BY <2>5, <2>10
    <3>2. Kept(u, a) \in Nat /\ Kept(d, a) \in Nat /\ Kept(u, a) - 0 = Kept(d, a) - 0
      BY <2>9, <2>10, <3>1, AmountTypes
    <3> QED BY <3>2, ZeroNat, SameRest
  <2> QED BY <2>2, <2>3, <2>7, <2>8, <2>9, <2>11, <2>12 DEF u
<1>YoungStay.
      ASSUME NEW d, GoodData(d), NEW u, NEW t \in Nat, NEW c, Ticked(d, u, t, c),
             NEW id \in DOMAIN d.past, t < id + MaxDelay
      PROVE  id \in DOMAIN u.past
  <2> USE <1>YoungStay
  <2>1. SUFFICES ASSUME id \notin DOMAIN u.past PROVE FALSE
    OBVIOUS
  <2>2. d.past[id].unfreeze_at <= t
    BY <2>1 DEF Ticked
  <2> DEFINE r == d.past[id]
  <2>3. id \in Nat /\ GoodRecord(id, r)
    BY BookTypes
  <2>4. /\ r.unfreeze_at \in Nat /\ r.vset.until \in Nat /\ ElectFor \in Nat /\ StakeHeld \in Nat
        /\ id + ElectFor <= r.vset.until /\ r.vset.until + StakeHeld <= r.unfreeze_at
    BY <2>3, RecordTypes
  <2>5. MaxDelay \in Nat /\ MaxDelay <= ElectFor
    BY ElectionsAssumption
  <2>6. id + MaxDelay <= id + ElectFor /\ r.vset.until <= r.vset.until + StakeHeld
    BY <2>3, <2>4, <2>5, MoreLater
  <2>7. id + MaxDelay \in Nat /\ id + ElectFor \in Nat /\ r.vset.until + StakeHeld \in Nat
    <3> HIDE DEF r
    <3>1. id + MaxDelay \in Nat
      BY <2>3, <2>5, NatAdd
    <3>2. id + ElectFor \in Nat
      BY <2>3, <2>4, NatAdd
    <3>3. r.vset.until + StakeHeld \in Nat
      BY <2>4, NatAdd
    <3> QED BY <3>1, <3>2, <3>3
  <2>8. t < r.unfreeze_at
    BY <2>3, <2>4, <2>6, <2>7, LtLe
  <2> QED BY <2>2, <2>4, <2>8, NotLess
<1>TickedPhase.
      ASSUME NEW d, GoodData(d), NEW c, NEW tc, NEW te, Phase(d, c, tc, te), Placed(d, c),
             ~ Agreed(d, c, tc, te), NEW t \in Nat, InTime(tc, te, t), NEW u, Ticked(d, u, t, c)
      PROVE  Phase(u, c, tc, te) /\ Placed(u, c) /\ Behind(u, c, t)
  <2> USE <1>TickedPhase
  <2>1. /\ u.elect = d.elect /\ DOMAIN u.past \subseteq DOMAIN d.past
        /\ \A id \in DOMAIN u.past : u.past[id].vset = d.past[id].vset
    BY DEF Ticked
  <2>2. GoodAnswers(u, te)
    <3>1. GoodAnswers(d, te)
      BY DEF Phase
    <3>2. \A i \in DOMAIN te : te[i].id \in DOMAIN u.past
      BY <3>1, <1>YoungStay DEF GoodAnswers, InTime
    <3> QED BY <3>1, <3>2 DEF GoodAnswers
  <2>3. ASSUME Idle(d, c, tc, te) PROVE Phase(u, c, tc, te)
    BY <2>1, <2>2, <2>3 DEF Idle, Phase
  <2>4. ASSUME Proposed(d, c, tc, te) PROVE Phase(u, c, tc, te)
    <3> DEFINE at == d.elect.elect_at
    <3>1. at \in DOMAIN d.past /\ tc = << [id |-> at, vset |-> d.past[at].vset] >>
      BY <2>4 DEF Proposed, Held
    <3>2. 1 \in DOMAIN tc /\ tc[1].id = at
      BY <3>1, SMT
    <3>3. t < at + MaxDelay
      BY <3>2 DEF InTime
    <3>11. at \in DOMAIN u.past
      <4>1. at \in DOMAIN d.past
        BY <3>1
      <4> QED BY <3>3, <4>1, <1>YoungStay
    <3>4. Held(u)
      BY <2>1, <2>4, <3>11 DEF Held, Proposed
    <3>5. Proposed(u, c, tc, te)
      BY <2>1, <2>4, <3>11, <3>4 DEF Proposed
    <3> QED BY <2>2, <3>5 DEF Phase
  <2>5. ASSUME Refused(d, c, tc, te) PROVE Phase(u, c, tc, te)
    <3> DEFINE at == d.elect.elect_at
    <3>1. PICK i \in DOMAIN te : te[i] = [id |-> at, ok |-> FALSE]
      BY <2>5 DEF Refused
    <3>2. te[i].id = at /\ at \in DOMAIN d.past
      BY <2>5, <3>1, SMT DEF Refused, Held
    <3>3. at \in DOMAIN u.past
      BY <3>2, <1>YoungStay DEF InTime
    <3>4. Held(u)
      BY <2>1, <2>5, <3>3 DEF Held, Refused
    <3>5. Refused(u, c, tc, te)
      BY <2>1, <2>5, <3>4 DEF Refused
    <3> QED BY <2>2, <3>5 DEF Phase
  <2>6. Phase(u, c, tc, te)
    BY <2>3, <2>4, <2>5 DEF Phase
  <2>7. Placed(u, c)
    BY <2>1 DEF Placed, Held
  <2>8. Behind(u, c, t)
    BY DEF Ticked, Behind
  <2> QED BY <2>6, <2>7, <2>8
\* Elections e instead of those of d, then the rest of the tick.
<1>TickedDone.
      ASSUME NEW d, NEW c, NEW tc, NEW te, NEW t, Ready(d, c, tc, te, t),
             NEW e, GoodData(e), e.past = d.past, Owed(e) = Owed(d), \A a \in Addrs : Kept(e, a) = Kept(d, a),
             NEW u, Ticked(e, u, t, c), Phase(u, c, tc, te), Placed(u, c), Behind(u, c, t)
      PROVE  Done(d, u, c, tc, te, t)
  <2> USE <1>TickedDone
  <2>1. GoodData(u) /\ Owed(u) = Owed(d)
    BY DEF Ticked
  <2>2. Owed(u) <= Owed(d)
    BY <2>1, AmountTypes
  <2>3. \A a \in Addrs : Kept(u, a) >= Kept(d, a)
    BY DEF Ticked
  <2>4. RecordsStay(d, u)
    BY DEF Ticked, RecordsStay
  <2>5. \A id \in DOMAIN d.past \ DOMAIN u.past :
            d.past[id].unfreeze_at <= t /\ d.past[id].vset # c.cur
    BY DEF Ticked
  <2> QED BY <2>1, <2>2, <2>3, <2>4, <2>5 DEF Done
\* The four ways a tick goes: new elections, held elections, forgotten ones, the rest.
<1>TickAnnounces.
      ASSUME NEW d, NEW c, NEW tc, NEW te, NEW t, Ready(d, c, tc, te, t),
             d.elect = NoElect, MayAnnounce(t, c)
      PROVE  Done(d, Announce(d, t, c), c, tc, te, t)
  <2> USE <1>TickAnnounces
  <2> DEFINE u == Announce(d, t, c)
  <2>1. GoodData(d) /\ t \in Nat /\ c.cur \in Vset /\ Behind(d, c, t) /\ Placed(d, c) /\ Phase(d, c, tc, te)
    BY DEF Ready, GoodConfig
  <2>2. /\ GoodData(u) /\ OnlyElect(d, u) /\ u.elect # NoElect
        /\ u.elect.elect_at >= c.cur.until /\ ~ u.elect.finished
        /\ Owed(u) = Owed(d) /\ \A a \in Addrs : Kept(u, a) = Kept(d, a)
    BY <2>1, <1>AnnounceKeeps
  <2> HIDE DEF u
  <2>3. u.past = d.past /\ u.active_id = d.active_id /\ u.active_hash = d.active_hash
    BY <2>2 DEF OnlyElect
  <2>4. Idle(d, c, tc, te) /\ GoodAnswers(d, te)
    BY <2>1 DEF Phase, Proposed, Refused, Agreed, Held
  <2>5. Idle(u, c, tc, te) /\ GoodAnswers(u, te)
    BY <2>2, <2>3, <2>4 DEF Idle, GoodAnswers, MayAnnounce
  <2>6. Placed(u, c) /\ Behind(u, c, t)
    BY <2>1, <2>3 DEF Placed, Behind, Held
  <2>7. RecordsStay(d, u) /\ DOMAIN d.past \ DOMAIN u.past = {}
    BY <2>1, <2>3, SameStay
  <2>8. Owed(u) <= Owed(d) /\ \A a \in Addrs : Kept(u, a) >= Kept(d, a)
    BY <2>1, <2>2, AmountTypes
  <2>9. Phase(u, c, tc, te)
    BY <2>5 DEF Phase
  <2>10. Done(d, u, c, tc, te, t)
    BY <2>2, <2>6, <2>7, <2>8, <2>9 DEF Done
  <2> QED BY <2>10 DEF u
<1>TickRests.
      ASSUME NEW d, NEW c, NEW tc, NEW te, NEW t, Ready(d, c, tc, te, t), ~ Agreed(d, c, tc, te), NEW old
      PROVE  Done(d, Later(old, d, t, c), c, tc, te, t)
  <2> USE <1>TickRests
  <2> DEFINE u == Later(old, d, t, c)
  <2>1. /\ GoodData(d) /\ t \in Nat /\ c.cur \in Vset /\ Ended(d, t, c) /\ Placed(d, c)
        /\ Phase(d, c, tc, te) /\ InTime(tc, te, t)
    BY DEF Ready, GoodConfig
  <2>2. Ticked(d, u, t, c)
    BY <2>1, <1>LaterTicks
  <2> HIDE DEF u
  <2>3. Phase(u, c, tc, te) /\ Placed(u, c) /\ Behind(u, c, t)
    BY <2>1, <2>2, <1>TickedPhase
  <2>4. Done(d, u, c, tc, te, t)
    BY <2>1, <2>2, <2>3, <1>TickedDone
  <2> QED BY <2>4 DEF u
<1>TickFails.
      ASSUME NEW d, NEW c, NEW tc, NEW te, NEW t, Ready(d, c, tc, te, t),
             d.elect # NoElect, ~ d.elect.finished, NEW old
      PROVE  Done(d, Later(old, ElectionsFail(d), t, c), c, tc, te, t)
  <2> USE <1>TickFails
  <2> DEFINE e == ElectionsFail(d)
             u == Later(old, e, t, c)
  <2>1. /\ GoodData(d) /\ t \in Nat /\ c.cur \in Vset /\ Ended(d, t, c) /\ Placed(d, c)
        /\ Phase(d, c, tc, te) /\ InTime(tc, te, t)
    BY DEF Ready, GoodConfig
  <2>2. /\ GoodData(e) /\ OnlyElect(d, e) /\ e.elect # NoElect
        /\ e.elect.elect_at = d.elect.elect_at /\ e.elect.finished = d.elect.finished
        /\ Owed(e) = Owed(d) /\ \A a \in Addrs : Kept(e, a) = Kept(d, a)
    BY <2>1, <1>FailKeeps
  <2> HIDE DEF e
  <2>3. e.past = d.past /\ e.active_id = d.active_id /\ e.active_hash = d.active_hash
    BY <2>2 DEF OnlyElect
  <2>4. Idle(d, c, tc, te) /\ GoodAnswers(d, te)
    BY <2>1 DEF Phase, Proposed, Refused, Agreed, Held
  <2>5. Idle(e, c, tc, te) /\ GoodAnswers(e, te) /\ ~ Agreed(e, c, tc, te)
    BY <2>2, <2>3, <2>4 DEF Idle, GoodAnswers, Agreed, Held
  <2>6. Placed(e, c) /\ Ended(e, t, c)
    BY <2>1, <2>2, <2>3 DEF Placed, Ended, Held
  <2>7. Phase(e, c, tc, te)
    BY <2>5 DEF Phase
  <2>8. Ticked(e, u, t, c)
    BY <2>1, <2>2, <2>6, <1>LaterTicks
  <2> HIDE DEF u
  <2>9. Phase(u, c, tc, te) /\ Placed(u, c) /\ Behind(u, c, t)
    BY <2>1, <2>2, <2>5, <2>6, <2>7, <2>8, <1>TickedPhase
  <2>10. Done(d, u, c, tc, te, t)
    BY <2>2, <2>3, <2>8, <2>9, <1>TickedDone
  <2> QED BY <2>10 DEF u, e
<1>TickForgets.
      ASSUME NEW d, NEW c, NEW tc, NEW te, NEW t, Ready(d, c, tc, te, t),
             d.elect # NoElect, Installed(d, c), NEW old
      PROVE  Done(d, UpdateActive(old, ForgetElections(d), t, c), c, tc, te, t)
  <2> USE <1>TickForgets
  <2> DEFINE e == ForgetElections(d)
             u == UpdateActive(old, e, t, c)
             at == d.elect.elect_at
  <2>1. /\ GoodData(d) /\ t \in Nat /\ c.cur \in Vset /\ Ended(d, t, c) /\ Placed(d, c)
        /\ Phase(d, c, tc, te) /\ InTime(tc, te, t) /\ GoodConfig(c)
    BY DEF Ready, GoodConfig
  <2>2. d.elect.finished /\ at \in DOMAIN d.past /\ d.past[at].vset \in {c.cur, c.next} /\ ~ Open(d)
    BY DEF Installed, Open
  <2>3. /\ GoodData(e) /\ OnlyElect(d, e) /\ e.elect = NoElect
        /\ Owed(e) = Owed(d) /\ \A a \in Addrs : Kept(e, a) = Kept(d, a)
    BY <2>1, <2>2, ForgetKeeps
  <2> HIDE DEF e
  <2>4. e.past = d.past /\ e.active_id = d.active_id /\ e.active_hash = d.active_hash
    BY <2>3 DEF OnlyElect
  <2>5. tc = << >> /\ NoRefusal(te) /\ GoodAnswers(d, te)
    <3>1. c.next = NoVset => ~ (at >= c.cur.until)
      BY <2>1, <2>2, NotCurrent
    <3>2. ~ Proposed(d, c, tc, te) /\ ~ Refused(d, c, tc, te) /\ (Idle(d, c, tc, te) => tc = << >> /\ NoRefusal(te))
      BY <3>1 DEF Proposed, Refused, Idle
    <3> QED BY <2>1, <3>2 DEF Phase, Agreed
  <2>6. Idle(e, c, tc, te) /\ GoodAnswers(e, te) /\ ~ Agreed(e, c, tc, te)
    BY <2>3, <2>4, <2>5 DEF Idle, GoodAnswers, Agreed, Held
  <2>7. Placed(e, c)
    <3>1. ASSUME NEW id \in DOMAIN d.past
          PROVE  d.past[id].vset.until <= c.cur.until \/ d.past[id].vset = c.next
      <4>1. c.cur.until \in Nat
        BY <2>1, VsetTimes
      <4>2. id = at \/ d.past[id].vset.until <= c.cur.until \/ d.past[id].vset = c.next
        BY <2>1 DEF Placed
      <4>3. c.cur.until <= c.cur.until
        BY <4>1, NotLess
      <4>4. CASE id = at /\ d.past[at].vset = c.cur
        <5>1. d.past[id].vset.until = c.cur.until
          BY <4>4
        <5> QED BY <4>3, <5>1
      <4>5. CASE id = at /\ d.past[at].vset = c.next
        BY <4>5
      <4> QED BY <2>2, <4>2, <4>4, <4>5
    <3> QED BY <2>4, <3>1 DEF Placed
  <2>8. Phase(e, c, tc, te) /\ Ended(e, t, c)
    BY <2>1, <2>4, <2>6 DEF Phase, Ended
  <2>9. Ticked(e, u, t, c)
    BY <2>1, <2>3, <2>8, UpdateTicks
  <2> HIDE DEF u
  <2>10. Phase(u, c, tc, te) /\ Placed(u, c) /\ Behind(u, c, t)
    BY <2>1, <2>3, <2>6, <2>7, <2>8, <2>9, <1>TickedPhase
  <2>11. Done(d, u, c, tc, te, t)
    BY <2>3, <2>4, <2>9, <2>10, <1>TickedDone
  <2> QED BY <2>11 DEF u, e
\* While elections are open every record and the active set end before their time.
<1>OpenTimes.
      ASSUME NEW d, NEW c, NEW tc, NEW te, NEW t, Ready(d, c, tc, te, t), Open(d)
      PROVE  /\ Idle(d, c, tc, te) /\ GoodAnswers(d, te) /\ c.next = NoVset
             /\ d.elect.elect_at >= c.cur.until /\ 0 < d.elect.elect_at
             /\ \A id \in DOMAIN d.past :
                    /\ d.past[id].vset.until <= c.cur.until /\ d.past[id].vset.until <= d.elect.elect_at
                    /\ id < d.elect.elect_at
             /\ d.active_hash # NoVset => d.active_hash.until <= d.elect.elect_at
  <2> USE <1>OpenTimes
  <2> DEFINE at == d.elect.elect_at
  <2>1. GoodData(d) /\ GoodConfig(c) /\ Placed(d, c) /\ Behind(d, c, t) /\ Phase(d, c, tc, te)
    BY DEF Ready
  <2>2. Idle(d, c, tc, te) /\ GoodAnswers(d, te) /\ c.next = NoVset /\ at >= c.cur.until
    BY <2>1 DEF Phase, Idle, Proposed, Refused, Agreed, Held, Open
  <2>3. at \in Nat
    BY <2>1 DEF Open, GoodData, GoodElection, IsElection, Election
  <2>4. c.cur.since \in Nat /\ c.cur.until \in Nat /\ c.cur.since < c.cur.until
    BY <2>1, VsetTimes DEF GoodConfig
  <2>5. c.cur.until <= at /\ 0 < at
    BY <2>2, <2>3, <2>4, SMT
  <2>6. ASSUME NEW id \in DOMAIN d.past
        PROVE  d.past[id].vset.until <= c.cur.until /\ d.past[id].vset.until <= at /\ id < at
    <3>1. id \in Nat /\ GoodRecord(id, d.past[id])
      BY <2>1, BookTypes
    <3>2. /\ d.past[id].vset \in Vset /\ d.past[id].vset.since \in Nat /\ d.past[id].vset.until \in Nat
          /\ id <= d.past[id].vset.since /\ d.past[id].vset.since < d.past[id].vset.until
      BY <3>1, RecordTypes
    <3>3. d.past[id].vset # c.next
      BY <2>2, <3>2, VsetTimes
    <3>4. d.past[id].vset.until <= c.cur.until
      BY <2>1, <3>3 DEF Placed, Held, Open
    <3>5. d.past[id].vset.until <= at
      BY <2>3, <2>4, <2>5, <3>2, <3>4, LeLe
    <3>6. id < d.past[id].vset.until
      BY <3>1, <3>2, LeLt
    <3> QED BY <2>3, <3>1, <3>2, <3>4, <3>5, <3>6, LtLe
  <2>7. ASSUME d.active_hash # NoVset PROVE d.active_hash.until <= at
    <3>1. d.active_hash \in Vset /\ d.active_hash.until \in Nat
      BY <2>1, <2>7, VsetTimes DEF GoodData, GoodActive
    <3>2. d.active_hash.until <= c.cur.until
      <4>1. d.active_hash = c.cur \/ d.active_hash.until <= c.cur.until
        BY <2>1, <2>7 DEF Behind
      <4>2. c.cur.until <= c.cur.until
        BY <2>4, NotLess
      <4> QED BY <4>1, <4>2
    <3> QED BY <2>3, <2>4, <2>5, <3>1, <3>2, LeLe
  <2> QED BY <2>2, <2>5, <2>6, <2>7
\* Elections are held: their record is new, and their set is on its way.
<1>TickElects.
      ASSUME NEW d, NEW c, NEW tc, NEW te, NEW t, Ready(d, c, tc, te, t),
             Open(d), Elected(d.elect.members) # 0
      PROVE  Done(d, ElectionsSucceed(d, t), c,
                  Append(tc, [id |-> d.elect.elect_at, vset |-> ElectedVset(d, t)]), te, t)
  <2> USE <1>TickElects
  <2> DEFINE u == ElectionsSucceed(d, t)
             at == d.elect.elect_at
             v == ElectedVset(d, t)
             sent == Append(tc, [id |-> at, vset |-> v])
  <2>1. GoodData(d) /\ GoodConfig(c) /\ Placed(d, c) /\ Behind(d, c, t) /\ Phase(d, c, tc, te) /\ t \in Nat
    BY DEF Ready
  <2>2. /\ Idle(d, c, tc, te) /\ GoodAnswers(d, te) /\ c.next = NoVset
        /\ at >= c.cur.until /\ 0 < at
        /\ \A id \in DOMAIN d.past :
               /\ d.past[id].vset.until <= c.cur.until /\ d.past[id].vset.until <= at
               /\ id < at
        /\ d.active_hash # NoVset => d.active_hash.until <= at
    BY <1>OpenTimes
  <2>3. /\ GoodData(u) /\ u.elect # NoElect /\ u.elect.finished /\ u.elect.elect_at = at
        /\ u.active_id = d.active_id /\ u.active_hash = d.active_hash
        /\ DOMAIN u.past = DOMAIN d.past \cup {at} /\ at \notin DOMAIN d.past
        /\ \A id \in DOMAIN d.past : u.past[id] = d.past[id]
        /\ u.past[at].vset = v
        /\ Owed(u) <= Owed(d)
        /\ (\A k \in DOMAIN d.elect.members : d.elect.members[k].stake <= MaxStake) =>
               \A a \in Addrs : Kept(u, a) >= Kept(d, a)
    BY <2>1, <2>2, SucceedKeeps
  <2>4. sent = << [id |-> at, vset |-> u.past[at].vset] >>
    <3>1. tc = << >>
      BY <2>2 DEF Idle
    <3>2. u.past[at].vset = v
      BY <2>3
    <3> HIDE DEF u, v, at
    <3> QED BY <3>1, <3>2, SMT
  <2> HIDE DEF u, v, at, sent
  <2>5. Held(u)
    BY <2>3 DEF Held
  <2>6. Proposed(u, c, sent, te)
    <3>1. NoRefusal(te) /\ \A i \in DOMAIN te : te[i].id < at
      BY <2>2 DEF Idle, GoodAnswers
    <3> QED BY <2>2, <2>3, <2>4, <2>5, <3>1 DEF Proposed
  <2>7. GoodAnswers(u, te)
    BY <2>2, <2>3 DEF GoodAnswers
  <2>8. Phase(u, c, sent, te)
    BY <2>6, <2>7 DEF Phase
  <2>9. Placed(u, c)
    BY <2>2, <2>3, <2>5 DEF Placed
  <2>10. Behind(u, c, t)
    BY <2>1, <2>3 DEF Behind
  <2>11. RecordsStay(d, u) /\ DOMAIN d.past \ DOMAIN u.past = {}
    <3>1. \A id \in DOMAIN d.past : d.past[id].bonuses >= d.past[id].bonuses
      BY <2>1, SameBonuses
    <3> QED BY <2>3, <3>1 DEF RecordsStay
  <2>12. NotCut(d) => \A a \in Addrs : Kept(u, a) >= Kept(d, a)
    BY <2>3 DEF NotCut
  <2>13. Done(d, u, c, sent, te, t)
    BY <2>3, <2>8, <2>9, <2>10, <2>11, <2>12 DEF Done
  <2> QED BY <2>13 DEF u, v, at, sent
<1> TAKE d, c, tc, te, t
<1> TAKE sendable \in BOOLEAN
<1> HAVE Ready(d, c, tc, te, t)
<1> DEFINE u == RunTicktock(d, t, c, sendable)
           sent == IF Conducts(d, t) /\ sendable
                     THEN Append(tc, [id |-> d.elect.elect_at, vset |-> ElectedVset(d, t)])
                     ELSE tc
<1>1. CASE d.elect = NoElect /\ MayAnnounce(t, c)
  <2>1. u = Announce(d, t, c) /\ sent = tc
    BY <1>1 DEF RunTicktock, Conducts
  <2> QED BY <1>1, <2>1, <1>TickAnnounces
<1>2. CASE d.elect = NoElect /\ ~ MayAnnounce(t, c)
  <2>1. u = Later(d, d, t, c) /\ sent = tc
    BY <1>2 DEF RunTicktock, Conducts
  <2>2. ~ Agreed(d, c, tc, te)
    BY <1>2 DEF Agreed, Held
  <2> QED BY <2>1, <2>2, <1>TickRests
<1>3. CASE Conducts(d, t) /\ sendable
  <2>1. u = ElectionsSucceed(d, t)
        /\ sent = Append(tc, [id |-> d.elect.elect_at, vset |-> ElectedVset(d, t)])
    BY <1>3 DEF RunTicktock, Conducts
  <2>2. Open(d) /\ Elected(d.elect.members) # 0
    BY <1>3 DEF Conducts, ElectionsDue, Open
  <2> QED BY <2>1, <2>2, <1>TickElects
<1>4. CASE Conducts(d, t) /\ ~ sendable
  <2>1. u = d /\ sent = tc
    BY <1>4 DEF RunTicktock, Conducts
  <2>2. GoodData(d) /\ Phase(d, c, tc, te) /\ Placed(d, c) /\ Behind(d, c, t)
    BY DEF Ready
  <2>3. RecordsStay(d, d) /\ DOMAIN d.past \ DOMAIN d.past = {}
    BY <2>2, SameStay
  <2>4. Owed(d) <= Owed(d) /\ \A a \in Addrs : Kept(d, a) >= Kept(d, a)
    BY <2>2, AmountTypes
  <2>5. Done(d, d, c, tc, te, t)
    BY <2>2, <2>3, <2>4 DEF Done
  <2> QED BY <2>1, <2>5
<1>5. CASE d.elect # NoElect /\ ~ Conducts(d, t) /\ ElectionsDue(d, t)
  <2>1. u = Later(d, ElectionsFail(d), t, c) /\ sent = tc
    BY <1>5 DEF RunTicktock
  <2>2. ~ d.elect.finished
    BY <1>5 DEF ElectionsDue
  <2> QED BY <1>5, <2>1, <2>2, <1>TickFails
<1>6. CASE d.elect # NoElect /\ ~ ElectionsDue(d, t) /\ Installed(d, c)
  <2>1. u = UpdateActive(d, ForgetElections(d), t, c) /\ sent = tc
    BY <1>6 DEF RunTicktock, Conducts
  <2> QED BY <1>6, <2>1, <1>TickForgets
<1>7. CASE d.elect # NoElect /\ ~ ElectionsDue(d, t) /\ ~ Installed(d, c)
  <2>1. u = Later(d, d, t, c) /\ sent = tc
    BY <1>7 DEF RunTicktock, Conducts
  <2>2. ~ Agreed(d, c, tc, te)
    BY <1>7 DEF Agreed, Held, Installed
  <2> QED BY <2>1, <2>2, <1>TickRests
<1> QED BY <1>1, <1>2, <1>3, <1>4, <1>5, <1>6, <1>7 DEF Conducts
=============================================================================
