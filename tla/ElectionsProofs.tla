-------------------------- MODULE ElectionsProofs --------------------------
(***************************************************************************)
(* The safety properties of Elections, for every value of the constants.   *)
(* Every message and every block preserves the invariant IInv of module    *)
(* ElectorProofs; the properties follow from it.  The lemmas take the laws *)
(* of sums as a hypothesis, which LawsHold discharges before the theorems. *)
(***************************************************************************)
EXTENDS ElectorProofs

\* The proofs are by first-order reasoning where they do not say otherwise.
USE ZenonT(60)

-----------------------------------------------------------------------------
\* What every step does: it preserves the invariant, and no record changes or goes
\* that should not; no address has less than it claims when no stake is cut.
Stepped ==
    /\ IInv'
    /\ RecordsStay(data, data')
    /\ \A id \in DOMAIN data.past \ DOMAIN data'.past :
          /\ data.past[id].vset \notin {config'.cur, config'.next}
          /\ \/ now' >= data.past[id].unfreeze_at
             \/ to_elector # << >> /\ Head(to_elector) = [id |-> id, ok |-> FALSE]
    /\ NotCut(data) => \A a \in Addrs : Kept(data', a) - claim'[a] >= Kept(data, a) - claim[a]

\* The steps of stakers and of the fees: the phase of the elections stays.
Plain ==
    /\ UNCHANGED <<seqno, now, config, seen, to_config, to_elector>>
    /\ GoodData(data') /\ data'.active_hash = data.active_hash
    /\ data'.elect = data.elect \/ /\ data.elect # NoElect /\ data'.elect # NoElect
                                   /\ data'.elect.elect_at = data.elect.elect_at
                                   /\ data'.elect.finished = data.elect.finished
    /\ DOMAIN data'.past = DOMAIN data.past /\ RecordsStay(data, data')
    /\ balance' \in Nat /\ claim' \in [Addrs -> Int]
    /\ Owed(data') - balance' <= Owed(data) - balance
    /\ \A a \in Addrs : Kept(data', a) - claim'[a] >= Kept(data, a) - claim[a]

\* Amounts and times.
LEMMA SubMore == \A a, b \in Nat, c \in Int : a >= b => a - c >= b - c
  BY SMT

\* Grams that arrive are no longer on their way.
LEMMA Moved == \A b, i, v \in Nat : b + v \in Nat /\ (b + v) + (i - v) = b + i
  BY SMT

\* A record is not unfrozen before the set that begins after this block.
LEMMA NotYet ==
    \A n, t, s, f, g, e, h \in Nat : t <= n + g /\ f <= t /\ f >= s + e + h /\ g < e + h => ~ (s > n)
  BY SMT

\* More messages carry more.
LEMMA TimesLeq == \A v, x, y \in Nat : x <= y => v * x <= v * y /\ v * x \in Nat /\ v * y \in Nat
  BY SMTT(30)

\* The types of the amounts on their way.
LEMMA Transit ==
    ASSUME NEW te, te \in Seq([id : Nat, ok : BOOLEAN]), NEW tc, tc = << >> \/ \E m : tc = << m >>
    PROVE  /\ Len(te) \in Nat /\ Len(tc) \in Nat /\ VsetValue \in Nat
           /\ VsetValue * (Len(tc) + Len(te)) \in Nat
<1>1. VsetValue \in Nat /\ Len(te) \in Nat /\ Len(tc) \in Nat
  BY ElectionsAssumption, SMT
<1> DEFINE n == Len(tc) + Len(te)
<1>2. n \in Nat
  BY <1>1, SMT
<1> HIDE DEF n
<1>3. VsetValue * n \in Nat
  BY <1>1, <1>2, SMT
<1> QED BY <1>1, <1>3 DEF n

\* At most one validator set is on its way.
LEMMA OneOnItsWay ==
    ASSUME NEW d, NEW c, NEW tc, NEW te, Phase(d, c, tc, te)
    PROVE  te \in Seq([id : Nat, ok : BOOLEAN]) /\ (tc = << >> \/ \E m : tc = << m >>)
BY DEF Phase, GoodAnswers, Idle, Proposed, Refused, Agreed

\* Only the elections just held have a set on its way; those are not answered yet.
LEMMA OnlyProposed ==
    ASSUME NEW d, NEW c, NEW tc, NEW te, Phase(d, c, tc, te), tc # << >>
    PROVE  Proposed(d, c, tc, te) /\ GoodAnswers(d, te)
BY DEF Phase, Idle, Refused, Agreed

\* The zerostate.
LEMMA InitGood == ASSUME Laws, Init PROVE IInv
<1>1. /\ seqno = 0 /\ now = 0 /\ data = EmptyData /\ balance = 0
      /\ config = [cur |-> Genesis, next |-> NoVset] /\ seen = config
      /\ to_config = << >> /\ to_elector = << >> /\ claim = [a \in Addrs |-> 0]
  BY DEF Init
<1>2. /\ data.elect = NoElect /\ data.credits = [a \in Addrs |-> 0] /\ DOMAIN data.past = {}
      /\ data.grams = 0 /\ data.active_id = 0 /\ data.active_hash = NoVset /\ Shape(data)
  BY <1>1, SMTT(30) DEF EmptyData, Shape
<1>3. GoodData(data)
  <2>1. IsFiniteSet(DOMAIN data.past)
    BY <1>2 DEF Laws, EmptyLaw
  <2> QED BY <1>2, <2>1, SMT DEF GoodData, GoodPast, GoodActive
<1>4. /\ config \in [cur : Vset, next : Vset \cup {NoVset}] /\ config.cur = Genesis /\ config.next = NoVset
      /\ Genesis.since < Genesis.until
  BY <1>1, ElectionsAssumption
<1>5. GoodConfig(config)
  BY <1>4 DEF GoodConfig
<1>6. Phase(data, config, to_config, to_elector)
  <2>1. to_elector \in Seq([id : Nat, ok : BOOLEAN]) /\ DOMAIN to_elector = {}
    BY <1>1, SMT
  <2> QED BY <1>1, <1>2, <2>1 DEF Phase, Idle, GoodAnswers, NoRefusal
<1>7. Placed(data, config) /\ Behind(data, config, now)
  BY <1>2 DEF Placed, Behind
<1>8. Owed(data) = 0
  <2>1. /\ Owed(data) = AtStake(data) + SumFunction(data.credits) + data.grams + SumFunction(Worth(data))
        /\ SumFunction(data.credits) = SumFunctionOnSet(data.credits, Addrs)
        /\ SumFunction(Worth(data)) = SumFunctionOnSet(Worth(data), DOMAIN data.past)
    BY <1>3, BookTypes
  <2>2. AtStake(data) = 0
    BY <1>2 DEF AtStake, Open
  <2>3. SumFunction(Worth(data)) = 0
    BY <1>2, <2>1 DEF Laws, SumEmptyLaw
  <2>4. SumFunctionOnSet(data.credits, Addrs) = 0 * SumFunctionOnSet(data.credits, Addrs)
    <3>1. IsFiniteSet(Addrs) /\ 0 \in Int
      BY ElectorAssumption, SMT
    <3>2. \A a \in Addrs : data.credits[a] \in Int /\ data.credits[a] = 0 * data.credits[a]
      BY <1>2, SMT
    <3> DEFINE f == data.credits
    <3>3. \A a \in Addrs : f[a] \in Int /\ f[a] = 0 * f[a]
      BY <3>2
    <3> HIDE DEF f
    <3>4. SumFunctionOnSet(f, Addrs) = 0 * SumFunctionOnSet(f, Addrs)
      BY <3>1, <3>3, SMT DEF Laws, SumMultipleLaw
    <3> QED BY <3>4 DEF f
  <2>5. SumFunctionOnSet(data.credits, Addrs) = 0
    <3>1. SumFunctionOnSet(data.credits, Addrs) \in Int
      BY <1>3, <2>1, BookTypes, SMTT(30)
    <3> QED BY <2>4, <3>1, SMTT(30)
  <2> QED BY <1>2, <2>1, <2>2, <2>3, <2>5, SMTT(30)
<1>9. Solvent
  <2>1. InTransit = VsetValue * (0 + 0) /\ VsetValue \in Nat
    BY <1>1, ElectionsAssumption DEF InTransit
  <2> QED BY <1>1, <1>8, <2>1, SMT DEF Solvent
<1>10. claim \in [Addrs -> Int]
  BY <1>1, SMT
<1> QED BY <1>1, <1>3, <1>4, <1>5, <1>6, <1>7, <1>9, <1>10 DEF IInv

\* A step that changes nothing.
LEMMA StutterGood == ASSUME IInv, UNCHANGED vars PROVE IInv'
BY DEF IInv, vars, Solvent, InTransit

\* The data has its form.
LEMMA TypeFollows == ASSUME Laws, IInv PROVE TypeOK
<1>1. GoodData(data) /\ GoodConfig(config) /\ Phase(data, config, to_config, to_elector)
  BY DEF IInv
<1>2. \A id \in DOMAIN data.past : IsRecord(data.past[id])
  BY <1>1 DEF GoodData, GoodPast, GoodRecord
<1>3. to_config \in Seq([id : Nat, vset : Vset])
  <2>1. CASE to_config = << >>
    BY <2>1, SMT
  <2>2. CASE to_config # << >>
    <3> DEFINE at == data.elect.elect_at
               m == [id |-> at, vset |-> data.past[at].vset]
    <3>1. at \in DOMAIN data.past /\ to_config = << m >>
      BY <1>1, <2>2, OnlyProposed DEF Proposed, Held
    <3>2. at \in Nat /\ data.past[at].vset \in Vset
      BY <1>1, <3>1, BookTypes, RecordTypes
    <3>3. m \in [id : Nat, vset : Vset]
      BY <3>2
    <3> HIDE DEF m
    <3> QED BY <3>1, <3>3, SMT
  <2> QED BY <2>1, <2>2
<1>4. to_elector \in Seq([id : Nat, ok : BOOLEAN])
  BY <1>1 DEF Phase, GoodAnswers
<1>5. data.elect = NoElect \/ IsElection(data.elect)
  BY <1>1 DEF GoodData, GoodElection
<1>6. data.credits \in [Addrs -> Nat] /\ data.grams \in Nat /\ DOMAIN data.past \subseteq Nat
  BY <1>1 DEF GoodData, GoodPast
<1>7. data.active_id \in Nat /\ data.active_hash \in Vset \cup {NoVset}
  BY <1>1 DEF GoodData, GoodActive
<1>8. {config, seen} \subseteq [cur : Vset, next : Vset \cup {NoVset}]
  BY DEF IInv, GoodConfig
<1> QED BY <1>2, <1>3, <1>4, <1>5, <1>6, <1>7, <1>8 DEF IInv, TypeOK

\* The books agree with each other.
LEMMA BooksFollow == ASSUME Laws, IInv PROVE BooksAgree
<1>1. GoodData(data)
  BY DEF IInv
<1>2. ASSUME NEW id \in DOMAIN data.past PROVE RecordAddsUp(data.past[id])
  <2>1. id \in Nat /\ GoodRecord(id, data.past[id])
    BY <1>1, BookTypes
  <2> QED BY <2>1, RecordSums, NonNegative DEF RecordAddsUp, GoodRecord
<1>3. ~ ReleaseThrows(data)
  BY <1>1 DEF ReleaseThrows, GoodData, GoodActive
<1> QED BY <1>1, <1>2, <1>3 DEF BooksAgree, GoodData, GoodElection

\* The validator sets and answers on their way are about different records, so that
\* there are no more of them than records.
LEMMA FewMessages ==
    ASSUME Laws, NEW d, GoodData(d), NEW c, NEW tc, NEW te, Phase(d, c, tc, te)
    PROVE  Len(tc) + Len(te) <= Cardinality(DOMAIN d.past)
<1> DEFINE n == Len(te)
           at == d.elect.elect_at
           f == [i \in 1..(Len(tc) + n) |-> IF i <= n THEN te[i].id ELSE at]
<1>1. IsFiniteSet(DOMAIN d.past) /\ \A id \in DOMAIN d.past : id \in Nat
  BY BookTypes
<1>2. /\ n \in Nat /\ DOMAIN te = 1..n /\ \A i \in DOMAIN te : te[i].id \in DOMAIN d.past
      /\ \A i, j \in DOMAIN te : i < j => te[i].id < te[j].id
  <2> DEFINE A == [id : Nat, ok : BOOLEAN]
  <2>1. te \in Seq(A)
    BY DEF Phase, GoodAnswers
  <2> HIDE DEF A
  <2> QED BY <2>1, SMT DEF Phase, GoodAnswers
<1>3. Len(tc) = 0 \/ /\ Len(tc) = 1 /\ at \in DOMAIN d.past
                     /\ \A i \in 1..n : te[i].id < at
  <2>1. CASE tc = << >>
    BY <2>1
  <2>2. CASE tc # << >>
    BY <1>2, <2>2, OnlyProposed, SMTT(30) DEF Proposed, Held
  <2> QED BY <2>1, <2>2
<1>4. f \in [1..(Len(tc) + n) -> DOMAIN d.past]
  BY <1>2, <1>3, SMT
<1>5. ASSUME NEW i \in 1..(Len(tc) + n), NEW j \in 1..(Len(tc) + n), i < j PROVE f[i] < f[j]
  <2>1. CASE j <= n
    <3>1. i \in DOMAIN te /\ j \in DOMAIN te /\ i <= n
      BY <1>2, <1>3, <1>5, <2>1, SMT
    <3>2. f[i] = te[i].id /\ f[j] = te[j].id
      BY <2>1, <3>1
    <3> HIDE DEF f
    <3> QED BY <1>2, <1>5, <3>1, <3>2
  <2>2. CASE ~ j <= n
    <3> DEFINE l == Len(tc)
    <3>1. l \in {0, 1} /\ n \in Nat /\ i \in 1..(l + n) /\ j \in 1..(l + n)
      BY <1>2, <1>3
    <3> HIDE DEF l, n
    <3>2. l = 1 /\ i \in 1..n /\ i <= n
      BY <1>5, <2>2, <3>1, SMT
    <3>3. Len(tc) = 1 /\ i \in 1..n /\ i <= n
      BY <3>2 DEF l
    <3>4. f[i] = te[i].id /\ f[j] = at
      BY <2>2, <3>3
    <3> HIDE DEF f
    <3> QED BY <1>3, <3>3, <3>4, SMT
  <2> QED BY <2>1, <2>2
<1>6. ASSUME NEW i \in 1..(Len(tc) + n), NEW j \in 1..(Len(tc) + n), f[i] = f[j] PROVE i = j
  <2>1. f[i] \in Nat /\ f[j] \in Nat /\ i \in Int /\ j \in Int
    BY <1>1, <1>4, SMT
  <2>2. (i < j => f[i] < f[j]) /\ (j < i => f[j] < f[i])
    BY <1>5
  <2> HIDE DEF f
  <2> QED BY <1>6, <2>1, <2>2, SMTT(30)
<1>7. f \in Injection(1..(Len(tc) + n), DOMAIN d.past)
  <2> HIDE DEF f
  <2> QED BY <1>4, <1>6 DEF Injection, IsInjective
<1>8. Len(tc) + n \in Nat
  BY <1>2, <1>3, SMT
<1>9. Cardinality(1..(Len(tc) + n)) <= Cardinality(DOMAIN d.past)
  <2> HIDE DEF f
  <2> QED BY <1>1, <1>7 DEF Laws, InjectionLaw
<1>10. Cardinality(1..(Len(tc) + n)) = Len(tc) + n
  <2> DEFINE k == Len(tc) + n
  <2> HIDE DEF k
  <2>1. k \in Nat
    BY <1>8 DEF k
  <2>2. Cardinality(1..k) = k
    BY <2>1, SMT DEF Laws, IntervalLaw
  <2> QED BY <2>2 DEF k
<1> QED BY <1>9, <1>10

\* What is on its way is covered by the records, and every credit by the balance.
LEMMA PayableFollows == ASSUME Laws, VsetValue <= MinTotalStake, IInv PROVE RecoverPayable
<1> DEFINE S == DOMAIN data.past
           n == Len(to_config) + Len(to_elector)
<1>1. GoodData(data) /\ Phase(data, config, to_config, to_elector) /\ balance \in Nat
  BY DEF IInv
<1>2. /\ IsFiniteSet(S) /\ \A a \in Addrs : data.credits[a] \in Nat
      /\ SumFunction(data.credits) = SumFunctionOnSet(data.credits, Addrs)
      /\ SumFunction(data.credits) \in Nat
      /\ SumFunction(Worth(data)) = SumFunctionOnSet(Worth(data), S)
      /\ SumFunction(Worth(data)) \in Nat /\ AtStake(data) \in Nat /\ data.grams \in Nat
      /\ Owed(data) = AtStake(data) + SumFunction(data.credits) + data.grams + SumFunction(Worth(data))
  BY <1>1, BookTypes
<1>3. VsetValue \in Nat /\ MinTotalStake \in Nat /\ IsFiniteSet(Addrs)
  BY ElectionsAssumption, ElectorAssumption
<1>4. \A id \in S : Worth(data)[id] \in Int /\ Worth(data)[id] >= VsetValue
  <2>1. ASSUME NEW id \in S PROVE Worth(data)[id] \in Int /\ Worth(data)[id] >= VsetValue
    <3>1. /\ id \in Nat /\ GoodRecord(id, data.past[id])
          /\ Worth(data)[id] = data.past[id].stakes + data.past[id].bonuses
      BY <1>1, BookTypes
    <3>2. data.past[id].stakes \in Nat /\ data.past[id].bonuses \in Nat /\ data.past[id].stakes >= MinTotalStake
      BY <3>1, RecordSums DEF GoodRecord
    <3> QED BY <1>3, <3>1, <3>2, SMT
  <2> QED BY <2>1
<1>5. SumFunction(Worth(data)) >= VsetValue * Cardinality(S)
  BY <1>2, <1>3, <1>4 DEF Laws, SumAtLeastLaw
<1>6. n <= Cardinality(S) /\ n \in Nat /\ Cardinality(S) \in Nat
  <2>1. Len(to_config) \in Nat /\ Len(to_elector) \in Nat
    BY <1>1, OneOnItsWay, Transit
  <2> QED BY <1>1, <1>2, <2>1, FewMessages, SMTT(30) DEF Laws, CardinalityLaw
<1>7. Owed(data) <= balance + VsetValue * n
  BY DEF IInv, Solvent, InTransit
<1> HIDE DEF n, S
<1>8. VsetValue * n <= VsetValue * Cardinality(S) /\ VsetValue * n \in Nat /\ VsetValue * Cardinality(S) \in Nat
  BY <1>3, <1>6, TimesLeq
<1>9. SumFunction(data.credits) <= balance
  BY <1>1, <1>2, <1>5, <1>7, <1>8, SMT
<1>10. ASSUME NEW a \in Addrs PROVE data.credits[a] <= balance
  <2>1. data.credits[a] <= SumFunction(data.credits)
    BY <1>2, <1>3 DEF Laws, SumMemberLaw
  <2> QED BY <1>1, <1>2, <1>9, <2>1, SMTT(30)
<1> QED BY <1>10 DEF RecoverPayable

\* A step of a staker or of the fees preserves the invariant.
LEMMA PlainStep ==
    ASSUME Laws
    PROVE  /\ IInv
           /\ Plain
           => Stepped
       \* The phase depends on the time of the elections and on the validator sets only.
<1>SamePhase.
      ASSUME NEW d, NEW u, NEW c, NEW tc, NEW te, NEW t,
             Phase(d, c, tc, te), Placed(d, c), Behind(d, c, t),
             u.elect = d.elect \/ /\ d.elect # NoElect /\ u.elect # NoElect
                                  /\ u.elect.elect_at = d.elect.elect_at
                                  /\ u.elect.finished = d.elect.finished,
             u.active_hash = d.active_hash, DOMAIN u.past = DOMAIN d.past,
             \A id \in DOMAIN d.past : u.past[id].vset = d.past[id].vset
      PROVE  Phase(u, c, tc, te) /\ Placed(u, c) /\ Behind(u, c, t)
  <2> USE <1>SamePhase
  <2>1. Held(u) <=> Held(d)
    BY DEF Held
  <2>2. GoodAnswers(u, te) <=> GoodAnswers(d, te)
    BY DEF GoodAnswers
  <2>3. Idle(u, c, tc, te) <=> Idle(d, c, tc, te)
    BY DEF Idle
  <2>4. Proposed(u, c, tc, te) <=> Proposed(d, c, tc, te)
    BY <2>1 DEF Proposed, Held
  <2>5. Refused(u, c, tc, te) <=> Refused(d, c, tc, te)
    BY <2>1 DEF Refused, Held
  <2>6. Agreed(u, c, tc, te) <=> Agreed(d, c, tc, te)
    BY <2>1 DEF Agreed, Held
  <2>7. Phase(u, c, tc, te)
    BY <2>2, <2>3, <2>4, <2>5, <2>6 DEF Phase
  <2>8. Placed(u, c)
    BY <2>1 DEF Placed, Held
  <2>9. Behind(u, c, t)
    BY DEF Behind
  <2> QED BY <2>7, <2>8, <2>9
<1> SUFFICES ASSUME IInv, Plain PROVE Stepped
  OBVIOUS
<1>1. Phase(data, config, to_config, to_elector) /\ Placed(data, config) /\ Behind(data, config, now)
  BY DEF IInv
<1>2. \A id \in DOMAIN data.past : data'.past[id].vset = data.past[id].vset
  BY DEF Plain, RecordsStay
<1>3. Phase(data', config, to_config, to_elector) /\ Placed(data', config) /\ Behind(data', config, now)
  BY <1>1, <1>2, <1>SamePhase DEF Plain
<1>4. InTransit' = InTransit /\ InTransit \in Nat
  BY <1>1, OneOnItsWay, Transit DEF Plain, InTransit
<1>5. Solvent'
  <2>1. Owed(data) \in Nat /\ Owed(data') \in Nat /\ balance \in Nat /\ balance' \in Nat
    BY BookTypes DEF IInv, Plain
  <2>2. Owed(data) <= balance + InTransit /\ Owed(data') - balance' <= Owed(data) - balance
    BY DEF IInv, Solvent, Plain
  <2>3. Owed(data') <= balance' + InTransit
    BY <1>4, <2>1, <2>2, SMT
  <2> QED BY <1>4, <2>3 DEF Solvent
<1>6. IInv'
  BY <1>3, <1>5 DEF IInv, Plain
<1> QED BY <1>6 DEF Stepped, Plain

\* A new stake preserves the invariant.
LEMMA StakeStep ==
    ASSUME Laws
    PROVE  \A addr \in Addrs, key \in Keys, factor \in Nat, value \in Nat, confirm \in BOOLEAN :
               /\ IInv
               /\ NewStake(addr, key, factor, value, confirm)
               => Stepped
       \* A dictionary with one more entry is a dictionary.
<1>DictPut.
      ASSUME NEW f, NEW K, NEW V, IsDict(f, K, V), NEW k \in K, NEW v \in V
      PROVE  IsDict(Put(f, k, v), K, V)
  BY <1>DictPut DEF IsDict, Put
\* A member gets a stake.
<1>PutStake.
      ASSUME NEW M, IsDict(M, Keys, Member), NEW key \in Keys, NEW m \in Member,
             key \in DOMAIN M => M[key].addr = m.addr
      PROVE  LET N == Put(M, key, m)
                 more == m.stake - IF key \in DOMAIN M THEN M[key].stake ELSE 0
             IN  /\ IsDict(N, Keys, Member)
                 /\ StakeSum(N) = StakeSum(M) + more
                 /\ \A a \in Addrs : StakeOfAddr(N, a) = StakeOfAddr(M, a) + IF a = m.addr THEN more ELSE 0
  <2> USE <1>PutStake
  <2> DEFINE N == Put(M, key, m)
             old == IF key \in DOMAIN M THEN M[key].stake ELSE 0
  <2>1. IsDict(N, Keys, Member)
    BY <1>DictPut
  <2>2. DOMAIN N = DOMAIN M \cup {key} /\ N[key] = m /\ \A k \in DOMAIN M \ {key} : N[k] = M[k]
    BY DEF Put
  <2>3. /\ IsFiniteSet(DOMAIN M) /\ \A k \in DOMAIN M : Stakes(M)[k] = M[k].stake /\ Stakes(M)[k] \in Nat
        /\ StakeSum(M) = SumFunctionOnSet(Stakes(M), DOMAIN M)
        /\ \A a : StakeOfAddr(M, a) \in Nat
    BY StakeTypes
  <2>4. /\ \A k \in DOMAIN N : Stakes(N)[k] = N[k].stake /\ Stakes(N)[k] \in Nat
        /\ StakeSum(N) = SumFunctionOnSet(Stakes(N), DOMAIN N)
    BY <2>1, StakeTypes
  <2> HIDE DEF N
  <2>5. /\ Stakes(N)[key] = m.stake /\ m.stake \in Nat
        /\ \A k \in DOMAIN M \ {key} : Stakes(N)[k] = Stakes(M)[k]
    BY <2>2, <2>3, <2>4
  <2>6. ASSUME NEW S \in SUBSET DOMAIN M, key \in DOMAIN M => key \in S
        PROVE  SumFunctionOnSet(Stakes(N), S \cup {key}) = SumFunctionOnSet(Stakes(M), S) + m.stake - old
    <3>1. OnePut(Stakes(M), S, Stakes(N), key)
      <4>1. IsFiniteSet(S)
        BY <2>3 DEF Laws, SubsetLaw
      <4>2. Stakes(N)[key] \in Int /\ \A x \in S : Stakes(M)[x] \in Int
        BY <2>3, <2>5, SMT
      <4> QED BY <2>5, <4>1, <4>2 DEF OnePut
    <3>2. SumFunctionOnSet(Stakes(N), S \cup {key})
            = SumFunctionOnSet(Stakes(M), S) + Stakes(N)[key] - IF key \in S THEN Stakes(M)[key] ELSE 0
      BY <3>1, SMT DEF Laws, SumPutLaw
    <3> QED BY <2>3, <2>5, <2>6, <3>2
  <2>7. old \in Nat
    BY <2>3
  <2>8. StakeSum(N) = StakeSum(M) + (m.stake - old)
    <3>1. SumFunctionOnSet(Stakes(N), DOMAIN M \cup {key}) = SumFunctionOnSet(Stakes(M), DOMAIN M) + m.stake - old
      BY <2>6
    <3>2. StakeSum(M) \in Nat
      BY StakeTypes
    <3> QED BY <2>2, <2>3, <2>4, <2>5, <2>7, <3>1, <3>2
  <2>9. ASSUME NEW a \in Addrs
        PROVE  StakeOfAddr(N, a) = StakeOfAddr(M, a) + IF a = m.addr THEN m.stake - old ELSE 0
    <3>1. OwnedBy(M, a) \in SUBSET DOMAIN M /\ IsFiniteSet(OwnedBy(M, a))
      BY <2>3, OwnedFinite
    <3>2. CASE a = m.addr
      <4>1. OwnedBy(N, a) = OwnedBy(M, a) \cup {key} /\ (key \in DOMAIN M => key \in OwnedBy(M, a))
        BY <2>2, <3>2 DEF OwnedBy
      <4>2. SumFunctionOnSet(Stakes(N), OwnedBy(M, a) \cup {key})
              = SumFunctionOnSet(Stakes(M), OwnedBy(M, a)) + m.stake - old
        BY <2>6, <3>1, <4>1
      <4> QED BY <2>3, <2>5, <2>7, <3>2, <4>1, <4>2 DEF StakeOfAddr
    <3>3. CASE a # m.addr
      <4>1. OwnedBy(N, a) = OwnedBy(M, a) /\ key \notin OwnedBy(M, a)
        BY <2>2, <3>3 DEF OwnedBy
      <4>2. \A k \in OwnedBy(M, a) : Stakes(M)[k] \in Int /\ Stakes(N)[k] = Stakes(M)[k]
        BY <2>3, <2>5, <3>1, <4>1, SMT
      <4>3. SumFunctionOnSet(Stakes(N), OwnedBy(M, a)) = SumFunctionOnSet(Stakes(M), OwnedBy(M, a))
        BY <3>1, <4>2 DEF Laws, SumSameLaw
      <4> QED BY <2>3, <3>3, <4>1, <4>3, SMT DEF StakeOfAddr
    <3> QED BY <3>2, <3>3
  <2> QED BY <2>1, <2>8, <2>9 DEF N
\* process_new_stake: what the books owe, and what the address has, grows by the stake.
<1>StakeKeeps.
      ASSUME NEW d, GoodData(d), NEW t \in Nat, NEW addr \in Addrs, NEW key \in Keys,
             NEW factor \in Nat, NEW value \in Nat,
             AcceptsStake(d, addr, key, d.elect.elect_at, factor, value)
      PROVE  LET u == ProcessNewStake(d, t, addr, key, factor, value)
                 s == value - ConfirmValue
             IN  /\ GoodData(u) /\ u.past = d.past /\ u.elect # NoElect
                 /\ u.elect.elect_at = d.elect.elect_at
                 /\ ~ d.elect.finished /\ ~ u.elect.finished
                 /\ u.active_id = d.active_id /\ u.active_hash = d.active_hash
                 /\ s \in Nat /\ ConfirmValue \in Nat /\ Owed(u) = Owed(d) + s
                 /\ \A a \in Addrs : Kept(u, a) = Kept(d, a) + IF a = addr THEN s ELSE 0
  <2> USE <1>StakeKeeps
  <2> DEFINE u == ProcessNewStake(d, t, addr, key, factor, value)
             s == value - ConfirmValue
             M == d.elect.members
             m == [stake |-> StakeOf(d, key, value), time |-> t, factor |-> factor, addr |-> addr]
             N == Put(M, key, m)
             old == IF key \in DOMAIN M THEN M[key].stake ELSE 0
             e == [d.elect EXCEPT !.total_stake = @ + value - ConfirmValue, !.members = Put(@, key, m),
                                  !.failed = FALSE, !.finished = FALSE]
  <2>0. u = [d EXCEPT !.elect = e]
    BY DEF ProcessNewStake
  <2>1. /\ d.elect # NoElect /\ ~ d.elect.finished /\ s * Share >= d.elect.total_stake
        /\ key \in DOMAIN M => M[key].addr = addr
    BY DEF AcceptsStake
  <2>2. d.elect \in Election({M}) /\ IsDict(M, Keys, Member) /\ d.elect.total_stake = StakeSum(M)
    BY <2>1 DEF GoodData, GoodElection, IsElection
  <2>3. d.elect.total_stake \in Nat /\ d.elect.elect_at \in Nat
    BY <2>2 DEF Election
  <2>4. s \in Nat /\ ConfirmValue \in Nat
    <3>1. ConfirmValue \in Nat /\ Share \in Nat /\ Share > 0
      BY ElectorAssumption, SMT
    <3>2. ASSUME NEW x \in Int, NEW y \in Nat, y > 0, x * y >= 0 PROVE x >= 0
      BY <3>2, SMT
    <3>3. s \in Int /\ s * Share \in Int /\ s * Share >= 0
      BY <2>1, <2>3, <3>1, SMT
    <3> HIDE DEF s
    <3>4. s >= 0
      BY <3>1, <3>2, <3>3
    <3> QED BY <3>1, <3>3, <3>4, SMT
  <2>5. old \in Nat
    BY <2>2, StakeTypes
  <2>6. StakeOf(d, key, value) = s + old
    BY DEF StakeOf
  <2> HIDE DEF s, old
  <2>7. m \in Member /\ m.addr = addr /\ m.stake = s + old
    BY <2>4, <2>5, <2>6, SMT DEF Member
  <2> HIDE DEF m
  <2>8. /\ IsDict(N, Keys, Member) /\ StakeSum(N) = StakeSum(M) + (m.stake - old)
        /\ \A a \in Addrs : StakeOfAddr(N, a) = StakeOfAddr(M, a) + IF a = m.addr THEN m.stake - old ELSE 0
    BY <2>1, <2>2, <2>7, <1>PutStake DEF old
  <2>9. m.stake - old = s
    BY <2>4, <2>5, <2>7, SMT
  <2> HIDE DEF M, N
  <2>10. /\ e \in Election({N}) /\ e.members = N /\ e.total_stake = StakeSum(M) + s
         /\ ~ e.finished /\ e.elect_at = d.elect.elect_at
    <3>1. d.elect.total_stake + value - ConfirmValue = StakeSum(M) + s
      BY <2>2, <2>3, <2>4 DEF s
    <3>2. StakeSum(M) + s \in Nat
      BY <2>2, <2>3, <2>4, SMT
    <3>3. Put(d.elect.members, key, m) = N
      BY DEF N, M
    <3> QED BY <2>2, <3>1, <3>2, <3>3 DEF Election
  <2> HIDE DEF e
  <2>11. GoodElection(e)
    BY <2>8, <2>9, <2>10 DEF GoodElection, IsElection
  <2>13. e # NoElect
    BY <2>11, ElectionNotNull DEF GoodElection
  <2> HIDE DEF u
  <2>14. OnlyElect(d, u) /\ u.elect = e /\ u.past = d.past /\ u.active_id = d.active_id /\ u.active_hash = d.active_hash
    BY <2>0, SetElect, SMT DEF OnlyElect
  <2>15. /\ GoodData(u) /\ Owed(u) - AtStake(u) = Owed(d) - AtStake(d)
         /\ \A a \in Addrs : Kept(u, a) - (IF Open(u) THEN StakeOfAddr(u.elect.members, a) ELSE 0)
                               = Kept(d, a) - IF Open(d) THEN StakeOfAddr(d.elect.members, a) ELSE 0
    BY <2>11, <2>14, ElectChange
  <2>16. Open(d) /\ Open(u) /\ AtStake(d) = StakeSum(M) /\ AtStake(u) = StakeSum(M) + s
    BY <2>1, <2>8, <2>9, <2>10, <2>13, <2>14 DEF Open, AtStake, M
  <2>17. Owed(u) = Owed(d) + s
    <3>1. Owed(u) \in Nat /\ Owed(d) \in Nat /\ AtStake(d) \in Nat
      BY <2>15, BookTypes
    <3> QED BY <2>4, <2>15, <2>16, <3>1, SMT
  <2>18. ASSUME NEW a \in Addrs PROVE Kept(u, a) = Kept(d, a) + IF a = addr THEN s ELSE 0
    <3>1. StakeOfAddr(N, a) = StakeOfAddr(M, a) + IF a = addr THEN s ELSE 0
      BY <2>7, <2>8, <2>9
    <3>2. Kept(u, a) - StakeOfAddr(N, a) = Kept(d, a) - StakeOfAddr(M, a)
      BY <2>10, <2>14, <2>15, <2>16 DEF M
    <3>3. Kept(u, a) \in Nat /\ Kept(d, a) \in Nat /\ StakeOfAddr(M, a) \in Nat
      BY <2>15, <2>16, KeptTypes, SMT DEF M
    <3> QED BY <2>4, <3>1, <3>2, <3>3, SMT
  <2> QED BY <2>1, <2>4, <2>10, <2>13, <2>14, <2>15, <2>17, <2>18 DEF u, s
<1> SUFFICES ASSUME IInv, NEW addr \in Addrs, NEW key \in Keys, NEW factor \in Nat, NEW value \in Nat,
                    NEW confirm \in BOOLEAN, NewStake(addr, key, factor, value, confirm)
             PROVE  Stepped
  OBVIOUS
<1> DEFINE s == value - ConfirmValue
           kept == IF confirm THEN ConfirmValue ELSE 0
<1>1. GoodData(data) /\ now \in Nat /\ balance \in Nat /\ claim \in [Addrs -> Int]
  BY DEF IInv
<1>2. /\ AcceptsStake(data, addr, key, data.elect.elect_at, factor, value)
      /\ data' = ProcessNewStake(data, now, addr, key, factor, value)
      /\ balance' = balance + value - kept
      /\ claim' = [claim EXCEPT ![addr] = claim[addr] + value - ConfirmValue]
      /\ UNCHANGED <<seqno, now, config, seen, to_config, to_elector>>
  BY DEF NewStake
<1>3. /\ GoodData(data') /\ data'.past = data.past /\ data'.elect # NoElect
      /\ data'.elect.elect_at = data.elect.elect_at
      /\ ~ data.elect.finished /\ ~ data'.elect.finished
      /\ data'.active_id = data.active_id /\ data'.active_hash = data.active_hash
      /\ s \in Nat /\ ConfirmValue \in Nat /\ Owed(data') = Owed(data) + s
      /\ \A a \in Addrs : Kept(data', a) = Kept(data, a) + IF a = addr THEN s ELSE 0
  <2> DEFINE u == ProcessNewStake(data, now, addr, key, factor, value)
  <2>1. /\ GoodData(u) /\ u.past = data.past /\ u.elect # NoElect
        /\ u.elect.elect_at = data.elect.elect_at
        /\ ~ data.elect.finished /\ ~ u.elect.finished
        /\ u.active_id = data.active_id /\ u.active_hash = data.active_hash
        /\ s \in Nat /\ ConfirmValue \in Nat /\ Owed(u) = Owed(data) + s
        /\ \A a \in Addrs : Kept(u, a) = Kept(data, a) + IF a = addr THEN s ELSE 0
    BY <1>1, <1>2, <1>StakeKeeps, SMTT(30)
  <2> HIDE DEF u
  <2>2. data' = u
    BY <1>2 DEF u
  <2> QED BY <2>1, <2>2
<1>4. data.elect # NoElect
  BY <1>2 DEF AcceptsStake
<1>5. Owed(data) \in Nat /\ \A a \in Addrs : Kept(data, a) \in Nat
  BY <1>1, AmountTypes
<1>6. balance' \in Nat /\ Owed(data') - balance' <= Owed(data) - balance
  BY <1>1, <1>2, <1>3, <1>5, SMTT(30)
<1>7. claim' \in [Addrs -> Int] /\ \A a \in Addrs : claim'[a] = claim[a] + IF a = addr THEN s ELSE 0
  BY <1>1, <1>2, <1>3, SMT
<1> HIDE DEF s
<1>8. \A a \in Addrs : Kept(data', a) - claim'[a] >= Kept(data, a) - claim[a]
  BY <1>1, <1>3, <1>5, <1>7, SMT
<1>9. RecordsStay(data, data')
  BY <1>1, <1>3, SameStay
<1>10. data'.elect.finished = data.elect.finished
  <2>1. data.elect.finished \in BOOLEAN /\ data'.elect.finished \in BOOLEAN
    BY <1>1, <1>3, <1>4 DEF GoodData, GoodElection, IsElection, Election
  <2> QED BY <1>3, <2>1
<1>11. Plain
  BY <1>2, <1>3, <1>4, <1>6, <1>7, <1>8, <1>9, <1>10 DEF Plain
<1> QED BY <1>11, PlainStep

\* A recovery preserves the invariant.
LEMMA RecoverStep ==
    ASSUME Laws
    PROVE  \A addr \in Addrs :
               /\ IInv
               /\ Recover(addr)
               => Stepped
       \* recover_stake: the credit of an address is no longer owed.
<1>RecoverKeeps.
      ASSUME NEW d, GoodData(d), NEW addr \in Addrs
      PROVE  LET u == RecoverStake(d, addr)
             IN  /\ GoodData(u) /\ SameRecords(d, u) /\ Owed(u) = Owed(d) - d.credits[addr]
                 /\ \A a \in Addrs :
                        Kept(u, a) = Kept(d, a) - IF a = addr THEN d.credits[addr] ELSE 0
  <2> USE <1>RecoverKeeps
  <2> DEFINE u == RecoverStake(d, addr)
  <2>0. d.credits \in [Addrs -> Nat]
    BY DEF GoodData
  <2>1. /\ Shape(u) /\ u.elect = d.elect /\ u.past = d.past /\ u.credits = [d.credits EXCEPT ![addr] = 0]
        /\ u.grams = d.grams /\ u.active_id = d.active_id /\ u.active_hash = d.active_hash
    BY SMT DEF RecoverStake, GoodData, Shape
  <2> HIDE DEF u
  <2>2. GoodData(u)
    <3>1. u.credits \in [Addrs -> Nat]
      BY <2>0, <2>1, SMT
    <3> QED BY <2>1, <3>1 DEF GoodData, GoodPast, GoodActive
  <2>3. Worth(u) = Worth(d) /\ \A a : FrozenOf(u, a) = FrozenOf(d, a)
    BY <2>1, SamePast
  <2>4. (Open(u) <=> Open(d)) /\ AtStake(u) = AtStake(d)
    BY <2>1 DEF AtStake, Open
  <2>5. u.credits[addr] = 0 /\ \A a \in Addrs \ {addr} : u.credits[a] = d.credits[a]
    BY <2>0, <2>1
  <2>6. SumFunction(u.credits) = SumFunction(d.credits) - d.credits[addr] /\ d.credits[addr] \in Nat
    <3>1. OneChanged(d.credits, Addrs, u.credits, addr)
      BY <2>2, <2>5, BookTypes, ElectorAssumption, SMTT(30) DEF OneChanged
    <3>2. SumFunctionOnSet(u.credits, Addrs) = SumFunctionOnSet(d.credits, Addrs) + u.credits[addr] - d.credits[addr]
      BY <3>1, SMT DEF Laws, SumChangeLaw
    <3> QED BY <2>2, <2>5, <3>2, BookTypes, SMTT(30)
  <2>7. Owed(u) = Owed(d) - d.credits[addr]
    BY <2>1, <2>2, <2>3, <2>4, <2>6, BookTypes, SMTT(30)
  <2>8. ASSUME NEW a \in Addrs
        PROVE  Kept(u, a) = Kept(d, a) - IF a = addr THEN d.credits[addr] ELSE 0
    <3>1. /\ Kept(u, a) = u.credits[a] + StakedBy(u, a) /\ Kept(d, a) = d.credits[a] + StakedBy(d, a)
          /\ StakedBy(u, a) = StakedBy(d, a)
      BY <2>1, <2>3, <2>4 DEF Kept, StakedBy
    <3>2. Kept(d, a) \in Nat /\ d.credits[a] \in Nat /\ StakedBy(d, a) \in Nat
      BY KeptTypes, SMT DEF Kept, StakedBy
    <3>3. u.credits[a] = IF a = addr THEN 0 ELSE d.credits[a]
      BY <2>5
    <3> QED BY <3>1, <3>2, <3>3, SMT
  <2>9. SameRecords(d, u)
    <3>1. \A id \in DOMAIN d.past : d.past[id].bonuses \in Nat
      BY BookTypes, RecordSums
    <3> QED BY <2>1, <3>1, SMT DEF SameRecords
  <2> QED BY <2>2, <2>7, <2>8, <2>9 DEF u
<1> SUFFICES ASSUME IInv, NEW addr \in Addrs, Recover(addr) PROVE Stepped
  OBVIOUS
<1> DEFINE x == data.credits[addr]
<1>1. GoodData(data) /\ balance \in Nat /\ claim \in [Addrs -> Int]
  BY DEF IInv
<1>2. /\ x <= balance /\ data' = RecoverStake(data, addr) /\ balance' = balance - x
      /\ claim' = [claim EXCEPT ![addr] = claim[addr] - x]
      /\ UNCHANGED <<seqno, now, config, seen, to_config, to_elector>>
  BY DEF Recover
<1>3. /\ GoodData(data') /\ SameRecords(data, data') /\ Owed(data') = Owed(data) - x
      /\ \A a \in Addrs : Kept(data', a) = Kept(data, a) - IF a = addr THEN x ELSE 0
  BY <1>1, <1>2, <1>RecoverKeeps
<1>4. x \in Nat /\ Owed(data) \in Nat /\ \A a \in Addrs : Kept(data, a) \in Nat
  BY <1>1, AmountTypes, BookTypes
<1> HIDE DEF x
<1>5. balance' \in Nat /\ Owed(data') - balance' <= Owed(data) - balance
  BY <1>1, <1>2, <1>3, <1>4, SMT
<1>6. claim' \in [Addrs -> Int] /\ \A a \in Addrs : claim'[a] = claim[a] - IF a = addr THEN x ELSE 0
  BY <1>1, <1>2, <1>4, SMT
<1>7. \A a \in Addrs : Kept(data', a) - claim'[a] >= Kept(data, a) - claim[a]
  BY <1>1, <1>3, <1>4, <1>6, SMT
<1>8. Plain
  BY <1>2, <1>3, <1>5, <1>6, <1>7 DEF Plain, SameRecords, RecordsStay
<1> QED BY <1>8, PlainStep

\* Grams come in, as fees or as a transfer.
LEMMA GramsStep ==
    ASSUME Laws
    PROVE  \A value \in Nat :
               /\ IInv
               /\ BlockFees(value) \/ Donate(value)
               => Stepped
       \* Grams that come in are bonuses or "grams".
<1>TransferKeeps.
      ASSUME NEW d, GoodData(d), NEW value \in Nat
      PROVE  LET u == Transfer(d, value)
             IN  /\ GoodData(u) /\ SameRecords(d, u) /\ Owed(u) = Owed(d) + value
                 /\ \A a \in Addrs : Kept(u, a) = Kept(d, a)
  <2> USE <1>TransferKeeps
  <2> DEFINE u == Transfer(d, value)
  <2>1. /\ Shape(u) /\ u.elect = d.elect /\ u.past = d.past /\ u.credits = d.credits
        /\ u.grams = d.grams + value /\ u.active_id = d.active_id /\ u.active_hash = d.active_hash
    BY SMTT(30) DEF Transfer, GoodData, Shape
  <2> HIDE DEF u
  <2>2. GoodData(u)
    BY <2>1, SMT DEF GoodData, GoodPast, GoodActive
  <2>3. Worth(u) = Worth(d) /\ \A a : FrozenOf(u, a) = FrozenOf(d, a)
    BY <2>1, SamePast
  <2>4. (Open(u) <=> Open(d)) /\ AtStake(u) = AtStake(d)
    BY <2>1 DEF AtStake, Open
  <2>5. Owed(u) = Owed(d) + value
    BY <2>1, <2>2, <2>3, <2>4, BookTypes, SMTT(30)
  <2>6. ASSUME NEW a \in Addrs PROVE Kept(u, a) = Kept(d, a)
    BY <2>1, <2>2, <2>3, <2>4, KeptTypes, SMTT(30)
  <2>7. SameRecords(d, u)
    <3>1. \A id \in DOMAIN d.past : d.past[id].bonuses \in Nat
      BY BookTypes, RecordSums
    <3> QED BY <2>1, <3>1, SMT DEF SameRecords
  <2> QED BY <2>2, <2>5, <2>6, <2>7 DEF u
<1>FeesKeep.
      ASSUME NEW d, GoodData(d), NEW value \in Nat
      PROVE  LET u == CollectFees(d, value)
             IN  /\ GoodData(u) /\ SameRecords(d, u) /\ Owed(u) = Owed(d) + value
                 /\ \A a \in Addrs : Kept(u, a) = Kept(d, a)
  <2> USE <1>FeesKeep
  <2> DEFINE u == CollectFees(d, value)
             id == d.active_id
             r == d.past[id]
             q == [r EXCEPT !.bonuses = r.bonuses + value]
  <2>1. CASE id \notin DOMAIN d.past
    <3>1. u = Transfer(d, value)
      BY <2>1 DEF CollectFees, Transfer
    <3> QED BY <3>1, <1>TransferKeeps
  <2>2. CASE id \in DOMAIN d.past
    <3>1. id \in Nat /\ GoodRecord(id, r)
      BY <2>2, BookTypes
    <3>2. r \in Record({r.frozen}) /\ r.bonuses \in Nat
      BY <3>1, RecordTypes
    <3>3. /\ q \in Record({r.frozen}) /\ q.bonuses = r.bonuses + value /\ q.vset = r.vset
          /\ q.frozen = r.frozen /\ q.stakes = r.stakes /\ q.stake_held = r.stake_held
          /\ q.unfreeze_at = r.unfreeze_at
      <4> DEFINE y == r.bonuses + value
      <4>1. y \in Nat
        BY <3>2, NatAdd
      <4> HIDE DEF y, r
      <4> QED BY <3>2, <4>1 DEF Record, y
    <3>4. u = [d EXCEPT !.past = [d.past EXCEPT ![id] = q]]
      BY <2>2 DEF CollectFees
    <3> HIDE DEF q
    <3>5. GoodRecord(id, q)
      BY <3>1, <3>3 DEF GoodRecord, IsRecord
    <3> HIDE DEF u
    <3>6. /\ Shape(u) /\ u.elect = d.elect /\ u.past = [d.past EXCEPT ![id] = q]
          /\ u.credits = d.credits /\ u.grams = d.grams
          /\ u.active_id = d.active_id /\ u.active_hash = d.active_hash
      BY <3>4 DEF GoodData, Shape
    <3> HIDE DEF id, r
    <3>7. GoodData(u) /\ MoreOwed(d, u, value)
      <4>1. u.grams \in Nat
        BY <3>6, BookTypes
      <4>2. Replaced(d, u, id, q) /\ u.active_id = d.active_id /\ u.active_hash = d.active_hash
        BY <3>3, <3>6, <4>1 DEF r, Replaced
      <4>3. Grown(d, u, id, q, value)
        BY <3>3, <3>6 DEF r, Grown
      <4> QED BY <2>2, <3>5, <4>2, <4>3, RecordChange
    <3>8. SameRecords(d, u)
      <4>1. \A i \in DOMAIN d.past : d.past[i].bonuses >= d.past[i].bonuses
        BY SameBonuses
      <4>2. DOMAIN u.past = DOMAIN d.past
            /\ \A i \in DOMAIN d.past : u.past[i] = IF i = id THEN q ELSE d.past[i]
        BY <3>6
      <4>3. q.bonuses >= r.bonuses
        BY <3>2, <3>3, SMT
      <4> QED BY <3>3, <3>6, <4>1, <4>2, <4>3 DEF SameRecords, r
    <3> QED BY <3>7, <3>8 DEF u, MoreOwed
  <2> QED BY <2>1, <2>2
<1> SUFFICES ASSUME IInv, NEW value \in Nat, BlockFees(value) \/ Donate(value)
             PROVE  Stepped
  OBVIOUS
<1>1. GoodData(data) /\ balance \in Nat /\ claim \in [Addrs -> Int]
  BY DEF IInv
<1>2. /\ data' = CollectFees(data, value) \/ data' = Transfer(data, value)
      /\ balance' = balance + value
      /\ UNCHANGED <<seqno, now, config, seen, to_config, to_elector, claim>>
  BY DEF BlockFees, Donate
<1>3. /\ GoodData(data') /\ SameRecords(data, data') /\ Owed(data') = Owed(data) + value
      /\ \A a \in Addrs : Kept(data', a) = Kept(data, a)
  <2>1. CASE data' = CollectFees(data, value)
    BY <1>1, <2>1, <1>FeesKeep
  <2>2. CASE data' = Transfer(data, value)
    BY <1>1, <2>2, <1>TransferKeeps
  <2> QED BY <1>2, <2>1, <2>2
<1>4. Owed(data) \in Nat /\ \A a \in Addrs : Kept(data, a) \in Nat
  BY <1>1, AmountTypes
<1>5. balance' \in Nat /\ Owed(data') - balance' <= Owed(data) - balance
  BY <1>1, <1>2, <1>3, <1>4, SMT
<1>6. \A a \in Addrs : Kept(data', a) - claim'[a] >= Kept(data, a) - claim[a]
  BY <1>1, <1>2, <1>3, <1>4, SMT
<1>7. Plain
  BY <1>1, <1>2, <1>3, <1>5, <1>6 DEF Plain, SameRecords, RecordsStay
<1> QED BY <1>7, PlainStep

\* The configuration contract takes a validator set and answers: the phase of the elections
\* changes, the books do not.
LEMMA ReplyStep ==
    ASSUME Laws
    PROVE  /\ IInv
           /\ SetNextVset
           => Stepped
       \* The configuration contract takes the set or refuses it.
<1>ReplyPhase.
      ASSUME NEW d, GoodData(d), NEW c, GoodConfig(c), NEW tc, NEW te, Phase(d, c, tc, te),
             Placed(d, c), NEW n, Behind(d, c, n), tc # << >>, NEW ok \in BOOLEAN,
             NEW e, e = IF ok THEN [c EXCEPT !.next = Head(tc).vset] ELSE c
      PROVE  /\ GoodConfig(e) /\ Placed(d, e) /\ Behind(d, e, n)
             /\ Phase(d, e, Tail(tc), Append(te, [id |-> Head(tc).id, ok |-> ok]))
             /\ Len(Tail(tc)) + Len(Append(te, [id |-> Head(tc).id, ok |-> ok])) = Len(tc) + Len(te)
  <2> USE <1>ReplyPhase
  <2> DEFINE at == d.elect.elect_at
             v == d.past[at].vset
             a == [id |-> at, ok |-> ok]
             answers == Append(te, a)
  <2>1. Proposed(d, c, tc, te) /\ GoodAnswers(d, te)
    BY OnlyProposed
  <2>2. /\ Held(d) /\ at \in DOMAIN d.past /\ c.next = NoVset /\ at >= c.cur.until
        /\ NoRefusal(te) /\ \A i \in DOMAIN te : te[i].id < at
    BY <2>1 DEF Proposed, Held
  <2>3. tc = << [id |-> at, vset |-> v] >>
    BY <2>1 DEF Proposed
  <2>4. Head(tc).vset = v /\ Head(tc).id = at /\ Tail(tc) = << >> /\ Len(tc) = 1
    BY <2>3, SMT
  <2>5. at \in Nat /\ GoodRecord(at, d.past[at])
    BY <2>2, BookTypes
  <2>6. v \in Vset /\ at <= v.since /\ v.since < v.until /\ v.since \in Nat /\ v.until \in Nat /\ v # NoVset
    BY <2>5, RecordTypes, VsetTimes
  <2>7. /\ c \in [cur : Vset, next : Vset \cup {NoVset}] /\ c.cur.until \in Nat
    BY VsetTimes DEF GoodConfig
  <2>8. te \in Seq([id : Nat, ok : BOOLEAN]) /\ Len(te) \in Nat /\ a \in [id : Nat, ok : BOOLEAN]
        /\ a.id = at /\ a.ok = ok
    BY <2>1, <2>5, SMT DEF GoodAnswers
  <2>13. Append(te, [id |-> Head(tc).id, ok |-> ok]) = answers
    BY <2>4
  <2> HIDE DEF at, v, a
  <2>9. /\ answers \in Seq([id : Nat, ok : BOOLEAN]) /\ Len(answers) = Len(te) + 1
        /\ DOMAIN answers = 1..(Len(te) + 1) /\ DOMAIN te = 1..Len(te)
        /\ answers[Len(te) + 1] = a /\ \A i \in 1..Len(te) : answers[i] = te[i]
    BY <2>8, SMT
  <2> HIDE DEF answers
  <2>14. \A i \in DOMAIN answers : i \in 1..Len(te) \/ i = Len(te) + 1
    BY <2>8, <2>9, SMT
  <2>15. Len(Tail(tc)) + Len(answers) = Len(tc) + Len(te)
    BY <2>4, <2>8, <2>9, SMTT(30)
  <2>10. GoodAnswers(d, answers)
    <3>1. \A i \in DOMAIN answers : answers[i].id \in DOMAIN d.past
      <4>1. \A i \in 1..Len(te) : te[i].id \in DOMAIN d.past
        BY <2>1, <2>9 DEF GoodAnswers
      <4> QED BY <2>2, <2>8, <2>9, <2>14, <4>1
    <3>2. ASSUME NEW i \in DOMAIN answers, NEW j \in DOMAIN answers, i < j
          PROVE  answers[i].id < answers[j].id
      <4>1. i \in 1..Len(te)
        BY <2>8, <2>9, <3>2, SMT
      <4>2. CASE j = Len(te) + 1
        BY <2>2, <2>8, <2>9, <4>1, <4>2
      <4>3. CASE j \in 1..Len(te)
        BY <2>1, <2>9, <3>2, <4>1, <4>3 DEF GoodAnswers
      <4> QED BY <2>8, <2>9, <4>2, <4>3, SMT
    <3> QED BY <2>9, <3>1, <3>2 DEF GoodAnswers
  <2>11. ASSUME ok PROVE GoodConfig(e) /\ Placed(d, e) /\ Behind(d, e, n) /\ Phase(d, e, << >>, answers)
    <3>1. e = [c EXCEPT !.next = v]
      BY <2>4, <2>11
    <3>2. e.cur = c.cur /\ e.next = v /\ e \in [cur : Vset, next : Vset \cup {NoVset}]
      BY <2>6, <2>7, <3>1
    <3>3. v.since >= c.cur.until
      BY <2>2, <2>5, <2>6, <2>7, SMT
    <3>4. GoodConfig(e)
      BY <2>6, <3>2, <3>3 DEF GoodConfig
    <3>5. Placed(d, e)
      <4>1. \A id \in DOMAIN d.past : d.past[id].vset # NoVset
        BY BookTypes, RecordTypes, VsetTimes
      <4> QED BY <2>2, <3>2, <4>1 DEF Placed
    <3>6. Behind(d, e, n)
      BY <3>2 DEF Behind
    <3>7. NoRefusal(answers)
      <4>1. \A i \in 1..Len(te) : te[i].ok
        BY <2>2, <2>9 DEF NoRefusal
      <4>2. a.ok
        BY <2>8, <2>11
      <4> QED BY <2>9, <2>14, <4>1, <4>2 DEF NoRefusal
    <3>8. Agreed(d, e, << >>, answers)
      BY <2>2, <3>2, <3>7 DEF Agreed, v, at
    <3>9. Phase(d, e, << >>, answers)
      BY <2>10, <3>8 DEF Phase
    <3> QED BY <3>4, <3>5, <3>6, <3>9
  <2>12. ASSUME ~ ok PROVE GoodConfig(e) /\ Placed(d, e) /\ Behind(d, e, n) /\ Phase(d, e, << >>, answers)
    <3>1. e = c
      BY <2>12
    <3>2. ok = FALSE /\ Len(te) + 1 \in DOMAIN answers /\ answers[Len(te) + 1] = [id |-> at, ok |-> FALSE]
      <4>1. ok = FALSE
        BY <2>12
      <4>2. Len(te) + 1 \in DOMAIN answers
        BY <2>8, <2>9, SMT
      <4> QED BY <2>9, <4>1, <4>2 DEF a
    <3>3. \A i \in DOMAIN answers : answers[i].ok \/ answers[i].id = at
      BY <2>2, <2>8, <2>9, SMTT(30) DEF NoRefusal
    <3>4. Refused(d, c, << >>, answers)
      BY <2>2, <3>2, <3>3 DEF Refused, at
    <3>5. Phase(d, c, << >>, answers)
      BY <2>10, <3>4 DEF Phase
    <3> QED BY <3>1, <3>5
  <2> QED BY <2>4, <2>11, <2>12, <2>13, <2>15
<1> SUFFICES ASSUME IInv, SetNextVset PROVE Stepped
  OBVIOUS
<1> DEFINE m == Head(to_config)
           ok == AcceptsVset(m.vset)
<1>1. /\ GoodData(data) /\ GoodConfig(config) /\ Phase(data, config, to_config, to_elector)
      /\ Placed(data, config) /\ Behind(data, config, now)
  BY DEF IInv
<1>2. /\ to_config # << >>
      /\ config' = IF ok THEN [config EXCEPT !.next = m.vset] ELSE config
      /\ to_elector' = Append(to_elector, [id |-> m.id, ok |-> ok])
      /\ to_config' = Tail(to_config)
      /\ UNCHANGED <<seqno, now, data, balance, seen, claim>>
  BY DEF SetNextVset
<1>3. ok \in BOOLEAN
  BY DEF AcceptsVset
<1> HIDE DEF ok
<1>4. /\ GoodConfig(config') /\ Placed(data, config') /\ Behind(data, config', now)
      /\ Phase(data, config', Tail(to_config), Append(to_elector, [id |-> m.id, ok |-> ok]))
      /\ Len(Tail(to_config)) + Len(Append(to_elector, [id |-> m.id, ok |-> ok]))
           = Len(to_config) + Len(to_elector)
  BY <1>1, <1>2, <1>3, <1>ReplyPhase, SMT
<1>5. /\ Phase(data, config', to_config', to_elector')
      /\ Len(to_config') + Len(to_elector') = Len(to_config) + Len(to_elector)
  BY <1>2, <1>4
<1>6. InTransit' = InTransit
  BY <1>5 DEF InTransit
<1>7. IInv'
  BY <1>2, <1>4, <1>5, <1>6 DEF IInv, Solvent
<1>8. RecordsStay(data, data') /\ DOMAIN data.past \ DOMAIN data'.past = {}
  BY <1>1, <1>2, SameStay
<1>9. \A a \in Addrs : Kept(data', a) - claim'[a] >= Kept(data, a) - claim[a]
  <2>1. \A a \in Addrs : Kept(data, a) \in Nat /\ claim[a] \in Int
    BY <1>1, AmountTypes DEF IInv
  <2> QED BY <1>2, <2>1, SMT
<1> QED BY <1>7, <1>8, <1>9 DEF Stepped

\* The answers after the first one.
Peeled(te) ==
    /\ \A j \in DOMAIN Tail(te) : \E i \in DOMAIN te : Tail(te)[j] = te[i]
    /\ \A j \in DOMAIN Tail(te) : te[1].id < Tail(te)[j].id
    /\ \A i \in DOMAIN te : i # 1 => \E j \in DOMAIN Tail(te) : Tail(te)[j] = te[i]

\* The elector gets an answer: refused elections are undone.
LEMMA ConfirmedStep ==
    ASSUME Laws
    PROVE  /\ IInv
           /\ Confirmed
           => Stepped
       \* config_set_confirmed: refused elections are undone, nothing else changes.
<1>ConfirmKeeps.
      ASSUME NEW d, GoodData(d), NEW id, NEW ok,
             d.elect # NoElect /\ d.elect.finished => d.elect.elect_at \in DOMAIN d.past
      PROVE  LET u == ConfigSetConfirmed(d, id, ok)
             IN  \/ u = d /\ (~ ok /\ Held(d) => d.elect.elect_at # id)
                 \/ /\ ~ ok /\ Held(d) /\ d.elect.elect_at = id
                    /\ GoodData(u) /\ u.elect = NoElect /\ u.past = Drop(d.past, id)
                    /\ u.active_id = d.active_id /\ u.active_hash = d.active_hash
                    /\ Owed(u) = Owed(d) /\ \A a \in Addrs : Kept(u, a) >= Kept(d, a)
  <2> USE <1>ConfirmKeeps
  <2> DEFINE u == ConfigSetConfirmed(d, id, ok)
             w == UnfreezeAll(d, id)
  <2>1. CASE ~ (d.elect # NoElect /\ d.elect.elect_at = id /\ d.elect.finished /\ ~ ok)
    BY <2>1 DEF ConfigSetConfirmed, Held
  <2>2. CASE d.elect # NoElect /\ d.elect.elect_at = id /\ d.elect.finished /\ ~ ok
    <3>1. ~ UnfreezeThrows(d, id)
      <4>1. ASSUME id \in DOMAIN d.past PROVE RecordAddsUp(d.past[id])
        <5>1. id \in Nat /\ GoodRecord(id, d.past[id])
          BY <4>1, BookTypes
        <5> QED BY <5>1, RecordSums, NonNegative DEF RecordAddsUp, GoodRecord
      <4> QED BY <4>1 DEF UnfreezeThrows
    <3>2. u = ForgetElections(w)
      BY <2>2, <3>1 DEF ConfigSetConfirmed
    <3>3. /\ GoodData(w) /\ w.elect = d.elect /\ w.active_id = d.active_id
          /\ w.active_hash = d.active_hash /\ w.past = Drop(d.past, id)
          /\ Owed(w) = Owed(d) /\ \A a \in Addrs : Kept(w, a) >= Kept(d, a)
      <4>1. id \in DOMAIN d.past
        BY <2>2
      <4> QED BY <4>1, UnfreezeKeeps
    <3> HIDE DEF w
    <3>4. ~ Open(w)
      BY <2>2, <3>3 DEF Open
    <3>5. /\ GoodData(u) /\ OnlyElect(w, u) /\ u.elect = NoElect
          /\ Owed(u) = Owed(w) /\ \A a \in Addrs : Kept(u, a) = Kept(w, a)
      BY <3>2, <3>3, <3>4, ForgetKeeps
    <3> HIDE DEF u
    <3>6. \A a \in Addrs : Kept(u, a) >= Kept(d, a)
      BY <3>3, <3>5
    <3> QED BY <2>2, <3>3, <3>5, <3>6 DEF OnlyElect, Held, u
  <2> QED BY <2>1, <2>2
<1>TailAnswers.
      ASSUME NEW d, NEW te, GoodAnswers(d, te), te # << >>
      PROVE  /\ GoodAnswers(d, Tail(te)) /\ Len(Tail(te)) = Len(te) - 1
             /\ 1 \in DOMAIN te /\ Head(te) = te[1] /\ te[1] \in [id : Nat, ok : BOOLEAN]
             /\ Peeled(te)
  <2> USE <1>TailAnswers
  <2>1. te \in Seq([id : Nat, ok : BOOLEAN])
    BY DEF GoodAnswers
  <2>2. /\ Len(te) \in Nat /\ Len(te) # 0 /\ DOMAIN te = 1..Len(te)
        /\ Tail(te) \in Seq([id : Nat, ok : BOOLEAN]) /\ Len(Tail(te)) = Len(te) - 1
        /\ DOMAIN Tail(te) = 1..(Len(te) - 1) /\ Head(te) = te[1]
        /\ \A i \in 1..(Len(te) - 1) : Tail(te)[i] = te[i + 1]
    BY <2>1, SMT
  <2>3. \A i \in DOMAIN Tail(te) : i + 1 \in DOMAIN te /\ Tail(te)[i] = te[i + 1]
    BY <2>2, SMT
  <2>4. 1 \in DOMAIN te /\ te[1] \in [id : Nat, ok : BOOLEAN]
    <3> DEFINE A == [id : Nat, ok : BOOLEAN]
    <3>1. te \in Seq(A)
      BY <2>1
    <3> HIDE DEF A
    <3>2. 1 \in DOMAIN te /\ te[1] \in A
      BY <2>2, <3>1, SMT
    <3> QED BY <3>2 DEF A
  <2>5. \A i \in DOMAIN Tail(te) : te[1].id < te[i + 1].id
    <3>1. \A i \in DOMAIN Tail(te) : 1 < i + 1
      BY <2>2, SMT
    <3> QED BY <2>3, <2>4, <3>1 DEF GoodAnswers
  <2>6. ASSUME NEW i \in DOMAIN te, i # 1 PROVE i - 1 \in DOMAIN Tail(te) /\ Tail(te)[i - 1] = te[i]
    <3>1. i \in 1..Len(te) /\ i - 1 \in 1..(Len(te) - 1) /\ (i - 1) + 1 = i
      BY <2>2, <2>6, SMT
    <3> QED BY <2>2, <3>1
  <2>7. \A i, j \in DOMAIN Tail(te) : i < j => Tail(te)[i].id < Tail(te)[j].id
    <3>1. \A i, j \in DOMAIN Tail(te) : i < j => i + 1 < j + 1
      BY <2>2, SMT
    <3> QED BY <2>3, <3>1 DEF GoodAnswers
  <2>8. \A i \in DOMAIN Tail(te) : Tail(te)[i].id \in DOMAIN d.past
    BY <2>3 DEF GoodAnswers
  <2>9. GoodAnswers(d, Tail(te))
    BY <2>2, <2>7, <2>8 DEF GoodAnswers
  <2>10. Peeled(te)
    BY <2>3, <2>5, <2>6 DEF Peeled
  <2> QED BY <2>2, <2>4, <2>9, <2>10
\* What an answer of the configuration contract does to the phase.
<1>ConfirmPhase.
      ASSUME NEW d, GoodData(d), NEW c, GoodConfig(c), NEW tc, NEW te, te # << >>,
             Phase(d, c, tc, te), Placed(d, c), NEW t, Behind(d, c, t)
      PROVE  LET u == ConfigSetConfirmed(d, Head(te).id, Head(te).ok)
             IN  /\ GoodData(u) /\ Phase(u, c, tc, Tail(te)) /\ Placed(u, c) /\ Behind(u, c, t)
                 /\ Owed(u) = Owed(d) /\ \A a \in Addrs : Kept(u, a) >= Kept(d, a)
                 /\ RecordsStay(d, u)
                 /\ \A id \in DOMAIN d.past \ DOMAIN u.past :
                        d.past[id].vset \notin {c.cur, c.next} /\ Head(te) = [id |-> id, ok |-> FALSE]
  <2> USE <1>ConfirmPhase
  <2> DEFINE m == Head(te)
             u == ConfigSetConfirmed(d, m.id, m.ok)
             at == d.elect.elect_at
  <2>1. GoodAnswers(d, te)
    BY DEF Phase
  <2>2. /\ GoodAnswers(d, Tail(te))
        /\ 1 \in DOMAIN te /\ m = te[1] /\ te[1] \in [id : Nat, ok : BOOLEAN]
        /\ Peeled(te)
    BY <2>1, <1>TailAnswers
  <2> HIDE DEF m
  <2>9. \A j \in DOMAIN Tail(te) : \E i \in DOMAIN te : Tail(te)[j] = te[i]
    BY <2>2 DEF Peeled
  <2>10. \A i \in DOMAIN te : i # 1 => \E j \in DOMAIN Tail(te) : Tail(te)[j] = te[i]
    BY <2>2 DEF Peeled
  <2>11. ASSUME Refused(d, c, tc, te) PROVE \A j \in DOMAIN Tail(te) : Tail(te)[j].ok \/ Tail(te)[j].id = at
    <3>1. \A i \in DOMAIN te : te[i].ok \/ te[i].id = at
      BY <2>11 DEF Refused
    <3> HIDE DEF at
    <3> QED BY <2>9, <3>1
  <2>3. d.elect # NoElect /\ d.elect.finished => d.elect.elect_at \in DOMAIN d.past
    BY DEF Phase, Idle, Proposed, Refused, Agreed, Held
  <2>4. \/ u = d /\ (~ m.ok /\ Held(d) => at # m.id)
        \/ /\ ~ m.ok /\ Held(d) /\ at = m.id
           /\ GoodData(u) /\ u.elect = NoElect /\ u.past = Drop(d.past, m.id)
           /\ u.active_id = d.active_id /\ u.active_hash = d.active_hash
           /\ Owed(u) = Owed(d) /\ \A a \in Addrs : Kept(u, a) >= Kept(d, a)
    BY <2>3, <1>ConfirmKeeps
  <2> HIDE DEF u
  <2>5. NoRefusal(te) => NoRefusal(Tail(te))
    BY <2>2 DEF NoRefusal, Peeled
  <2> DEFINE G == /\ GoodData(u) /\ Phase(u, c, tc, Tail(te)) /\ Placed(u, c) /\ Behind(u, c, t)
                  /\ Owed(u) = Owed(d) /\ \A a \in Addrs : Kept(u, a) >= Kept(d, a)
                  /\ RecordsStay(d, u)
                  /\ \A id \in DOMAIN d.past \ DOMAIN u.past :
                         d.past[id].vset \notin {c.cur, c.next} /\ m = [id |-> id, ok |-> FALSE]
  <2>6. ASSUME u = d, ~ m.ok /\ Held(d) => at # m.id PROVE G
    <3>1. ASSUME Idle(d, c, tc, te) PROVE Idle(d, c, tc, Tail(te))
      BY <2>5, <3>1 DEF Idle
    <3>2. ASSUME Proposed(d, c, tc, te) PROVE Proposed(d, c, tc, Tail(te))
      BY <2>2, <2>5, <3>2 DEF Proposed, Peeled
    <3>3. ASSUME Agreed(d, c, tc, te) PROVE Agreed(d, c, tc, Tail(te))
      BY <2>5, <3>3 DEF Agreed
    <3>4. ASSUME Refused(d, c, tc, te) PROVE Refused(d, c, tc, Tail(te))
      <4>1. PICK i \in DOMAIN te : te[i] = [id |-> at, ok |-> FALSE]
        BY <3>4 DEF Refused
      <4>2. i # 1
        <5>1. te[i].id = at /\ te[i].ok = FALSE
          BY <4>1, SMT
        <5>2. Held(d)
          BY <3>4 DEF Refused
        <5> QED BY <2>2, <2>6, <5>1, <5>2
      <4>3. \E j \in DOMAIN Tail(te) : Tail(te)[j] = [id |-> at, ok |-> FALSE]
        BY <2>10, <4>1, <4>2
      <4> QED BY <2>11, <3>4, <4>3 DEF Refused
    <3>5. Phase(d, c, tc, Tail(te))
      BY <2>2, <3>1, <3>2, <3>3, <3>4 DEF Phase
    <3>6. RecordsStay(d, d) /\ DOMAIN d.past \ DOMAIN d.past = {}
      BY SameStay
    <3>7. \A a \in Addrs : Kept(d, a) >= Kept(d, a)
      BY AmountTypes
    <3> QED BY <2>6, <3>5, <3>6, <3>7
  <2>7. ASSUME /\ ~ m.ok /\ Held(d) /\ at = m.id
               /\ GoodData(u) /\ u.elect = NoElect /\ u.past = Drop(d.past, m.id)
               /\ u.active_id = d.active_id /\ u.active_hash = d.active_hash
               /\ Owed(u) = Owed(d) /\ \A a \in Addrs : Kept(u, a) >= Kept(d, a)
        PROVE G
    <3>1. ~ NoRefusal(te)
      BY <2>2, <2>7 DEF NoRefusal
    <3>2. Refused(d, c, tc, te)
      BY <3>1 DEF Phase, Idle, Proposed, Agreed
    <3>3. \A id \in DOMAIN d.past : d.past[id].bonuses \in Nat
      BY BookTypes, RecordSums
    <3>4. /\ DOMAIN u.past = DOMAIN d.past \ {at}
          /\ \A id \in DOMAIN u.past : u.past[id] = d.past[id]
      BY <2>7 DEF Drop
    <3>5. \A i \in DOMAIN Tail(te) : Tail(te)[i].id # at
      <4>1. \A i \in DOMAIN Tail(te) : Tail(te)[i].id \in Nat
        BY <2>2, BookTypes DEF GoodAnswers
      <4>2. te[1].id = at /\ te[1].id \in Nat
        BY <2>2, <2>7
      <4> QED BY <2>2, <4>2, NotLess DEF Peeled
    <3>6. NoRefusal(Tail(te))
      BY <2>11, <3>2, <3>5 DEF NoRefusal
    <3>7. Idle(u, c, tc, Tail(te))
      BY <2>7, <3>2, <3>6 DEF Idle, Refused
    <3>8. GoodAnswers(u, Tail(te))
      BY <2>2, <3>4, <3>5 DEF GoodAnswers
    <3>9. Placed(u, c)
      BY <3>4 DEF Placed
    <3>10. Behind(u, c, t)
      BY <2>7 DEF Behind
    <3>11. RecordsStay(d, u)
      BY <3>4, SameBonuses DEF RecordsStay
    <3>12. at \in DOMAIN d.past /\ at >= c.cur.until /\ c.next = NoVset
      BY <3>2 DEF Refused, Held
    <3>13. d.past[at].vset \notin {c.cur, c.next}
      BY <3>12, NotCurrent
    <3>14. m = [id |-> at, ok |-> FALSE]
      <4>1. m.ok = FALSE
        BY <2>2, <2>7
      <4>2. m = [id |-> m.id, ok |-> m.ok]
        BY <2>2
      <4> QED BY <2>7, <4>1, <4>2
    <3>15. \A id \in DOMAIN d.past \ DOMAIN u.past : id = at
      BY <3>4
    <3>16. \A id \in DOMAIN d.past \ DOMAIN u.past :
               d.past[id].vset \notin {c.cur, c.next} /\ m = [id |-> id, ok |-> FALSE]
      BY <3>13, <3>14, <3>15
    <3> QED BY <2>7, <3>7, <3>8, <3>9, <3>10, <3>11, <3>16 DEF Phase
  <2>8. G
    BY <2>4, <2>6, <2>7
  <2> QED BY <2>8 DEF u, m
<1> SUFFICES ASSUME IInv, Confirmed PROVE Stepped
  OBVIOUS
<1> DEFINE m == Head(to_elector)
<1>1. /\ GoodData(data) /\ GoodConfig(config) /\ Phase(data, config, to_config, to_elector)
      /\ Placed(data, config) /\ Behind(data, config, now) /\ balance \in Nat /\ claim \in [Addrs -> Int]
  BY DEF IInv
<1>2. /\ to_elector # << >> /\ data' = ConfigSetConfirmed(data, m.id, m.ok)
      /\ balance' = balance + VsetValue /\ to_elector' = Tail(to_elector)
      /\ UNCHANGED <<seqno, now, config, seen, to_config, claim>>
  BY DEF Confirmed
<1>3. /\ GoodData(data') /\ Phase(data', config, to_config, Tail(to_elector))
      /\ Placed(data', config) /\ Behind(data', config, now)
      /\ Owed(data') = Owed(data) /\ \A a \in Addrs : Kept(data', a) >= Kept(data, a)
      /\ RecordsStay(data, data')
      /\ \A id \in DOMAIN data.past \ DOMAIN data'.past :
             data.past[id].vset \notin {config.cur, config.next} /\ m = [id |-> id, ok |-> FALSE]
  BY <1>1, <1>2, <1>ConfirmPhase
<1> HIDE DEF m
<1>4. Len(Tail(to_elector)) = Len(to_elector) - 1
  BY <1>1, <1>2, <1>TailAnswers DEF Phase
<1>5. Len(to_elector) \in Nat /\ Len(to_config) \in Nat /\ VsetValue \in Nat /\ InTransit \in Nat
  BY <1>1, OneOnItsWay, Transit DEF InTransit
<1>6. balance' + InTransit' = balance + InTransit /\ balance' \in Nat
  <2>1. \A x, y, v \in Int : v * (x + (y - 1)) = v * (x + y) - v
    BY SMT
  <2>2. InTransit' = VsetValue * (Len(to_config) + (Len(to_elector) - 1))
    BY <1>2, <1>4 DEF InTransit
  <2>3. InTransit' = InTransit - VsetValue
    BY <1>5, <2>1, <2>2, SMT DEF InTransit
  <2> QED BY <1>1, <1>2, <1>5, <2>3, Moved
<1>7. IInv'
  BY <1>1, <1>2, <1>3, <1>6 DEF IInv, Solvent
<1>8. \A a \in Addrs : Kept(data', a) - claim'[a] >= Kept(data, a) - claim[a]
  <2>1. \A a \in Addrs : Kept(data, a) \in Nat /\ Kept(data', a) \in Nat /\ claim[a] \in Int
    BY <1>1, <1>3, AmountTypes
  <2>2. \A a \in Addrs : Kept(data', a) >= Kept(data, a) /\ claim'[a] = claim[a]
    BY <1>2, <1>3
  <2> QED BY <2>1, <2>2, SubMore
<1> QED BY <1>2, <1>3, <1>7, <1>8 DEF Stepped, m

\* The end of a block and the begin of the next.
LEMMA BlockStep ==
    ASSUME Laws
    PROVE  \A t \in Nat :
               /\ IInv
               /\ now <= t
               /\ t <= now + MaxGap
               /\ Block(t)
               => Stepped
       \* The configuration changes and everything stays in place.
<1>TurnKeeps.
      ASSUME NEW c, GoodConfig(c), NEW n \in Nat, NEW e, Turned(c, e, n)
      PROVE  /\ GoodConfig(e) /\ (e.next # NoVset => e.next.since > n)
             /\ c.cur.until <= e.cur.until
             /\ \/ e = c
                \/ /\ e.cur = c.next /\ e.next = NoVset /\ c.next # NoVset
                   /\ c.cur.until <= n
  <2> USE <1>TurnKeeps
  <2>1. /\ c \in [cur : Vset, next : Vset \cup {NoVset}] /\ c.cur \in Vset /\ c.next \in Vset \cup {NoVset}
        /\ c.cur.since \in Nat /\ c.cur.until \in Nat /\ c.cur.since < c.cur.until
    BY VsetTimes DEF GoodConfig
  <2>2. CASE c.next # NoVset /\ c.next.since <= n
    <3>1. e = [cur |-> c.next, next |-> NoVset]
      BY <2>2 DEF Turned
    <3>2. c.next \in Vset /\ c.next.since \in Nat /\ c.next.until \in Nat
      BY <2>1, <2>2, VsetTimes
    <3>3. c.next.since >= c.cur.until /\ c.next.since < c.next.until
      BY <2>2 DEF GoodConfig
    <3>4. e.cur = c.next /\ e.next = NoVset /\ e \in [cur : Vset, next : Vset \cup {NoVset}]
      BY <3>1, <3>2
    <3>5. GoodConfig(e)
      BY <3>3, <3>4 DEF GoodConfig
    <3> QED BY <2>1, <2>2, <3>2, <3>3, <3>4, <3>5, SMTT(30)
  <2>3. CASE ~ (c.next # NoVset /\ c.next.since <= n)
    <3>1. e = c
      BY <2>3 DEF Turned
    <3>2. c.next # NoVset => c.next.since \in Nat
      BY <2>1, VsetTimes
    <3> QED BY <2>1, <2>3, <3>1, <3>2, SMT
  <2> QED BY <2>2, <2>3
<1>TurnPhase.
      ASSUME NEW d, GoodData(d), NEW c, GoodConfig(c), NEW n \in Nat, NEW e, Turned(c, e, n),
             NEW tc, NEW te, Phase(d, c, tc, te), Placed(d, c), Behind(d, c, n)
      PROVE  Phase(d, e, tc, te) /\ Placed(d, e) /\ Behind(d, e, n)
  <2> USE <1>TurnPhase
  <2>1. /\ GoodConfig(e) /\ c.cur.until <= e.cur.until
        /\ \/ e = c
           \/ /\ e.cur = c.next /\ e.next = NoVset /\ c.next # NoVset
              /\ c.cur.until <= n
    BY <1>TurnKeeps
  <2>2. CASE e = c
    BY <2>2
  <2>3. CASE e.cur = c.next /\ e.next = NoVset /\ c.next # NoVset /\ c.cur.until <= n
    <3>1. Phase(d, e, tc, te)
      <4>1. ~ Proposed(d, c, tc, te) /\ ~ Refused(d, c, tc, te)
        BY <2>3 DEF Proposed, Refused
      <4>2. CASE Idle(d, c, tc, te)
        BY <2>3, <4>2 DEF Idle, Phase
      <4>3. CASE Agreed(d, c, tc, te)
        BY <2>3, <4>3 DEF Agreed, Phase
      <4> QED BY <4>1, <4>2, <4>3 DEF Phase
    <3>2. c.cur.until \in Nat /\ e.cur.until \in Nat
      BY <2>1, VsetTimes DEF GoodConfig
    <3>3. Placed(d, e)
      <4>1. ASSUME NEW id \in DOMAIN d.past
            PROVE  \/ d.past[id].vset.until <= e.cur.until
                   \/ d.past[id].vset = e.next
                   \/ Held(d) /\ id = d.elect.elect_at
        <5>1. d.past[id].vset.until \in Nat
          BY BookTypes, RecordTypes
        <5>2. CASE d.past[id].vset.until <= c.cur.until
          BY <2>1, <3>2, <5>1, <5>2, LeLe
        <5>3. CASE d.past[id].vset = c.next
          BY <2>3, <3>2, <5>3, SMT
        <5> QED BY <5>2, <5>3 DEF Placed
      <4> QED BY <4>1 DEF Placed
    <3>4. Behind(d, e, n)
      <4>1. CASE d.active_hash = c.cur
        BY <2>1, <2>3, <4>1 DEF Behind
      <4>2. CASE d.active_hash = NoVset
        BY <4>2 DEF Behind
      <4>3. CASE d.active_hash # NoVset /\ d.active_hash.until <= n /\ d.active_hash.until <= c.cur.until
        <5>1. d.active_hash.until \in Nat
          BY <4>3, VsetTimes DEF GoodData, GoodActive
        <5>2. d.active_hash.until <= e.cur.until
          BY <2>1, <3>2, <4>3, <5>1, LeLe
        <5> QED BY <4>3, <5>2 DEF Behind
      <4> QED BY <4>1, <4>2, <4>3 DEF Behind
    <3> QED BY <3>1, <3>3, <3>4
  <2> QED BY <2>1, <2>2, <2>3
\* A set that has ended is not the active one any more.
<1>BehindEnded.
      ASSUME NEW d, GoodData(d), NEW c, NEW n \in Nat, NEW t \in Nat, n <= t, Behind(d, c, n)
      PROVE  Ended(d, t, c) /\ Behind(d, c, t)
  <2> USE <1>BehindEnded
  <2>1. CASE d.active_hash \in {c.cur, NoVset}
    <3>1. ASSUME c.cur # d.active_hash, d.active_id \in DOMAIN d.past PROVE FALSE
      <4>1. d.past[d.active_id].vset = d.active_hash /\ d.past[d.active_id].vset \in Vset
        BY <3>1, BookTypes, RecordTypes DEF GoodData, GoodActive
      <4> QED BY <2>1, <3>1, <4>1, VsetTimes
    <3> QED BY <2>1, <3>1 DEF Ended, Behind
  <2>2. CASE /\ d.active_hash \notin {c.cur, NoVset}
             /\ d.active_hash.until <= n /\ d.active_hash.until <= c.cur.until
    <3>1. d.active_hash \in Vset /\ d.active_hash.until \in Nat
      BY <2>2, VsetTimes DEF GoodData, GoodActive
    <3>2. d.active_hash.until <= t
      BY <2>2, <3>1, SMT
    <3>3. d.active_id \in DOMAIN d.past => d.past[d.active_id].vset = d.active_hash
      BY DEF GoodData, GoodActive
    <3> QED BY <2>2, <3>2, <3>3 DEF Ended, Behind
  <2> QED BY <2>1, <2>2 DEF Behind
<1> SUFFICES ASSUME IInv, NEW t \in Nat, now <= t, t <= now + MaxGap, Block(t)
             PROVE  Stepped
  OBVIOUS
<1> DEFINE c == Tock(config)
           able == balance >= VsetValue
           u == RunTicktock(data, t, c, able)
           sent == IF Conducts(data, t) /\ able
                     THEN Append(to_config, [id |-> data.elect.elect_at, vset |-> ElectedVset(data, t)])
                     ELSE to_config
<1>1. /\ GoodData(data) /\ GoodConfig(config) /\ Phase(data, config, to_config, to_elector)
      /\ Placed(data, config) /\ Behind(data, config, now)
      /\ balance \in Nat /\ now \in Nat /\ seqno \in {0, 1} /\ claim \in [Addrs -> Int]
  BY DEF IInv
<1>2. /\ config' = c /\ seen' = c /\ seqno' = 1 - seqno /\ now' = t /\ data' = u
      /\ balance' = balance - (IF Sends(t) THEN VsetValue ELSE 0)
      /\ to_config' = sent /\ to_elector' = to_elector /\ claim' = claim
      /\ InTime(to_config, to_elector, t)
  BY DEF Block, Sends, InTime
<1>3. Turned(config, c, now)
  BY DEF Turned, Tock
<1>4. able \in BOOLEAN
  BY SMT
<1> HIDE DEF c
<1>5. GoodConfig(c) /\ (c.next # NoVset => c.next.since > now)
  BY <1>1, <1>3, <1>TurnKeeps
<1>6. Phase(data, c, to_config, to_elector) /\ Placed(data, c) /\ Behind(data, c, now)
  BY <1>1, <1>3, <1>TurnPhase
<1>7. Ended(data, t, c) /\ Behind(data, c, t)
  BY <1>1, <1>6, <1>BehindEnded
<1>8. Ready(data, c, to_config, to_elector, t)
  BY <1>1, <1>2, <1>5, <1>6, <1>7 DEF Ready
<1> HIDE DEF able
<1>9. Done(data, u, c, sent, to_elector, t)
  BY <1>4, <1>8, TickKeeps
<1> HIDE DEF u
<1>10. /\ GoodData(u) /\ Phase(u, c, sent, to_elector) /\ Placed(u, c) /\ Behind(u, c, t)
       /\ Owed(u) <= Owed(data) /\ (NotCut(data) => \A a \in Addrs : Kept(u, a) >= Kept(data, a))
       /\ RecordsStay(data, u)
       /\ \A id \in DOMAIN data.past \ DOMAIN u.past :
              data.past[id].unfreeze_at <= t /\ data.past[id].vset # c.cur
  BY <1>9 DEF Done
<1>11. /\ Len(to_elector) \in Nat /\ Len(to_config) \in Nat /\ VsetValue \in Nat /\ InTransit \in Nat
       /\ (to_config = << >> \/ \E m : to_config = << m >>)
  BY <1>1, OneOnItsWay, Transit DEF InTransit
<1>12. balance' \in Nat /\ balance' + InTransit' = balance + InTransit
  <2>1. CASE Sends(t)
    <3>1. Conducts(data, t) /\ able /\ balance >= VsetValue
      BY <2>1 DEF Sends, able
    <3>2. Len(sent) = Len(to_config) + 1
      <4> DEFINE m == [id |-> data.elect.elect_at, vset |-> ElectedVset(data, t)]
      <4>1. sent = Append(to_config, m)
        BY <3>1
      <4> HIDE DEF m, sent
      <4>2. CASE to_config = << >>
        BY <4>1, <4>2, SMT
      <4>3. CASE \E x : to_config = << x >>
        BY <4>1, <4>3, SMT
      <4> QED BY <1>11, <4>2, <4>3
    <3> HIDE DEF sent
    <3>3. \A x, y, v \in Int : v * ((x + 1) + y) = v * (x + y) + v
      BY SMT
    <3>4. InTransit' = VsetValue * ((Len(to_config) + 1) + Len(to_elector))
      BY <1>2, <3>2 DEF InTransit
    <3>5. InTransit' = InTransit + VsetValue
      BY <1>11, <3>3, <3>4, SMT DEF InTransit
    <3>6. balance' = balance - VsetValue
      BY <1>2, <2>1
    <3> QED BY <1>1, <1>11, <3>1, <3>5, <3>6, SMT
  <2>2. CASE ~ Sends(t)
    <3>1. sent = to_config
      BY <2>2 DEF Sends, able
    <3> HIDE DEF sent
    <3>2. InTransit' = InTransit
      BY <1>2, <3>1 DEF InTransit
    <3>3. balance' = balance
      BY <1>1, <1>2, <2>2, SMT
    <3> QED BY <1>1, <1>11, <3>2, <3>3
  <2> QED BY <2>1, <2>2
<1> HIDE DEF sent
<1>13. Solvent'
  <2>1. Owed(data) \in Nat /\ Owed(data') \in Nat
    BY <1>1, <1>2, <1>10, BookTypes
  <2>2. Owed(data) <= balance + InTransit /\ Owed(data') <= Owed(data)
    BY <1>2, <1>10 DEF IInv, Solvent
  <2>3. Owed(data') <= balance' + InTransit'
    BY <1>1, <1>11, <1>12, <2>1, <2>2, SMTT(30)
  <2> QED BY <2>3 DEF Solvent
<1>14. seqno' \in {0, 1} /\ seen' \in [cur : Vset, next : Vset \cup {NoVset}]
  BY <1>1, <1>2, <1>5, SMT DEF GoodConfig
<1>15. IInv'
  BY <1>1, <1>2, <1>5, <1>10, <1>12, <1>13, <1>14 DEF IInv
<1>16. ASSUME NEW id \in DOMAIN data.past \ DOMAIN data'.past
       PROVE  data.past[id].vset \notin {config'.cur, config'.next} /\ now' >= data.past[id].unfreeze_at
  <2> DEFINE r == data.past[id]
  <2>1. id \in DOMAIN data.past /\ r.unfreeze_at <= t /\ r.vset # c.cur
    BY <1>2, <1>10
  <2>2. id \in Nat /\ GoodRecord(id, r)
    BY <1>1, <2>1, BookTypes
  <2>3. /\ r.vset \in Vset /\ r.unfreeze_at \in Nat /\ r.vset.since \in Nat
        /\ r.unfreeze_at >= r.vset.since + ElectFor + StakeHeld
    <3>1. /\ r.unfreeze_at \in Nat /\ r.vset \in Vset /\ r.vset.since \in Nat /\ r.vset.until \in Nat
          /\ ElectFor \in Nat /\ StakeHeld \in Nat
      BY <2>2, RecordTypes
    <3> QED BY <2>2, <3>1 DEF GoodRecord
  <2>4. MaxGap \in Nat /\ ElectFor \in Nat /\ StakeHeld \in Nat /\ MaxGap < ElectFor + StakeHeld
    BY ElectionsAssumption, ElectorAssumption
  <2>5. ASSUME r.vset = c.next PROVE FALSE
    <3>1. c.next # NoVset
      BY <2>3, <2>5, VsetTimes
    <3>2. r.vset.since > now
      BY <1>5, <2>5, <3>1
    <3> QED BY <1>1, <2>1, <2>3, <2>4, <3>2, NotYet
  <2>6. t >= r.unfreeze_at
    BY <2>1, <2>3
  <2> QED BY <1>2, <2>1, <2>5, <2>6
<1>17. ASSUME NotCut(data) PROVE \A a \in Addrs : Kept(data', a) - claim'[a] >= Kept(data, a) - claim[a]
  <2>1. \A a \in Addrs : Kept(data, a) \in Nat /\ Kept(data', a) \in Nat /\ claim[a] \in Int
    BY <1>1, <1>2, <1>10, AmountTypes
  <2>2. \A a \in Addrs : Kept(data', a) >= Kept(data, a) /\ claim'[a] = claim[a]
    BY <1>2, <1>10, <1>17
  <2> QED BY <2>1, <2>2, SubMore
<1> QED BY <1>2, <1>10, <1>15, <1>16, <1>17 DEF Stepped

\* Every step of Next.
LEMMA NextStep == ASSUME Laws, IInv, Next PROVE Stepped
<1>1. Stakers \subseteq Addrs \X Keys /\ Values \subseteq Nat /\ Factors \subseteq Nat /\ Confirms \subseteq BOOLEAN
  BY ElectionsAssumption
<1>2. ASSUME NEW s \in Stakers, NEW factor \in Factors, NEW value \in Values, NEW confirm \in Confirms,
             NewStake(s[1], s[2], factor, value, confirm)
      PROVE  Stepped
  <2>1. s[1] \in Addrs /\ s[2] \in Keys /\ factor \in Nat /\ value \in Nat
    BY <1>1
  <2>2. confirm \in BOOLEAN
    BY <1>1
  <2> QED BY <1>2, <2>1, <2>2, StakeStep
<1>3. ASSUME NEW value \in Fees, BlockFees(value) \/ Donate(value) PROVE Stepped
  <2>1. value \in Nat
    BY ElectionsAssumption
  <2> QED BY <1>3, <2>1, GramsStep
<1>4. ASSUME NextBlock PROVE Stepped
  <2>1. PICK gap \in 1..MaxGap : Block(Lesser(now + gap, Greater(now, MaxTime)))
    BY <1>4 DEF NextBlock
  <2> DEFINE t == Lesser(now + gap, Greater(now, MaxTime))
  <2>2. now \in Nat /\ MaxGap \in Nat /\ MaxTime \in Nat
    BY ElectionsAssumption DEF IInv
  <2>3. t \in Nat /\ now <= t /\ t <= now + MaxGap
    BY <2>2, SMT DEF Lesser, Greater
  <2> HIDE DEF t
  <2>4. Block(t)
    BY <2>1 DEF t
  <2> QED BY <2>3, <2>4, BlockStep
<1>5. ASSUME NEW addr \in Addrs, Recover(addr) PROVE Stepped
  BY <1>5, RecoverStep
<1> QED BY <1>2, <1>3, <1>4, <1>5, ReplyStep, ConfirmedStep DEF Next

-----------------------------------------------------------------------------
\* No stake exceeds the greatest one.
NoneCut == NotCut(data)

\* At first nothing is claimed.
LEMMA KeptAtFirst == ASSUME Laws, Init, IInv PROVE StakesKept
<1>1. ASSUME NEW a \in Addrs PROVE claim[a] <= data.credits[a] + StakedBy(data, a)
  <2>1. claim[a] = 0
    BY DEF Init
  <2>2. Kept(data, a) \in Nat
    BY AmountTypes DEF IInv
  <2> QED BY <2>1, <2>2, SMT DEF Kept
<1> QED BY <1>1 DEF StakesKept

\* A step leaves every staker at least what it leaves to claim.
LEMMA KeptByStep == ASSUME Laws, IInv, IInv', NoneCut, StakesKept, [Next]_vars PROVE StakesKept'
<1>1. ASSUME Next PROVE StakesKept'
  <2>1. \A a \in Addrs : Kept(data', a) - claim'[a] >= Kept(data, a) - claim[a]
    BY <1>1, NextStep DEF Stepped, NoneCut
  <2>2. \A a \in Addrs : /\ Kept(data, a) \in Nat /\ Kept(data', a) \in Nat
                         /\ claim[a] \in Int /\ claim'[a] \in Int
    BY AmountTypes DEF IInv
  <2>3. \A a \in Addrs : claim[a] <= Kept(data, a)
    BY DEF StakesKept, Kept
  <2>4. \A a \in Addrs : claim'[a] <= Kept(data', a)
    BY <2>1, <2>2, <2>3, SMTT(30)
  <2> QED BY <2>4 DEF StakesKept, Kept
<1>2. ASSUME UNCHANGED vars PROVE StakesKept'
  BY <1>2, ZenonT(60) DEF vars, StakesKept, StakedBy, FrozenOf, StakeOfAddr
<1> QED BY <1>1, <1>2

-----------------------------------------------------------------------------
\* The proofs of the laws of finite sets and sums.
SumProofs == INSTANCE Sums

\* The laws that the lemmas take as a hypothesis are the ones that module Sums proves: both
\* say the same once every definition is expanded.
LEMMA LawsHold == Laws
  BY SumProofs!SumLawsHold, ZenonT(60)
  DEF SumProofs!Laws, Laws, SumProofs!LeastLaw, LeastLaw, SumProofs!DivLaw, DivLaw,
      SumProofs!EmptyLaw, EmptyLaw, SumProofs!CardinalityLaw, CardinalityLaw,
      SumProofs!AddLaw, AddLaw, SumProofs!SubsetLaw, SubsetLaw, SumProofs!IntervalLaw,
      IntervalLaw, SumProofs!InjectionLaw, InjectionLaw, SumProofs!SumEmptyLaw,
      SumEmptyLaw, SumProofs!SumIntLaw, SumIntLaw, SumProofs!SumNatLaw, SumNatLaw,
      SumProofs!SumSameLaw, SumSameLaw, SumProofs!SumLeqLaw, SumLeqLaw,
      SumProofs!SumScaledLaw, SumScaledLaw, SumProofs!SumMultipleLaw, SumMultipleLaw,
      SumProofs!SumPlusLaw, SumPlusLaw, SumProofs!SumMemberLaw, SumMemberLaw,
      SumProofs!SumAtLeastLaw, SumAtLeastLaw, SumProofs!SumChangeLaw, SumChangeLaw,
      SumProofs!SumGroupsLaw, SumGroupsLaw, SumProofs!SumExtendedLaw, SumExtendedLaw,
      SumProofs!SumReducedLaw, SumReducedLaw, SumProofs!SumImageLaw, SumImageLaw,
      SumProofs!SumPaddedLaw, SumPaddedLaw, SumProofs!SumPutLaw, SumPutLaw,
      SumProofs!RoundedLaw, RoundedLaw, SumProofs!OneChanged, OneChanged,
      SumProofs!Grouped, Grouped, SumProofs!OneMore, OneMore, SumProofs!OneLess,
      OneLess, SumProofs!Enumerates, Enumerates, SumProofs!Padded, Padded,
      SumProofs!OnePut, OnePut, SumProofs!Rounded, Rounded, SumProofs!IsFiniteSet,
      IsFiniteSet, SumProofs!Cardinality, Cardinality, SumProofs!Injection, Injection,
      SumProofs!Surjection, Surjection, SumProofs!IsInjective, IsInjective,
      SumProofs!SumFunctionOnSet, SumFunctionOnSet, SumProofs!FoldFunctionOnSet,
      FoldFunctionOnSet, SumProofs!MapThenFoldSet, MapThenFoldSet

\* The invariant: the elector's books, the phases of elections and the balance stay
\* consistent through every message and every tick.
THEOREM ElectionsInvariant == Spec => []IInv
<1>1. Init => IInv
  BY LawsHold, InitGood
<1>2. IInv /\ [Next]_vars => IInv'
  BY LawsHold, NextStep, StutterGood DEF Stepped
<1> QED BY <1>1, <1>2, PTL DEF Spec

\* The data keeps the form of pack_elect and store_data, and no amount becomes negative.
THEOREM ElectionsTypeOK == Spec => []TypeOK
<1>1. IInv => TypeOK
  BY LawsHold, TypeFollows
<1> QED BY <1>1, ElectionsInvariant, PTL

\* The stakes, credits, bonuses and grams in the books never exceed the balance and the
\* grams that travel with validator sets.
THEOREM ElectionsSolvent == Spec => []Solvent
<1>1. IInv => Solvent
  BY DEF IInv
<1> QED BY <1>1, ElectionsInvariant, PTL

\* Exceptions 57 and 59 are never thrown: the totals of the records and of the open
\* elections are right, and the active record is the one of the active validator set.
THEOREM ElectionsBooksAgree == Spec => []BooksAgree
<1>1. IInv => BooksAgree
  BY LawsHold, BooksFollow
<1> QED BY <1>1, ElectionsInvariant, PTL

\* A recovery can always be paid at once, when the least total stake of elections is not
\* less than the grams that travel with a validator set (recover_stake, line 310).
THEOREM ElectionsRecoverPayable ==
    VsetValue <= MinTotalStake => (Spec => []RecoverPayable)
<1> SUFFICES ASSUME VsetValue <= MinTotalStake PROVE Spec => []RecoverPayable
  OBVIOUS
<1>1. IInv => RecoverPayable
  BY LawsHold, PayableFollows
<1> QED BY <1>1, ElectionsInvariant, PTL

\* No staker loses anything as long as no stake exceeds the greatest one (of a greater one
\* try_elect takes the greatest and credits nothing): what an address has staked and not
\* recovered is at stake, frozen or credited to it.
THEOREM ElectionsStakesKept == Spec /\ []NoneCut => []StakesKept
<1>1. Init /\ IInv => StakesKept
  BY LawsHold, KeptAtFirst
<1>2. IInv /\ IInv' /\ NoneCut /\ StakesKept /\ [Next]_vars => StakesKept'
  BY LawsHold, KeptByStep
<1> QED BY <1>1, <1>2, ElectionsInvariant, PTL DEF Spec

\* The record of elections is never replaced: neither a tick nor a message changes its
\* stakes or its validator set, and its bonuses only grow, until it is unfrozen.
THEOREM ElectionsRecordsFinal == Spec => RecordsFinal
<1> DEFINE Final == \A id \in DOMAIN data.past \cap DOMAIN data'.past :
                        LET r == data.past[id]
                            q == data'.past[id]
                        IN  q.vset = r.vset /\ q.frozen = r.frozen /\ q.bonuses >= r.bonuses
<1>1. ASSUME IInv, Next PROVE Final
  BY <1>1, LawsHold, NextStep DEF Stepped, RecordsStay
<1>2. IInv /\ [Next]_vars => [Final]_vars
  BY <1>1
<1> QED BY <1>2, ElectionsInvariant, PTL DEF Spec, RecordsFinal

\* check_unfreeze and config_set_confirmed end the record of a validator set only when
\* the set is neither current nor next, and then only at its time or because the
\* configuration contract refused it.
THEOREM ElectionsFrozenWhileValidating == Spec => FrozenWhileValidating
<1> DEFINE Gone == \A id \in DOMAIN data.past \ DOMAIN data'.past :
                      /\ data.past[id].vset \notin {config'.cur, config'.next}
                      /\ \/ now' >= data.past[id].unfreeze_at
                         \/ to_elector # << >> /\ Head(to_elector) = [id |-> id, ok |-> FALSE]
<1>1. ASSUME IInv, Next PROVE Gone
  BY <1>1, LawsHold, NextStep DEF Stepped
<1>2. IInv /\ [Next]_vars => [Gone]_vars
  BY <1>1
<1> QED BY <1>2, ElectionsInvariant, PTL DEF Spec, FrozenWhileValidating

=============================================================================
