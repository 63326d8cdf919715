------------------------------- MODULE Elector -------------------------------
(***************************************************************************)
(* The elector contract (crypto/smartcont/elector-code.fc) as operators on *)
(* its data.  An operator that models a function of the contract takes the *)
(* data d, and where the function asks for them the time t of the block    *)
(* and the configuration c that the block sees, and returns the data the   *)
(* function leaves.  Elections composes them into transactions.            *)
(* Amounts are whole grams; a validator set is the cell itself, so that    *)
(* comparing hashes is comparing sets.                                     *)
(***************************************************************************)
EXTENDS Integers, Sequences, FiniteSets, FiniteSetsExt, Functions

CONSTANTS
    Keys,           \* public keys of validators (integers)
    Addrs,          \* masterchain addresses that stake
    ElectFor, BeginBefore, EndBefore, StakeHeld,    \* configuration parameter 15
    MaxValidators, MinValidators,                   \* configuration parameter 16
    MinStake, MaxStake, MinTotalStake, MaxStakeFactor,  \* configuration parameter 17
    FactorOne,      \* the factor 1.0, 65536 in the code
    Share,          \* smallest share of the total stake, 4096 in the code
    WeightOne,      \* the weight of a whole validator set, 2^60 in the code
    BonusShare,     \* the part of "grams" a new set gets is one over it, 8 in the code
    Grace,          \* the minute of conduct_elections and announce_new_elections
    ConfirmValue,   \* the gram kept from a stake to confirm it
    NoElect, NoVset \* null cells

(* A dictionary, a member, a frozen stake, a validator set, the data of     *)
(* pack_elect and of a record of past elections.                            *)
IsDict(f, K, V) == DOMAIN f \subseteq K /\ f \in [DOMAIN f -> V]
Member == [stake : Nat, time : Nat, factor : Nat, addr : Addrs]
Frozen == [addr : Addrs, stake : Nat]
Vset == [since : Nat, until : Nat, list : Seq(Keys \X Nat)]
Election(dicts) ==
    [elect_at : Nat, elect_close : Int, min_stake : Nat, total_stake : Nat,
     members : dicts, failed : BOOLEAN, finished : BOOLEAN]
Record(dicts) ==
    [unfreeze_at : Nat, stake_held : Nat, vset : Vset, frozen : dicts, stakes : Nat, bonuses : Nat]
IsElection(e) == e \in Election({e.members}) /\ IsDict(e.members, Keys, Member)
IsRecord(r) == r \in Record({r.frozen}) /\ IsDict(r.frozen, Keys, Frozen)

ASSUME ElectorAssumption ==
    /\ Keys \subseteq Nat \ {0} /\ IsFiniteSet(Keys) /\ IsFiniteSet(Addrs)
    /\ ElectFor \in Nat \ {0}
    /\ {BeginBefore, EndBefore, StakeHeld, Grace} \subseteq Nat
    /\ EndBefore <= BeginBefore
    /\ {MaxValidators, MinValidators, MinTotalStake, MaxStakeFactor} \subseteq Nat
    /\ {MinStake, MaxStake, FactorOne, Share, WeightOne, BonusShare, ConfirmValue} \subseteq Nat \ {0}
    /\ NoElect \notin Election(UNION {[S -> Member] : S \in SUBSET Keys}) /\ NoVset \notin Vset

Put(f, k, v) == [x \in DOMAIN f \cup {k} |-> IF x = k THEN v ELSE f[x]]
Drop(f, k) == [x \in DOMAIN f \ {k} |-> f[x]]
Stakes(f) == [k \in DOMAIN f |-> f[k].stake]
StakeSum(f) == SumFunction(Stakes(f))
OwnedBy(f, addr) == {k \in DOMAIN f : f[k].addr = addr}
Lesser(a, b) == IF a <= b THEN a ELSE b
Greater(a, b) == IF a >= b THEN a ELSE b

EmptyData ==
    [elect |-> NoElect, credits |-> [a \in Addrs |-> 0], past |-> << >>,
     grams |-> 0, active_id |-> 0, active_hash |-> NoVset]

(***************************************************************************)
(* process_new_stake.  Every refusal returns the whole value of the        *)
(* message and leaves no trace.                                            *)
(***************************************************************************)
(* Mutant: a second stake replaces the first.                               *)
LastStakeOnly(d, key, value) == value - ConfirmValue

StakeOf(d, key, value) ==
    value - ConfirmValue
        + IF key \in DOMAIN d.elect.members THEN d.elect.members[key].stake ELSE 0

AcceptsStake(d, addr, key, stake_at, factor, value) ==
    /\ d.elect # NoElect                                            \* reason 0
    /\ factor >= FactorOne                                          \* reason 6
    /\ (value - ConfirmValue) * Share >= d.elect.total_stake        \* reason 2
    /\ stake_at = d.elect.elect_at                                  \* reason 3
    /\ ~d.elect.finished                                            \* reason 0
    /\ key \in DOMAIN d.elect.members => d.elect.members[key].addr = addr  \* reason 4
    /\ StakeOf(d, key, value) >= d.elect.min_stake                  \* reason 5
    /\ StakeOf(d, key, value) # 0                                   \* exception 44

ProcessNewStake(d, t, addr, key, factor, value) ==
    [d EXCEPT !.elect =
        [d.elect EXCEPT !.total_stake = @ + value - ConfirmValue,
                        !.members = Put(@, key, [stake |-> StakeOf(d, key, value), time |-> t,
                                                 factor |-> factor, addr |-> addr]),
                        !.failed = FALSE, !.finished = FALSE]]

(***************************************************************************)
(* unfreeze_without_bonuses, unfreeze_with_bonuses, unfreeze_all: the      *)
(* stakes of a record and their shares of its bonuses are credited, what   *)
(* the division leaves goes to "grams".  No stake is ever banned.          *)
(***************************************************************************)
BonusOf(r) ==
    [k \in DOMAIN r.frozen |->
        IF r.bonuses > 0 THEN (r.bonuses * r.frozen[k].stake) \div r.stakes ELSE 0]

Refund(r) == [k \in DOMAIN r.frozen |-> r.frozen[k].stake + BonusOf(r)[k]]

Returned(r, addr) == SumFunctionOnSet(Refund(r), OwnedBy(r.frozen, addr))

UnusedPrizes(r) == r.bonuses - SumFunction(BonusOf(r))

(* The condition of exception 59.                                           *)
RecordAddsUp(r) == StakeSum(r.frozen) = r.stakes /\ UnusedPrizes(r) >= 0

UnfreezeAll(d, id) ==
    IF id \notin DOMAIN d.past THEN d
    ELSE LET r == d.past[id] IN
         [d EXCEPT !.credits = [a \in Addrs |-> @[a] + Returned(r, a)],
                   !.past = Drop(@, id),
                   !.grams = @ + UnusedPrizes(r)]

UnfreezeThrows(d, id) == id \in DOMAIN d.past /\ ~RecordAddsUp(d.past[id])

(***************************************************************************)
(* try_elect.  The stakes in decreasing order, of equal ones the earlier   *)
(* first, cut to MaxStake; of the numbers of validators that reach the     *)
(* greatest total of effective stakes the smallest is taken.               *)
(***************************************************************************)
Ahead(members, k1, k2) ==
    LET a == members[k1]
        b == members[k2]
    IN  \/ a.stake > b.stake
        \/ a.stake = b.stake /\ a.time < b.time
        \/ a.stake = b.stake /\ a.time = b.time /\ k1 >= k2

Place(members, k) == Cardinality({j \in DOMAIN members : Ahead(members, j, k)})

Ranking(members) ==
    [i \in 1..Cardinality(DOMAIN members) |-> CHOOSE k \in DOMAIN members : Place(members, k) = i]

CutStake(m) == Lesser(m.stake, MaxStake)

(* The stake of m in a set whose least stake is low.                        *)
EffectiveStake(m, low) ==
    Lesser(CutStake(m), (Lesser(m.factor, MaxStakeFactor) * low) \div FactorOne)

TotalStake(members, l, i) ==
    SumFunction([j \in 1..i |-> EffectiveStake(members[l[j]], CutStake(members[l[i]]))])

(* The number of validators elected, 0 when the elections fail.             *)
Elected(members) ==
    LET l == Ranking(members)
        n == Lesser(Cardinality(DOMAIN members), MaxValidators)
        tot == [i \in 1..n |-> TotalStake(members, l, i)]
        eligible == {i \in Greater(MinValidators, 1)..n :
                        CutStake(members[l[i]]) >= MinStake /\ tot[i] > 0}
        best == {i \in eligible : \A j \in eligible : tot[j] <= tot[i]}
    IN  IF best = {} THEN 0
        ELSE LET m == Min(best) IN IF tot[m] < MinTotalStake THEN 0 ELSE m

FrozenStakes(members, m) ==
    LET l == Ranking(members)
        low == CutStake(members[l[m]])
    IN  [k \in {l[i] : i \in 1..m} |->
            [addr |-> members[k].addr, stake |-> EffectiveStake(members[k], low)]]

(* Mutants: the subtraction the wrong way round; the frozen part credited   *)
(* too; nothing credited to the elected.                                    *)
UnusedNegated(members, frozen, k) ==
    (IF k \in DOMAIN frozen THEN frozen[k].stake ELSE 0) - CutStake(members[k])
FrozenCreditedToo(members, frozen, k) == CutStake(members[k])
LosersOnly(members, frozen, k) == IF k \in DOMAIN frozen THEN 0 ELSE CutStake(members[k])

(* What is credited at once: the part of a stake (as cut) that is not frozen. *)
UnusedStake(members, frozen, k) ==
    CutStake(members[k]) - IF k \in DOMAIN frozen THEN frozen[k].stake ELSE 0

CreditUnused(credits, members, frozen) ==
    LET unused == [k \in DOMAIN members |-> UnusedStake(members, frozen, k)]
    IN  [a \in Addrs |-> credits[a] + SumFunctionOnSet(unused, OwnedBy(members, a))]

(***************************************************************************)
(* conduct_elections: whether elections can be held, their failure, and    *)
(* the data when a validator set is elected.                               *)
(***************************************************************************)
ElectionsDue(d, t) ==
    /\ t >= d.elect.elect_close
    /\ d.elect.total_stake >= MinTotalStake
    /\ ~d.elect.failed
    /\ ~d.elect.finished

ElectedVset(d, t) ==
    LET l == Ranking(d.elect.members)
        m == Elected(d.elect.members)
        frozen == FrozenStakes(d.elect.members, m)
        start == Greater(t + EndBefore - Grace, d.elect.elect_at)
    IN  [since |-> start, until |-> start + ElectFor,
         list |-> [i \in 1..m |->
                     <<l[i], (frozen[l[i]].stake * WeightOne) \div StakeSum(frozen)>>]]

ElectionsFail(d) ==
    [d EXCEPT !.elect = [@ EXCEPT !.min_stake = MinStake, !.failed = TRUE]]

ElectionsSucceed(d, t) ==
    LET members == d.elect.members
        frozen == FrozenStakes(members, Elected(members))
        vset == ElectedVset(d, t)
    IN  [d EXCEPT
            !.elect = [@ EXCEPT !.min_stake = MinStake, !.finished = TRUE],
            !.credits = CreditUnused(@, members, frozen),
            !.past = Put(@, d.elect.elect_at,
                         [unfreeze_at |-> vset.until + StakeHeld, stake_held |-> StakeHeld,
                          vset |-> vset, frozen |-> frozen,
                          stakes |-> StakeSum(frozen), bonuses |-> 0])]

(***************************************************************************)
(* update_active_vset_id: when the current validator set has changed, the  *)
(* stakes of the old one are held for StakeHeld from now on, and the new   *)
(* one gets a part of "grams" as bonuses.                                  *)
(***************************************************************************)
(* Mutant: the record is written back without its bonuses.                  *)
ReleaseForgetsBonuses(d, t) ==
    IF d.active_id \in DOMAIN d.past
      THEN [d EXCEPT !.past[d.active_id].unfreeze_at = t + d.past[d.active_id].stake_held,
                     !.past[d.active_id].bonuses = 0]
      ELSE d

Release(d, t) ==
    IF d.active_id \in DOMAIN d.past
      THEN [d EXCEPT !.past[d.active_id].unfreeze_at = t + d.past[d.active_id].stake_held]
      ELSE d

(* The condition of exception 57.                                           *)
ReleaseThrows(d) ==
    /\ d.active_id \in DOMAIN d.past
    /\ d.past[d.active_id].vset # d.active_hash

Activate(d, c) ==
    LET ids == {id \in DOMAIN d.past : d.past[id].vset = c.cur}
    IN  IF ids = {}
          THEN [d EXCEPT !.active_id = 0, !.active_hash = c.cur]
          ELSE [d EXCEPT !.active_id = Min(ids), !.active_hash = c.cur,
                         !.past[Min(ids)].bonuses = @ + d.grams \div BonusShare,
                         !.grams = @ - @ \div BonusShare]

(* An exception leaves the data as it was before the transaction, old.      *)
UpdateActive(old, d, t, c) ==
    CASE c.cur = d.active_hash -> d
      [] c.cur # d.active_hash /\ ReleaseThrows(d) -> old
      [] OTHER -> Activate(Release(d, t), c)

(***************************************************************************)
(* validator_set_installed, announce_new_elections, check_unfreeze.        *)
(***************************************************************************)
Installed(d, c) ==
    /\ d.elect.finished
    /\ d.elect.elect_at \in DOMAIN d.past
    /\ d.past[d.elect.elect_at].vset \in {c.cur, c.next}

ForgetElections(d) == [d EXCEPT !.elect = NoElect]

MayAnnounce(t, c) == c.next = NoVset /\ t >= c.cur.until - BeginBefore

Announce(d, t, c) ==
    LET t0 == c.cur.until - BeginBefore
        at == BeginBefore + IF t - t0 < Grace THEN t0 ELSE t
    IN  [d EXCEPT !.elect =
            [elect_at |-> at, elect_close |-> at - EndBefore, min_stake |-> MinStake,
             total_stake |-> 0, members |-> << >>, failed |-> FALSE, finished |-> FALSE]]

(* Mutants: the time not compared; the active set not left out.             *)
MaturedAtOnce(d, t) == DOMAIN d.past \ {d.active_id}
MaturedActive(d, t) == {id \in DOMAIN d.past : d.past[id].unfreeze_at <= t}

Matured(d, t) == {id \in DOMAIN d.past : d.past[id].unfreeze_at <= t /\ id # d.active_id}

(* Only one record at a time.                                               *)
CheckUnfreeze(old, d, t) ==
    CASE Matured(d, t) = {} -> d
      [] Matured(d, t) # {} /\ UnfreezeThrows(d, Min(Matured(d, t))) -> old
      [] OTHER -> UnfreezeAll(d, Min(Matured(d, t)))

(***************************************************************************)
(* run_ticktock.  Each part returns true to end the transaction.  sendable *)
(* says whether the account can pay for the message to the configuration   *)
(* contract; otherwise the action phase undoes the elections.              *)
(***************************************************************************)
Conducts(d, t) ==
    d.elect # NoElect /\ ElectionsDue(d, t) /\ Elected(d.elect.members) # 0

(* Mutant: nothing is unfrozen while elections are open.                    *)
LaterIdle(old, d, t, c) ==
    CASE c.cur # d.active_hash -> UpdateActive(old, d, t, c)
      [] c.cur = d.active_hash /\ d.elect # NoElect -> d
      [] OTHER -> CheckUnfreeze(old, d, t)

Later(old, d, t, c) ==
    IF c.cur # d.active_hash THEN UpdateActive(old, d, t, c) ELSE CheckUnfreeze(old, d, t)

RunTicktock(d, t, c, sendable) ==
    CASE d.elect = NoElect /\ MayAnnounce(t, c) -> Announce(d, t, c)
      [] d.elect = NoElect /\ ~MayAnnounce(t, c) -> Later(d, d, t, c)
      [] Conducts(d, t) -> IF sendable THEN ElectionsSucceed(d, t) ELSE d
      [] d.elect # NoElect /\ ~Conducts(d, t) /\ ElectionsDue(d, t) ->
            Later(d, ElectionsFail(d), t, c)
      [] d.elect # NoElect /\ ~ElectionsDue(d, t) /\ Installed(d, c) ->
            UpdateActive(d, ForgetElections(d), t, c)
      [] OTHER -> Later(d, d, t, c)

(***************************************************************************)
(* config_set_confirmed, process_simple_transfer, recover_stake.           *)
(***************************************************************************)
(* Mutant: refused elections are not forgotten.                             *)
RefusalKeepsElections(d, id, ok) ==
    IF d.elect # NoElect /\ d.elect.elect_at = id /\ d.elect.finished /\ ~ok
      THEN UnfreezeAll(d, id)
      ELSE d

ConfigSetConfirmed(d, id, ok) ==
    IF /\ d.elect # NoElect
       /\ d.elect.elect_at = id
       /\ d.elect.finished
       /\ ~ok
       /\ ~UnfreezeThrows(d, id)
      THEN ForgetElections(UnfreezeAll(d, id))
      ELSE d

CollectFees(d, value) ==
    IF d.active_id \in DOMAIN d.past
      THEN [d EXCEPT !.past[d.active_id].bonuses = @ + value]
      ELSE [d EXCEPT !.grams = @ + value]

Transfer(d, value) == [d EXCEPT !.grams = @ + value]

RecoverStake(d, addr) == [d EXCEPT !.credits[addr] = 0]
=============================================================================
