------------------------------ MODULE Elections ------------------------------
(***************************************************************************)
(* Validator elections: the elector (module Elector), the part of the      *)
(* configuration contract (crypto/smartcont/config-code.fc) that installs  *)
(* validator sets, the messages between them, the stakers and the blocks   *)
(* of the masterchain.  Both contracts are special accounts: they pay      *)
(* neither gas nor forwarding fees.                                        *)
(***************************************************************************)
EXTENDS Elector

CONSTANTS
    Stakers,        \* who stakes for which key: pairs of an address and a key
    Values,         \* values of messages with stakes
    Factors,        \* factors of stakes
    Confirms,       \* whether a stake has a query id
    Fees,           \* validator fees of a block, plain transfers
    VsetValue,      \* grams that travel with a validator set, 2^30 nanograms
    Genesis,        \* the validator set of the zerostate
    MaxGap,         \* bound: longest time between two blocks
    MaxDelay,       \* bound: delay of messages between the contracts
    MaxTime,        \* bound: the clock stops here (blocks go on)
    MaxBalance      \* bound: grams the elector gets

ASSUME ElectionsAssumption ==
    /\ Stakers \subseteq Addrs \X Keys /\ Values \subseteq Nat /\ Factors \subseteq Nat /\ Confirms \subseteq BOOLEAN /\ Fees \subseteq Nat \ {0}
    /\ VsetValue \in Nat \ {0}
    /\ Genesis \in Vset /\ Genesis.since < Genesis.until
    /\ {MaxGap, MaxDelay, MaxTime, MaxBalance} \subseteq Nat
    /\ MaxGap < ElectFor + StakeHeld /\ MaxDelay <= ElectFor

VARIABLES
    seqno,          \* the parity of the number of the current block
    now,            \* the time of the current block
    data,           \* the data of the elector
    balance,        \* the grams of the elector
    config,         \* parameters 34 (cur) and 36 (next) in the configuration contract
    seen,           \* the same as the transactions of the current block see them
    to_config,      \* messages on their way, in order: validator sets
    to_elector,     \* and answers
    claim           \* history: what an address has staked minus what it has recovered

vars == <<seqno, now, data, balance, config, seen, to_config, to_elector, claim>>

Init ==
    /\ seqno = 0
    /\ now = 0
    /\ data = EmptyData
    /\ balance = 0
    /\ config = [cur |-> Genesis, next |-> NoVset]
    /\ seen = config
    /\ to_config = << >> /\ to_elector = << >>
    /\ claim = [a \in Addrs |-> 0]

(* A stake with a valid signature; the confirmation is sent when there is a *)
(* query id, otherwise its gram stays with the elector.                     *)
NewStake(addr, key, factor, value, confirm) ==
    /\ AcceptsStake(data, addr, key, data.elect.elect_at, factor, value)
    /\ data' = ProcessNewStake(data, now, addr, key, factor, value)
    /\ balance + value <= MaxBalance
    /\ balance' = balance + value - IF confirm THEN ConfirmValue ELSE 0
    /\ claim' = [claim EXCEPT ![addr] = @ + value - ConfirmValue]
    /\ UNCHANGED <<seqno, now, config, seen, to_config, to_elector>>

(* recover_stake pays with mode 64; a credit the account cannot pay fails   *)
(* in the action phase, and the data stays.                                 *)
Recover(addr) ==
    /\ data.credits[addr] > 0
    /\ data.credits[addr] <= balance
    /\ data' = RecoverStake(data, addr)
    /\ balance' = balance - data.credits[addr]
    /\ claim' = [claim EXCEPT ![addr] = @ - data.credits[addr]]
    /\ UNCHANGED <<seqno, now, config, seen, to_config, to_elector>>

(* The fees of a block come from the address -1:0, other transfers from     *)
(* anywhere: both are process_simple_transfer.                              *)
BlockFees(value) ==
    /\ data' = CollectFees(data, value)
    /\ balance + value <= MaxBalance
    /\ balance' = balance + value
    /\ UNCHANGED <<seqno, now, config, seen, to_config, to_elector, claim>>

Donate(value) ==
    /\ data' = Transfer(data, value)
    /\ balance + value <= MaxBalance
    /\ balance' = balance + value
    /\ UNCHANGED <<seqno, now, config, seen, to_config, to_elector, claim>>

(* recv_internal of the configuration contract: the answer returns the      *)
(* value of the message.                                                    *)
AcceptsVset(vset) == vset.since > now /\ vset.until > vset.since

SetNextVset ==
    /\ to_config # << >>
    /\ LET msg == Head(to_config) IN
       /\ config' = IF AcceptsVset(msg.vset) THEN [config EXCEPT !.next = msg.vset] ELSE config
       /\ to_elector' = Append(to_elector, [id |-> msg.id, ok |-> AcceptsVset(msg.vset)])
    /\ to_config' = Tail(to_config)
    /\ UNCHANGED <<seqno, now, data, balance, seen, claim>>

Confirmed ==
    /\ to_elector # << >>
    /\ data' = ConfigSetConfirmed(data, Head(to_elector).id, Head(to_elector).ok)
    /\ balance' = balance + VsetValue
    /\ to_elector' = Tail(to_elector)
    /\ UNCHANGED <<seqno, now, config, seen, to_config, claim>>

(* run_ticktock of the configuration contract, at the end of a block.       *)
Tock(c) == IF c.next # NoVset /\ c.next.since <= now THEN [cur |-> c.next, next |-> NoVset] ELSE c

(* The end of a block (tock of the configuration contract) and the begin of *)
(* the next (tick of the elector, which sees the configuration as the last  *)
(* block left it).                                                          *)
Sends(t) == Conducts(data, t) /\ balance >= VsetValue

Block(t) ==
    /\ \A i \in DOMAIN to_config : t < to_config[i].id + MaxDelay
    /\ \A i \in DOMAIN to_elector : t < to_elector[i].id + MaxDelay
    /\ config' = Tock(config)
    /\ seen' = Tock(config)
    /\ seqno' = 1 - seqno
    /\ now' = t
    /\ data' = RunTicktock(data, t, Tock(config), balance >= VsetValue)
    /\ balance' = balance - IF Sends(t) THEN VsetValue ELSE 0
    /\ to_config' = IF Sends(t)
                      THEN Append(to_config, [id |-> data.elect.elect_at,
                                              vset |-> ElectedVset(data, t)])
                      ELSE to_config
    /\ UNCHANGED <<to_elector, claim>>

NextBlock ==
    \E gap \in 1..MaxGap : Block(Lesser(now + gap, Greater(now, MaxTime)))

Next ==
    \/ \E s \in Stakers, factor \in Factors, value \in Values,
          confirm \in Confirms : NewStake(s[1], s[2], factor, value, confirm)
    \/ \E addr \in Addrs : Recover(addr)
    \/ \E value \in Fees : BlockFees(value)
    \/ \E value \in Fees : Donate(value)
    \/ SetNextVset
    \/ Confirmed
    \/ NextBlock

Spec == Init /\ [][Next]_vars

(* Blocks go on, and a message between two masterchain accounts is          *)
(* delivered: the collator imports the queue of messages in every block.    *)
FairSpec ==
    /\ Spec
    /\ []<><<seqno' # seqno>>_vars
    /\ []<>(to_config = << >>)
    /\ []<>(to_elector = << >>)

-----------------------------------------------------------------------------

(* The data of the elector has the form pack_elect and store_data give it:  *)
(* no amount is ever negative (store_grams would throw).                    *)
TypeOK ==
    /\ seqno \in {0, 1} /\ now \in Nat /\ balance \in Nat
    /\ data.elect = NoElect \/ IsElection(data.elect)
    /\ data.credits \in [Addrs -> Nat]
    /\ DOMAIN data.past \subseteq Nat /\ \A id \in DOMAIN data.past : IsRecord(data.past[id])
    /\ data.grams \in Nat /\ data.active_id \in Nat /\ data.active_hash \in Vset \cup {NoVset}
    /\ {config, seen} \subseteq [cur : Vset, next : Vset \cup {NoVset}]
    /\ to_config \in Seq([id : Nat, vset : Vset]) /\ to_elector \in Seq([id : Nat, ok : BOOLEAN])
    /\ claim \in [Addrs -> Int]

(* What the books d of the elector say it owes.                             *)
Open(d) == d.elect # NoElect /\ ~d.elect.finished
AtStake(d) == IF Open(d) THEN StakeSum(d.elect.members) ELSE 0
Worth(d) == [id \in DOMAIN d.past |-> d.past[id].stakes + d.past[id].bonuses]
Owed(d) == AtStake(d) + SumFunction(d.credits) + d.grams + SumFunction(Worth(d))

InTransit == VsetValue * (Len(to_config) + Len(to_elector))

(* The elector is solvent: the stakes, credits, bonuses and grams in its    *)
(* books never exceed its balance and the grams that travel with validator  *)
(* sets, through merged stakes, elections, refusals and unfreezing.         *)
Solvent == Owed(data) <= balance + InTransit

(* A recovery can always be paid at once, although part of the balance may  *)
(* be on its way to the configuration contract (recover_stake, line 310).   *)
RecoverPayable == \A a \in Addrs : data.credits[a] <= balance

(* The books agree with each other: the totals of records and elections are *)
(* the sums of their stakes, and the active record is the one of the active *)
(* validator set.  So exceptions 57 and 59 are never thrown; either would   *)
(* stop every later tick of the elector.                                    *)
BooksAgree ==
    /\ \A id \in DOMAIN data.past : RecordAddsUp(data.past[id])
    /\ ~ReleaseThrows(data)
    /\ data.elect # NoElect => data.elect.total_stake = StakeSum(data.elect.members)

(* What an address has in open elections and in the records.                *)
StakeOfAddr(f, a) == SumFunctionOnSet(Stakes(f), OwnedBy(f, a))
FrozenOf(d, a) == [id \in DOMAIN d.past |-> StakeOfAddr(d.past[id].frozen, a)]
StakedBy(d, a) ==
    SumFunction(FrozenOf(d, a)) + IF Open(d) THEN StakeOfAddr(d.elect.members, a) ELSE 0

(* No staker loses anything: what an address has staked and not recovered   *)
(* is at stake, frozen or credited to it ("non-zero unused part of the      *)
(* stake, credit to the source address", line 513).                         *)
StakesKept == \A a \in Addrs : claim[a] <= data.credits[a] + StakedBy(data, a)

(* The stakes of a validator set stay frozen as long as it may validate:    *)
(* its record goes only when the set is neither current nor next, and then  *)
(* only StakeHeld after the set was last active, or because the             *)
(* configuration contract refused it.                                       *)
FrozenWhileValidating ==
    [][\A id \in DOMAIN data.past \ DOMAIN data'.past :
          /\ data.past[id].vset \notin {config'.cur, config'.next}
          /\ \/ now' >= data.past[id].unfreeze_at
             \/ to_elector # << >> /\ Head(to_elector) = [id |-> id, ok |-> FALSE]]_vars

(* The record of elections is never replaced: its stakes and its validator  *)
(* set stay, its bonuses only grow, until it is unfrozen.                   *)
RecordsFinal ==
    [][\A id \in DOMAIN data.past \cap DOMAIN data'.past :
          LET r == data.past[id]
              q == data'.past[id]
          IN  q.vset = r.vset /\ q.frozen = r.frozen /\ q.bonuses >= r.bonuses]_vars

(* Stakes come back: although a tick does at most one thing and unfreezes   *)
(* one record at most, again and again no record is left whose time has     *)
(* come and whose set is not active.                                        *)
MaturedUnfreezes == []<>(Matured(data, now) = {})

(* Elections that are held come to an end: their set is installed or        *)
(* refused, and the elector forgets them.                                   *)
ElectionsEnd ==
    (data.elect # NoElect /\ data.elect.finished)
        ~> (data.elect = NoElect \/ ~data.elect.finished)
=============================================================================
