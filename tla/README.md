# Verification of the TON staking pool and the node below it

TLA+ models of the staking pool that this repository adds to the TON node (`staking/`), of the
validator elections the staked grams go to, and of three protocols of the node on which all of
it runs: the validator session, the catchain and the ADNL peers. TLC checks the models on small
instances, and TLAPS proofs hold for every value of the constants. Paths are relative to the
repository; `fc:N` is line N of `staking/smartcont/staking-pool-code.fc`.

## 1. The system

| Part | Source | Role | Here |
| --- | --- | --- | --- |
| Pool contract | `staking/smartcont/staking-pool-code.fc` | takes deposits, keeps subscriptions and one performance record per period, redeems, commands the nominators | `StakingPool` |
| Owner's wallet | `staking/smartcont/wallet3-code.fc`, `staking-smc-envelope/WalletV3.cpp` | signed messages with seqno and time limit | `OwnerWallet` |
| Owner's console | `staking/staking/tonpool-cli.cpp` | deploys the contracts, signs messages for the wallet | `OwnerWallet` (part) |
| Transaction executor | `crypto/block/transaction.cpp`, `validator/impl/collator.cpp` | credit, compute, action and bounce phase | inside both models |
| Elector | `crypto/smartcont/elector-code.fc` | takes stakes, elects validator sets, freezes and returns stakes | `Elector`, `Elections` |
| Configuration contract | `crypto/smartcont/config-code.fc` | installs validator sets | `Elections` (part) |
| Validator session | `validator-session/` | validators agree on the next block | `SessionState`, `ValidatorSession`, `Voting` |
| Catchain | `catchain/` | carries the messages of a session in blocks that depend on each other | `Catchain` |
| ADNL peers | `adnl/adnl-peer.cpp`, `adnl-peer-table.cpp` | packets and channels between two nodes | `AdnlPeer` |
| Nominator contract | `staking/smartcont/nominator-code.fc` | stakes grams with the elector, reports balances | open environment of the pool |
| JSON-RPC server, envelopes, frontend, tests, rest of the node | the rest | display, serialization, upstream code | not modelled (section 7) |

**How they interact.** The pool pays subscribers and is meant to send grams to nominators, which
stake them with the elector. The elector sends each elected validator set to the configuration
contract and learns from its answer, and from the configuration later blocks see, what became of it.
The elected validators run sessions; what a node says in a session is the payload of its catchain
blocks, so that the state of the session is a function of blocks that are delivered in causal order.
Catchain blocks travel in ADNL packets. Each layer is modelled against what the layer below
promises: the session assumes causal delivery and no forks of honest nodes, which `Catchain` checks;
the catchain and the wallet assume of the network nothing but that it invents no messages.

**State of the staking part.** The pool stores the number of the open period, its configuration (fees, owner,
pending owner), the dictionaries of nominators, performance records and subscriptions, and
per subscriber a dictionary from periods to subscription ids. The wallet stores a seqno.

**Operations of the pool.** External init message; plain transfer (subscribe); text or
order to redeem; the owner's NEWP (close the period), AWLT (status of a nominator),
TRNS/WTDR (move grams to and from nominators), UPDB (fetch balances), SETC (configuration
and change of owner); a nominator's GTBL (report). Everything else is refused or kept.

**Interactions.** Subscribers and the owner send messages to the pool; the pool pays
subscribers, and is meant to exchange requests and reports with the nominators. The console
reads the wallet's state and sends signed messages over a network that gives no guarantee. Elections
meet stakers, the two contracts with messages between them, and blocks that come at uneven times.

**What makes it hard.** Orders of several parties interleave within a period whose amounts
decide a rate; divisions round down and divide by rates that are zero until a period is
closed; a transaction can fail in the code (data kept, value bounced) or in the action phase
(data kept, value kept); gas may exceed the value of a message; one configuration order can
carry several options; external messages are repeated, reordered, late or lost, and are
accepted again when a transaction fails after `accept_message`. The elector does one thing per tick,
sees the configuration of the last block, and an exception in its tick repeats in every later one.
Validators know different parts of each other's blocks and still have to compute the same state;
nodes crash between two writes; packets of an earlier incarnation arrive after a restart.

## 2. Modules

| Module | Content |
| --- | --- |
| `StakingPool` | the pool: one action per handler and outcome, invariants and action properties |
| `PoolSolvency` | invariants that sum over subscriptions |
| `SubscriptionLedger` | abstract specification: what becomes of a subscription |
| `PoolDocs` | a statement of the documentation that the code does not keep |
| `MCStakingPool` | values of the constants for TLC |
| `StakingPoolProofs` | inductive invariant of the pool, what follows from it, refinement of the ledger, records cover subscriptions |
| `SumLaws`, `Sums` | the laws of finite sets and sums as formulas, and their proofs by minimal counterexamples |
| `OwnerWallet`, `MCOwnerWallet` | the wallet with its console and network, and its instance for TLC |
| `OwnerWalletProofs` | replay protection |
| `Elector` | the elector's functions as operators on its data |
| `Elections`, `MCElections` | transactions of elector and configuration contract, blocks, stakers; properties; instance for TLC |
| `ElectorProofs`, `ElectionsProofs` | the inductive invariant of elections and what the elector's operators do to it; the steps and the theorems |
| `SessionState` | the session state as operators: messages, next action of a node, merge |
| `ValidatorSession`, `MCSession` | nodes that make blocks from what they know; properties; instance for TLC |
| `Voting`, `VotingProofs` | abstract specification of one round, and its proof of agreement |
| `Catchain`, `MCCatchain`, `CatchainProofs` | receiver, database and catchain of every node; instance; no forks, recovery, exact heights, no blame |
| `AdnlPeer`, `MCAdnl`, `AdnlProofs` | two nodes and the network; instance; signed packets are delivered once and in order, channels in use are readable |

### StakingPool

One action is one transaction. `v` is the value of the inbound message and `g` the gas fee;
`Keep`, `Unsent` and `Thrown` are the three ways a transaction that pays nothing out can end:
value kept, action phase failed, exception (with or without a bounce). `Payable` and
`Affordable` are the executor's checks of a send; the pool sends with mode 64, so a payout
carries the rest of the inbound value (`SendValue`).

| Variable | Code |
| --- | --- |
| `current_period`, `config`, `nominators`, `performance`, `subscriptions`, `subscribers` | the fields of `pack_state` and `pack_pool_config` (fc:5-94) |
| `balance` | grams on the account |
| `outbox` | messages of the last transaction (what left the pool) |

| Action | Code |
| --- | --- |
| `Fund`, `TryInit` | transfers before deployment; `try_init` (fc:542-607) |
| `Subscribe`, `SubscribeThrows` | `process_new_subscription` (fc:185-228) |
| `RedeemEarly`, `RedeemMatured`, `RedeemMaturedUnsent`, `RedeemMaturedThrows` | `process_redeem` (fc:132-183) |
| `NewPeriod`, `NewPeriodThrows` | `process_new_period` (fc:230-286) |
| `ActivateWallet` | `process_activate_wallet` (fc:289-307) |
| `FetchBalances`, `FetchBalancesUnsent` | `process_fetch_balances` (fc:311-342) |
| `GotBalance` | `process_got_balance` (fc:345-366) |
| `SetConfig` | `process_set_config` (fc:368-415) |
| `TransferToWallet` | `process_transfer_to_wallet` and the withdrawal order (fc:417-463) |
| `TopUp`, `Reject` | the remaining branches of `recv_internal` (fc:480-539) |

Points a reader of the code may want to check:

* `get_address_slice` (fc:124-128) writes the address tag 0110. Internal addresses start with
  10 or 11 (`crypto/block/block.tlb`), so a message to such an address is an invalid action,
  and the executor fails the whole action phase (`transaction.cpp:1079`). Therefore an early
  redemption (its penalty goes to such an address, fc:155) and a fetch with active nominators
  (fc:331) always end as `Unsent`. The payout of a matured subscription uses the sender's own
  address and is not affected.
* The subscriber dictionary is written with 16-bit and searched with 32-bit keys (fc:204-218):
  the search never finds an entry, and throws once there are two (`SearchThrows`).
* `pending_owner` of the deployment data is copied from behind an empty string
  (`StakingPool.cpp:86`): `Init` leaves it open; `try_init` resets it.
* TRNS and WTDR throw whether the nominator is known or not (fc:430, fc:454): the handler has
  no successful outcome, and `TransferSends` states its contradictory condition.
* `RedeemEarly` has no action for a negative deposits counter, because
  `DepositsCoverSubscriptions` shows that it cannot occur.
* `GotBalance` accepts a report from every listed address at any time. The code never asks for
  one successfully, so this allows more than the deployed system does.

### OwnerWallet

The console reads the wallet's seqno (`send_request`, or tonlib for a transfer), signs a
message and sends it. `inflight` keeps every signed message, and `Deliver` may take any of
them any number of times, or never: loss, duplication, delay and reordering need no actions
of their own. The message contains only what was read, so a slow console is a slow network,
and one action for reading and signing loses no behaviour.

`Accepts` holds the checks of `recv_external` before `accept_message`. `Execute` is the rest of
the handler: a gift that cannot be paid is skipped (mode 3, or 131 for the whole balance), the
seqno advances all the same. `RunOutOfGas` and `SeqnoOverflow` are the failures after
`accept_message`: paid for, but the data stays, so the same message is accepted again. A message
carries at most one gift (`transfer` may have several, which stand and fall with the same seqno).
`executed` and `sent` are history variables.

### Elector and Elections

`Elector` follows `elector-code.fc` function by function: each operator takes the data and returns
what the function leaves. `RunTicktock` composes them in the order of the code, where each part may
end the transaction. A validator set is the cell itself, so that comparing hashes is comparing sets.
An exception (57, 59) leaves the data as it was; `ReleaseThrows` and `UnfreezeThrows` are its
conditions. A stake with a wrong signature, a too small stake and so on are returned whole
and are no actions.

| Action of `Elections` | Code |
| --- | --- |
| `NewStake`, `Recover` | `process_new_stake`, `recover_stake` |
| `BlockFees`, `Donate` | `process_simple_transfer`, from the address of the fees and from others |
| `SetNextVset` | `recv_internal` of the configuration contract, with the answer |
| `Confirmed` | `config_set_confirmed` |
| `NextBlock` | tock of the configuration contract at the end of a block, tick of the elector at the begin of the next (`gen-zerostate.fif:145,237`, `collator.cpp:1633-1674`) |

Both contracts are special accounts and pay no fees (`transaction.cpp`). `seen` is the configuration
that the transactions of the current block read: it changes at the end of a block. `claim` is a
history variable: what an address has staked and not recovered.

### SessionState, ValidatorSession and Voting

`SessionState` has the operators of `validator-session-state.cpp`: `Action` (a message applied to a
state), `CreateAction` (what a node does next) and `Merge`. The persistent vectors of the code are
functions and sets. A candidate is `Skip` or the one block its proposer submits in the round; the
smaller id wins where the code compares hashes. In `ValidatorSession` a step is one catchain block:
`MakeBlock` merges into the node's own state what it knows of others (`Views`), then does what
`process_blocks` does, with any subset of the candidates approved that the node may have validated by
then, and with the signature if the keyring has answered. Blocks with nothing but EMPTY are left
out. `vote` and `pre` are history variables for the refinement of `Voting`, which keeps only votes,
precommits and attempts: a node votes once per attempt, precommits what a quorum has voted for, and
leaves a value it has precommitted only for a newer quorum.

### Catchain

An own block is chosen (`SendProcess`, `ProcessedBlock`), waits (`pending`), is signed (`AddBlock`),
written, named in the database as the last own block (`AddBlockCont2`) and only then delivered and
sent (`AddBlockCont3`). `Commit` stores all writes since the last commit together
(`KeyValueAsync.h`). A received block is delivered at once when its past is there, whether or not it
is committed. `Restart` is a crash at any moment and the start from the committed database. A block is
named by source, height and the life of its source, so that blocks of one height made before and
after a crash differ. A block that waits in a queue between the two actors of a node is a block
received later.

### AdnlPeer

The pair of a node for its peer, the table of channels, and what is on its way between them:
`prepared` (packets handed to the local id for a signature), `mailbox` (channel packets on their way
from the table to the pair) and `todo` (register and unregister calls). `net` keeps every packet that
was sent, and packets are taken from it any number of times or never. A start time stands for an
incarnation and its channel key. `Discover` is an address list found in the DHT. A failed CHECK
ends the process (`up`), which may start again.

## 3. Properties

Of the pool:

* `TypeOK`: no handler stores a negative amount; a record exists for every period.
* `RedemptionRateKnown`: the rates `process_redeem` divides by are never zero.
* `SubscriptionStates`: status, start and end of a subscription agree.
* `DepositsCoverSubscriptions`, `UnitsCoverSubscriptions`: the counters of the open period cover
  the active subscriptions (the latter only without an incentive fee, see `DocIncentive`).
* `ClosedPeriodsFrozen`: the record of a closed period never changes, whenever a report arrives.
* `SubscriptionsFinal` (proved only): subscriptions are never removed, handed over or revived.
* `PaymentsAreRedemptions`: a payment ends exactly one active subscription, goes to its holder and
  costs the pool exactly its worth.
* `NotDriedOut`: if every fee the owner may set covers the gas, the balance falls only by a payment to a
  redeeming subscriber and by the gas of a nominator's report. A report is excepted because
  `process_got_balance` accepts it without asking for a fee (fc:353): a report worth less than its gas does lower
  the balance, in this run too.
* `ForeignStaysForeign`: an address that is no nominator contract keeps status 2.
* `OwnershipTakesTwoSteps`: only the pending owner becomes owner, without a change of fees.
* `ImplementsLedger`: the pool refines `SubscriptionLedger`.

Of the wallet: `TypeOK`; `OneCommandPerSeqno` (one message per seqno, in the order of the seqnos);
`PaidOnce` (no command sends two gifts); `ReplayProtection` (proved only: the inductive form of the two).

Of the elections:

* `TypeOK`: no function of the elector stores a negative amount.
* `Solvent`: stakes, credits, bonuses and grams in the books never exceed the balance and what
  travels with validator sets.
* `RecoverPayable`: a credit can be paid at once, also while grams are on their way.
* `BooksAgree`: totals are the sums of their parts, and the active record is that of the active set, so
  that exceptions 57 and 59, which would stop every later tick, are never thrown.
* `StakesKept`: what an address has staked and not recovered is at stake, frozen or credited to it
  (as long as no stake exceeds the maximal stake, see `DocMaxStake`).
* `FrozenWhileValidating`: the stakes of a set stay frozen while it is current or next, and for
  `StakeHeld` afterwards, unless the configuration contract has refused it.
* `RecordsFinal`: the record of past elections is never replaced, its bonuses only grow.
* `MaturedUnfreezes` (liveness): again and again no record is left that is due.
* `ElectionsEnd` (liveness): elections that are held are forgotten in the end, installed or refused.

Of the validator session:

* `Agreement`: no two states, and no merges of two, hold different blocks for a round.
* `ChecksHold`: whichever two states meet, no CHECK of merge and of the choice of a vote fails.
* `CommittedApproved`: a committed block has the approvals and signatures of a quorum.
* `MergeCommutes`: the merge of two states does not depend on their order.
* `Reproducible`: a block says everything that `make_all` would add to it, so that everybody computes the
  state whose hash is in it.
* `ImplementsVoting`: every block is a step of `Voting`.

Of the catchain:

* `TypeOK`: what the chain knows is delivered with all its past, so that an own block is delivered at once.
* `NoForks`: two blocks of one source and one height are never both sent, although two may be signed.
* `Recoverable`: the database has everything the start reads from the last own block on.
* `NeverIll`: blocks of honest nodes break none of the rules a node is blamed for.
* `HeightsExact`: the heights in a block tell exactly which blocks it descends from.

Of the ADNL peers:

* `TypeOK`: the window has no more bits than the mask, and nothing is confirmed that was not sent.
* `SignedOnce`: an incarnation delivers a signed packet at most once.
* `ReadyReadable`: a channel in use was created by the peer with the same two keys.
* `TableAgrees`: the table of channels and the calls on their way to it are about the channel of the pair, and
  none fails its CHECK.
* `IncarnationsInOrder`: signed packets are delivered in the order of incarnations and only to the one they
  are meant for.

## 4. Runs

Passing runs:

| Run | Question | Bounds | Distinct states |
| --- | --- | --- | --- |
| `PoolAccounting` | subscriptions, redemptions, closes and fetches in every order | owner and two subscribers, 3 periods, 4 subscriptions, balance up to 54 | 75,524 |
| `PoolOwner` | fees, change of owner, nominator status, reports without fee and period ends in every order | two accounts, one genuine and one foreign nominator, 2 periods, gas 3, values 2 and 3 | 146,341 |
| `PoolGas` | gas above the value of a message, unpaid sends, bounces | gas 0 or 8 with a fee of 4, 2 periods | 133,565 |
| `WalletReplay` | late, repeated and reordered messages, failures after acceptance | two pool commands, two transfers, seqno up to 3, clock up to 2 | 91,990 |
| `Elections` | stakes, elections, answers, fees, unfreezing and recoveries with any spacing of blocks; liveness | two stakers, terms of 3, clock up to 11, balance up to 14 | 189,822 |
| `Session` | votes, precommits and locks with any knowledge of each other | three nodes of weight 3, 1, 1; two attempts; one round | 31,526 |
| `Catchain` | crashes between any two steps | two nodes, heights up to 2, four blocks, one node crashes once | 337,361 |
| `Adnl` | loss, duplication, reordering and a restart | window of 2, numbers up to 3, four packets, one node restarts once | 231,902 |

*Pool and wallet.* The amounts are scaled down: a unit costs a few grams, so that divisions leave
remainders and payouts exceed, meet and miss the balance. Three periods are the least in which a
subscription is opened, matures over a closed period and is redeemed while a later one is open; four
subscriptions allow the owner's initial one, two subscribers, and one incentive or repeated subscription.
A seqno limit of 3 is reached with commands left in flight, so that its overflow is met; two uses of each
command give equal seqnos and retries. `Fees` of the wallet may exceed its balance. Uses of the same
command are interchangeable, and `WalletReplay` uses this symmetry; it checks invariants only.

In `PoolOwner` a message may be worth less than the gas or as much, and one of the fees ordered is below the gas and
below `FeeLow`, so that it is refused; two periods are enough for a report that arrives after the close of one.

*Elections.* The clock allows the set of the zerostate and several elected ones, so that a record is
active, released, held and unfrozen while later elections run, and the balance allows three stakes and the fees of a block; elections fail and are repeated, answers
come after the term has begun (and are refusals), and stakes are merged and clipped by the factor. Two
relations between the bounds are assumptions on the network (`ElectionsAssumption`): a gap between
blocks is shorter than a term and the time stakes are held, and a message between the two contracts takes
at most a term. At `MaxTime` the clock stops while blocks go on, which is what the liveness properties
need. The maximal stake is out of reach in this run.

*Session.* The run starts from two situations that the session reaches: all nodes have approved the
block and Skip and know little of each other (`Approving`), and nothing is submitted yet while one node is
ahead (`Starting`). With weights 3, 1, 1 of 5 a quorum is 4: the heavy node and one light one. Attempts 4
and 5 stand for the readings of the clocks (1024 and more in the code), the second is in the slow mode for a
node that started at the first, and VOTEFOR is its only source of a vote. A node
that makes a block knows of another the latest block or nothing new; what is left out by this are crossed
views, where two nodes each know the last block but one of the other. Nodes do not fork or reject a
candidate, and clocks do not run backwards.

*Catchain.* Heights of 2 on both sides are the least in which a block depends on one that depends on it in
turn, and a crash between signing and naming makes a second block of the same height.

*Adnl.* With a window of 2 and three numbers a packet leaves the window; two incarnations give packets of an
old one after a reinit, found by a packet or by an address list.

Violated runs; each checks one statement of the documentation, a comment or an assertion:

| Run | Statement | What the code does |
| --- | --- | --- |
| `DocIncentive` | README.md:102, the new rate is net of the incentive fee | the share is added without being taken off the rate: more units are held than counted (fc:281) |
| `DocRedeem` | README.md:212, "subscriber can redeem Grams anytime" | every early redemption is undone by the action phase (fc:155) |
| `DocMaxStake` | `elector-code.fc:513`, "non-zero unused part of the stake, credit to the source address" | what exceeds the maximal stake is cut off before the unused part is calculated, and credited to nobody (`elector-code.fc:444`) |
| `DocAdnlReady` | `adnl-peer.cpp:474`, `CHECK(!channel_ready_)` | a channel packet that waited during a reinit marks the dropped channel ready (`adnl-peer.cpp:209`), and the CHECK, or the one of `ActorOwn.h:80`, fails |

Further disagreements that have no run: the third subscription of an account throws (README.md:95, fc:204);
a fetch never sends a request to an active nominator (fc:310, fc:331); a new owner without subscriptions
cannot close a profitable period (README.md:220, fc:272); AWLT stores the status under the index of the
nominator (fc:288, fc:303); the console sends the text "111" to a fixed address instead of the pool command
(README.md:192, `tonpool-cli.cpp:1836`); entries of one period are not merged (README.md:95 and 137,
fc:205-218); a subscriber's index names the subscription before the new one (fc:218); `min_amount`
is stored and never enforced (fc:187); the owner's initial subscription is redeemable (fc:594);
configuration orders are taken from workchain -1 only (fc:376); GTBL asks for no fee, unlike every handler with the
comment "do not allow to dry out the pool" (fc:353, the exception in `NotDriedOut`); the
nominator's init message is never accepted, for lack of `accept_message` (`nominator-code.fc:270`).

**Fairness.** Only the elections assume any (`FairSpec`): blocks are made for ever, and the queues
between the two contracts are empty again and again. The elector is run by the tick of every masterchain
block, and the collator imports the queue of messages in every block, so the code gives both. Stakers
and fees are under no fairness. For the pool and the wallet no part of the code retries a message, and
the contracts act only when somebody sends one, so the code justifies no fairness; the session makes
progress only with a network that delivers in time, which no code in this repository promises.

## 5. Proofs

All theorems hold for every value of the constants that satisfies the named assumptions
(`AddressAssumption`, `AmountAssumption`, `ConfigAssumption`, `WalletAssumption`, `AdnlAssumption`,
`CatchainAssumption`, `ElectorAssumption`, `ElectionsAssumption`), which TLC evaluates in the runs;
`VotingAgreement` and `VotingLocks` take `QuorumAssumption` as a hypothesis, which TLC evaluates for the session (`QuorumsIntersect`). They say
that amounts and bounds are natural numbers, the initial rate is positive, the addresses of users and
nominators differ, an address is no small index, there are two ADNL nodes and a window, and any two
quorums share a node.

**Pool** (`StakingPoolProofs`). The inductive invariant is
`Inv == TypeOK /\ RatesKnown /\ SubscriptionStates /\ (Initialised \/ no subscriptions)`.
`TypeOK` alone is not inductive: `RedeemMatured` stores a quotient, which is a number only if the
divisor is not zero. `RatesKnown` says that every closed period has a positive rate; `NewPeriod`
preserves it because it closes a period only at a positive rate. A subscription's start must be a
closed period when it is divided by, which is what `SubscriptionStates` gives. There is one lemma per
action that changes the data; `StepCases` reduces `Next` to them, and the transactions that leave
the data alone are one case. It follows: `PoolTypeCorrect`, `PoolRedemptionRateKnown`,
`PoolSubscriptionStates`.

From `Inv` also follow `PoolClosedPeriodsFrozen`, `PoolSubscriptionsFinal`,
`PoolOwnershipTakesTwoSteps`, `PoolForeignStaysForeign` (with an invariant of its own on the indices
of the records), `PoolPaymentsAreRedemptions`, and `PoolImplementsLedger`: initial states map to
initial states, and every step of the pool is a step of the ledger or leaves it alone.

`PoolNotDriedOut` has the hypothesis `GasCovered`, that the deployed fee and the least fee of a SETC order (fc:378)
cover the gas: then the fee in force always does (`FeeStaysCovering`), so a message that passes the fee check
pays for its transaction, whether the handler ends, throws after `accept_message` or fails in the action phase.

`PoolDepositsCover` and `PoolUnitsCover` say of any number of subscriptions and periods what
`DepositsCoverSubscriptions` and `UnitsCoverSubscriptions` say of the instance; the second assumes, as
the run does, that the owner takes no incentive. Each is an invariant together with `Inv`: a deposit, a
redemption and the close of a period change one summand or regroup the sum, and the close of a period
rounds every subscription down while the pool rounds once (`RoundedLaw`).

**Sums** (`SumLaws`, `Sums`). `SumFunctionOnSet` is a fold, defined by a recursive function on sets, and the
library's induction theorems cannot be used here. `Sums` replaces induction by minimal counterexamples: a set
of naturals that is not empty has a least element (`LeastNumber`, from well-foundedness), so a
family of subsets has a smallest member (`SmallestSubset`), and a statement that holds for the empty set
and for a set with one element more holds for all finite sets (`SetInduction`, with the statement given as the
set of its examples). That the equation of the fold has a solution is shown the same way
(`FoldExists`). `SumLaws` states the results as formulas; the lemmas about pool and elector have their conjunction
`Laws` as a hypothesis, and `LawsHold` discharges it from `SumLawsHold` before the theorems. This is a
library of lemmas and says nothing about the code by itself.

**Wallet** (`OwnerWalletProofs`). `OneCommandPerSeqno` is not inductive: that a delivered message was
not executed before follows from the seqno counting the executed messages, and that a gift was not
sent before from commands being unique among the messages. `ReplayProtection` states these; with
`TypeOK` and `PaidOnce` it is inductive. `WalletTypeCorrect`, `WalletOneCommandPerSeqno`,
`WalletPaidOnce` and `WalletReplayProtection` follow.

**Elections** (`ElectorProofs`, `ElectionsProofs`). None of the properties is inductive. The invariant `IInv` says
* of the books (`GoodData`): totals are the sums of their stakes, a record holds at least the least total stake,
  records follow each other in time, and the active record is the only one of the active validator set;
* of the phase of the elections (`Phase`): none or open, held and their set on its way, refused and the
  answer on its way, or installed; answers on their way are about different records, in order;
* of the records (`Placed`): every set has ended by the end of the current one, or is the next one, or that
  of the elections just held; and of the active set (`Behind`): it is the current one or has ended;
* `Solvent`.

The phases are needed because a refusal must find the record it undoes, and the order of the records because a
tick that notices a new set must not meet the record of another one. `ElectorProofs` shows for every
operator of `Elector` (merging of stakes, `try_elect`, credits and bonuses, unfreezing, activation) what it does
to `GoodData`, to what the books owe (`Owed`) and to what an address has in them (`Kept`); `ElectionsProofs` has
one lemma per action, and `Stepped` collects what every step does. It follows: `ElectionsTypeOK`,
`ElectionsSolvent`, `ElectionsBooksAgree` (exceptions 57 and 59 are never thrown), `ElectionsRecordsFinal` and
`ElectionsFrozenWhileValidating`, without further assumptions. Two theorems have a hypothesis.
`ElectionsRecoverPayable` needs `VsetValue <= MinTotalStake`: each set on its way then has a record worth as
much, and there are no more of them than records (`FewMessages`). A set travels with 2^30 nanograms, about a
gram (`elector-code.fc:76`), and the least total stake of the zerostate is 500000 grams (`gen-zerostate.fif:165`). `ElectionsStakesKept` holds as long as no stake
exceeds the greatest one (`NoneCut`); the run `DocMaxStake` shows what happens otherwise.
`ElectionsAssumption` bounds the gap between blocks by `ElectFor + StakeHeld`, so that the record of a set that has
not begun is never due, and the delay of messages between the contracts by `ElectFor`.

**Voting** (`VotingProofs`). `Agreement` needs that a decision excludes every other one, earlier and
later. `EarlierExcluded` says it backwards: once a quorum has voted for a value in some attempt, every
quorum has a node that is past each earlier attempt and did not precommit anything else there. To
preserve it, the vote that completes a quorum is compared with the lock of the node that both quorums
share (`LocksKept`), which leads to an attempt with another quorum, and so to an earlier instance of
the same statement; `NothingAhead` makes the exclusion permanent, and `PrecommitsVoted` ends the case of
equal attempts. `VotingAgreement` and `VotingLocks` follow. Together with the run's `ImplementsVoting` this
is why the session agrees.

**Catchain** (`CatchainProofs`). `NoForks` is inductive with `UpToRoot`, that nothing of a node was sent
beyond the name in its database, and `Stages`, which follows an own block through its two writes: the
name in the database is that of the last sent block until it is that of the block being added.
`Recoverable` needs more (`RInv`): what the chain may name is delivered and written or about to be
(`Stored`), a commit takes all of the buffer, so that a block reaches the disk together with what it rests on,
the past of a block is closed (`Closed`), and a life signs a height once (`Fresh`).
`HeightsExact` and `TypeOK` add (`HInv`) that the heights of a block are those of its past without a gap
(`Reaches`): one height for a source then stands for all its blocks up to it, and `NoForks` makes the block
of a height unique. That `update_deps` keeps this takes the greatest of finitely many heights (`HeightsMax`,
from a well-founded order).
`NeverIll` is about dependencies that are chosen early and signed late, so `QInv` follows them from the top
blocks through the process to the pending queue. `Sound` says that a waiting set could be signed now: blocks
of others that neither the last own block nor the one being added reaches, nor they one another. `After`
says that what waits later is not reached by what waits earlier, so that signing the head of the queue leaves
the rest sound. The top blocks keep their place because they are parents of nothing delivered
(`GroundedIn`, `OrderReceives`). TLC checked `HInv` and `QInv` on the instance of the run before they were proved.

**ADNL** (`AdnlProofs`). Lemmas on the window for every width: `WindowKeeps` (an added number is
received from then on, and what was received stays), `WindowExact` and `WindowType`. The invariant says that
every delivered signed packet is of an older incarnation than the pair knows, and then refused by its date, or
in the window (`Seen`); `ReinitSeen` shows that emptying the window is harmless because the date grows.
`CInv` extends it to dates and channels. A pair knows the date of an incarnation before it has a channel with
it (`Known`: `peer <= reinit <= start` of the peer), so a channel with the current incarnation (`Created`) is
never replaced or cleared before a restart (`Later`). A packet between current incarnations that uses or
confirms their channel therefore proves that its sender has it (`Honest`), which is all `ReadyReadable` needs; a
restart makes every such packet one of an earlier incarnation. What was delivered is of no later incarnation than
`reinit` (`Boxes`), which only grows: this is `IncarnationsInOrder`. TLC checked what `CInv` adds before it was proved,
also with restarts of both nodes.

## 6. Only model-checked

`MaturedUnfreezes` and `ElectionsEnd` are liveness under fairness, out of the prover's reach. That the session refines `Voting`, and the session's
other properties, rest on weights summed over sets of nodes and on merges, and are checked by TLC on the
instance above. `TableAgrees` runs the calls that wait for the
peer table one after the other with a recursive function, about which nothing can be proved here without
induction over data; it is checked on the instance only. The violated statements of section 4 are counterexamples.

## 7. Not modelled

* Cell layout, hashes and signatures: a signed message is one its sender has made; a nominator is
  genuine if its address is in `Genuine`.
* Storage fees and frozen accounts: the amounts only shrink by the fees of transactions.
* Get-methods, envelopes, frontend, tests: they change no contract.
* The nominator contract: its init message is never accepted, so no state beyond the uninitialised one can
  be reached, and there is nothing to compose with the pool and the elector.
* The JSON-RPC server: it shows the state of the pool and changes nothing. Its request handlers share one
  client without a lock, so there is no protocol to check.
* Elector and configuration contract: upgrade of the code, orders of the master key, votes on
  proposals, complaints (no message files one).
* Session: nodes that fork or submit two candidates, download and validation of candidates, persistent
  cells and their memory.
* Catchain: forks and blame, synchronisation by `getDifference`, queries, choice of neighbours, unsafe
  recovery.
* ADNL: address lists as data, choice of connections (a message that must go directly and meets an indirect
  connection is put back without advancing the loop, `adnl-peer.cpp:294`), queries, messages in parts; `adnl.message.reinit`
  (`adnl-peer.cpp:516`), which no code of the repository sends and whose effect is that of `Discover`.
* The rest of the node: collator and validation of blocks beyond the order of transactions, shard
  client and archives, DHT, overlays, RLDP, FEC, HTTP, lite client, TVM, FunC, Fift and the utility
  libraries. This is most of the repository: upstream code whose correctness is mostly about data (cells,
  codecs, cryptography, a virtual machine), which a state machine of a few values says little about.

## 8. Running

In this directory, `tlc -config PoolAccounting.cfg MCStakingPool`, likewise for the other pool
configurations; `tlc -config X.cfg MCX` for `Elections`, `Session`, `Catchain` and `Adnl`;
`tlc -config WalletReplay.cfg MCOwnerWallet`, `tlc -config DocMaxStake.cfg MCElections` and
`tlc -config DocAdnlReady.cfg MCAdnl`. `tlapm` checks `Sums.tla`, `StakingPoolProofs.tla`,
`OwnerWalletProofs.tla`, `ElectorProofs.tla`, `ElectionsProofs.tla`, `VotingProofs.tla`, `CatchainProofs.tla`
and `AdnlProofs.tla`.
`PoolAccounting`, `Elections` and `Session` take up to two minutes, the other runs about one or less; the proofs of the pool
take five minutes, those of the catchain eight, those of the elections ten for each module, the others less. `PROJECT.json` lists runs, the mapping from definitions to source lines, and hazards.
