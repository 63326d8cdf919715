---------------------------- MODULE StakingPool ----------------------------
(***************************************************************************)
(* The pool smart contract, staking/smartcont/staking-pool-code.fc: it     *)
(* takes the subscribers' grams, keeps one performance record per period,  *)
(* redeems subscriptions and asks the nominators for their balances.       *)
(*                                                                         *)
(* One action is one transaction of the contract.  A transaction credits   *)
(* the value v of the inbound message, runs the code (gas fee g), and      *)
(* performs the sends of the code; an exception in the code or a send that *)
(* cannot be paid leaves the contract's data as it was (crypto/block/      *)
(* transaction.cpp).  All sends of the pool have mode 64.                  *)
(***************************************************************************)
EXTENDS Integers, FiniteSets, Sequences

CONSTANTS
    Users,              \* account addresses; the same address may exist in workchains 0 and -1
    InitialOwner,       \* the owner stored by the deployment data
    NoOwner,            \* address 0, stored in pending_owner when there is none
    InitialConfig,      \* the fees stored by the deployment data
    Nominators,         \* addresses of the nominator dictionary of the init message
    Genuine,            \* those that are the hash of the nominator code with their index
    InitStatus,         \* status each of them has in the init message
    WalletIdx,          \* index each of them has in the init message
    InitialRate,        \* grams in one unit before the first period closes (10000 in the code)
    FeeLow, FeeHigh,    \* limits of transaction_fee (10^8 and 10^9 in the code)
    MinAmountLow,       \* lower limit of min_amount (10^9 in the code)
    FwdFee,             \* forwarding fee of an outbound message
    Gas,                \* gas fees a transaction may cost
    Deposits,           \* values of plain transfers
    CallValues,         \* values of the messages that carry an order
    Reports,            \* amounts a nominator may report
    ConfigOrders,       \* the option sets and parameters of SETC messages
    MaxPeriod,          \* last period (2^16 - 1 in the code)
    MaxSubscriptions,   \* bound on the number of subscriptions
    MaxBalance          \* bound on the balance and on the reports added to it

ASSUME AddressAssumption ==
    /\ InitialOwner \in Users
    /\ NoOwner \notin Users
    /\ Genuine \subseteq Nominators
    /\ IsFiniteSet(Nominators) /\ Nominators # {}
    /\ Users \cap Nominators = {}
    /\ Nominators \cap Nat = {}
    /\ WalletIdx \in [Nominators -> Nat \ {0}]
    /\ InitStatus \in [Nominators -> 0..255]

ASSUME AmountAssumption ==
    /\ InitialRate \in Nat \ {0}
    /\ FwdFee \in Nat
    /\ FeeLow \in Nat /\ FeeHigh \in Nat /\ MinAmountLow \in Nat
    /\ MaxPeriod \in Nat \ {0} /\ MaxSubscriptions \in Nat /\ MaxBalance \in Nat
    /\ Gas \subseteq Nat /\ Deposits \subseteq Nat /\ CallValues \subseteq Nat
    /\ Reports \subseteq Nat

-----------------------------------------------------------------------------
Basechain == 0
Masterchain == -1

\* Fees are stored in hundredths of a percent.
FeeBase == 10000
MaxFee == 3000

Config == [transaction_fee : Nat, min_amount : Nat, owner_fee : Nat, penalty_fee : Nat,
           owner : Users, pending_owner : Users \cup {NoOwner}]

\* Status 1 is active, 2 an address that is no nominator contract, 0 and the
\* others inactive.
Nominator == [status : 0..255, balance : Nat, stake : Nat, wallet_id : Nat \ {0}]

Performance == [rate : Nat, aum : Nat, units : Nat, deposits : Nat, withdrawals : Nat]

\* Status 1 is active, 2 redeemed, 0 withdrawn in the period it was opened in (never
\* stored: see RedeemEarly).
Subscription == [subscriber : Users, grams : Nat, start_period : Nat,
                 end_period : Nat, status : 0..2]

\* A SETC order: the option bits that are set, and the parameters that follow.
ConfigOrder == [options : SUBSET {1, 2, 4, 8, 16, 32}, transaction_fee : Nat,
                min_amount : Nat, owner_fee : Nat, penalty_fee : Nat,
                pending_owner : Users \cup {NoOwner}]

ASSUME ConfigAssumption ==
    /\ InitialConfig \in [transaction_fee : Nat, min_amount : Nat,
                          owner_fee : Nat, penalty_fee : Nat]
    /\ ConfigOrders \subseteq ConfigOrder

VARIABLES
    current_period,  \* 0 until the init message has been accepted
    config,          \* the pool_config cell without its nominators dictionary
    nominators,      \* dictionary: address -> Nominator
    performance,     \* dictionary: period -> Performance
    subscriptions,   \* dictionary with the keys 1, 2, ...: id -> Subscription
    subscribers,     \* per user the dictionary: period -> subscription id
    balance,         \* grams on the pool's account
    outbox           \* the messages sent by the last transaction

data == <<current_period, config, nominators, performance, subscriptions, subscribers>>
vars == <<data, balance, outbox>>

EmptyDict == [x \in {} |-> 0]

\* udict_set_builder: the dictionary d with key k set to e.
Put(d, k, e) == [x \in DOMAIN d \cup {k} |-> IF x = k THEN e ELSE d[x]]

\* store_grams throws an exception when the amount is negative.
AlwaysStorable(x) == TRUE
Storable(x) == x >= 0

\* FunC's "/" rounds towards minus infinity, whatever the signs (divisor not 0).
FloorDiv(a, b) == IF b > 0 THEN a \div b ELSE (-a) \div (-b)

Initialised == current_period > 0

\* The performance record of the open period.
Current == performance[current_period]

\* The performance dictionary after a transaction in the open period; only the end of
\* the period changes the rate and the units.
SetCurrent(aum, deposits, withdrawals) ==
    [performance EXCEPT ![current_period] =
        [rate |-> Current.rate, aum |-> aum, units |-> Current.units,
         deposits |-> deposits, withdrawals |-> withdrawals]]

-----------------------------------------------------------------------------
(***************************************************************************)
(* Transactions                                                            *)
(***************************************************************************)

Msg(to, op, value) == [to |-> to, op |-> op, value |-> value]

\* The value of the only message of a transaction, sent with mode 64: the amount named
\* by the code and the rest of the inbound value v after the gas fee g.
SendValue(grams, v, g) == grams + v - g

\* get_address_slice writes the tag 0110 before the workchain and the address.  The tags
\* of an internal address start with 1, so a message to such a slice is no valid action,
\* and one invalid action fails the whole action phase.
AddressTag == <<0, 1, 1, 0>>
InternalTags == {<<1, 0>>, <<1, 1>>}
AddressSliceValid == SubSeq(AddressTag, 1, 2) \in InternalTags

\* The receiver pays the forwarding fee out of the value of the message.
Payable(value) == value >= FwdFee

\* The balance after the credit and the compute phase.
Credited(v, g) == balance + v - g

\* The balance pays for a message of this value.
Affordable(value, v, g) == value <= Credited(v, g)

\* The transaction was paid for and sends nothing: the value stays on the account.
Keep(v, g) ==
    /\ Credited(v, g) \in 0..MaxBalance
    /\ balance' = Credited(v, g)
    /\ outbox' = <<>>

\* The action phase failed: the data stays as it was and nothing is sent, not
\* even the value of the inbound message.
Unsent(v, g) == Keep(v, g) /\ UNCHANGED data

\* The code threw an exception: the data stays as it was and, if the sender asked
\* for it and the value covers the fees, the rest of the value returns to the
\* sender.  Only a transaction that called accept_message may spend more gas than
\* the message paid for.
Thrown(src, v, g, bounce, accepted) ==
    /\ accepted \/ g <= v
    /\ UNCHANGED data
    /\ IF bounce /\ Payable(v - g)
       THEN balance' = balance /\ outbox' = <<Msg(src, "bounced", v - g - FwdFee)>>
       ELSE Keep(v, g)

\* Every handler but the one of GTBL asks for the transaction fee.
PaysFee(v) == v >= config.transaction_fee

-----------------------------------------------------------------------------
(***************************************************************************)
(* Deployment                                                              *)
(***************************************************************************)

\* The deployment data.  get_init_data copies the pending owner from behind the end of an
\* empty string: it may be anything until the init message resets it.
Init ==
    /\ current_period = 0
    /\ \E pending \in Users \cup {NoOwner} :
           config = [transaction_fee |-> InitialConfig.transaction_fee,
                     min_amount |-> InitialConfig.min_amount,
                     owner_fee |-> InitialConfig.owner_fee,
                     penalty_fee |-> InitialConfig.penalty_fee,
                     owner |-> InitialOwner, pending_owner |-> pending]
    /\ nominators = EmptyDict
    /\ performance = EmptyDict
    /\ subscriptions = <<>>
    /\ subscribers = [u \in Users |-> EmptyDict]
    /\ balance = 0
    /\ outbox = <<>>

\* A transfer to the address of the pool before the contract is deployed there.
Fund(v) ==
    /\ ~ Initialised
    /\ Keep(v, 0)
    /\ UNCHANGED data

OpenPerformance(aum, units) ==
    [rate |-> 0, aum |-> aum, units |-> units, deposits |-> 0, withdrawals |-> 0]

NewSubscription(u, grams, period) ==
    [subscriber |-> u, grams |-> grams, start_period |-> period,
     end_period |-> 0, status |-> 1]

\* The external message that deploys the contract.  The nominators keep the status
\* of the message unless their address is no hash of the nominator code.
TryInit(g) ==
    LET open == OpenPerformance(balance, balance \div InitialRate)
    IN  /\ ~ Initialised
        /\ g <= balance
        /\ current_period' = 1
        /\ config' = [config EXCEPT !.pending_owner = NoOwner]
        /\ nominators' = [n \in Nominators |->
               [status |-> IF n \in Genuine THEN InitStatus[n] ELSE 2,
                balance |-> 0, stake |-> 0, wallet_id |-> WalletIdx[n]]]
        /\ performance' = [p \in 0..1 |->
               IF p = 0 THEN [open EXCEPT !.rate = InitialRate] ELSE open]
        /\ subscriptions' = <<NewSubscription(config.owner, balance, 0)>>
        /\ subscribers' = [subscribers EXCEPT ![config.owner] = Put(EmptyDict, 0, 1)]
        /\ balance' = balance - g
        /\ outbox' = <<>>

-----------------------------------------------------------------------------
(***************************************************************************)
(* Subscribers                                                             *)
(***************************************************************************)

\* The dictionary of a subscriber is written with 16-bit and searched with 32-bit
\* keys: the search never finds the entry of the current period, and it throws
\* when the subscriber has entries in two periods.
SearchThrows(u) == Cardinality(DOMAIN subscribers[u]) > 1

AddSubscription(s) == Append(subscriptions, s)

\* An empty message from a basechain account other than the owner's.  The
\* subscriber's entry gets the id of the subscription before the new one.
Subscribe(u, v, g) ==
    LET last == Len(subscriptions)
    IN  /\ Initialised
        /\ PaysFee(v)
        /\ u # config.owner
        /\ ~ SearchThrows(u)
        /\ last < MaxSubscriptions
        /\ subscribers' = [subscribers EXCEPT ![u] = Put(subscribers[u], current_period, last)]
        /\ subscriptions' =
               AddSubscription(NewSubscription(u, v - config.transaction_fee, current_period))
        /\ performance' = SetCurrent(Current.aum + v, Current.deposits + v, Current.withdrawals)
        /\ UNCHANGED <<current_period, config, nominators>>
        /\ Keep(v, g)

SubscribeThrows(u, v, g, bounce) ==
    /\ Initialised
    /\ PaysFee(v)
    /\ u # config.owner
    /\ SearchThrows(u)
    /\ Thrown(<<Basechain, u>>, v, g, bounce, TRUE)

\* The checks of a redemption order for subscription id from the basechain account u.
Redeemable(u, id, v) ==
    /\ Initialised
    /\ id \in DOMAIN subscriptions
    /\ subscriptions[id].status = 1
    /\ subscriptions[id].subscriber = u
    /\ PaysFee(v)
    /\ Current.aum >= subscriptions[id].grams

Penalty(s) == (s.grams * config.penalty_fee) \div FeeBase

\* What a subscription of an earlier period is worth at the last closed rate.
Payout(s) ==
    (performance[current_period - 1].rate * s.grams) \div performance[s.start_period].rate

\* The units of a subscription of an earlier period.
UnitsOf(s) == s.grams \div performance[s.start_period].rate

\* A redeemed subscription.
Ended(s, end_period, status) ==
    [subscriber |-> s.subscriber, grams |-> s.grams, start_period |-> s.start_period,
     end_period |-> end_period, status |-> status]
NotRedeemed(s) == s
RedeemedWithoutEnd(s) == Ended(s, s.end_period, 2)
Redeemed(s) == Ended(s, current_period, 2)

\* The subscription was opened in the current period.  The code sends the grams less a
\* penalty to the subscriber and the penalty to the owner, whose address comes from
\* get_address_slice: the action phase fails, and nothing is redeemed.
RedeemEarly(u, id, v, g) ==
    LET s == subscriptions[id]
    IN  /\ Redeemable(u, id, v)
        /\ s.start_period = current_period
        /\ Penalty(s) <= s.grams
        /\ Storable(Current.deposits - s.grams)
        /\ ~ AddressSliceValid
        /\ Unsent(v, g)

\* The subscription was opened in an earlier period: it is worth its units at the
\* rate of the last closed period.
RedeemMatured(u, id, v, g) ==
    LET s == subscriptions[id]
        sent == SendValue(Payout(s), v, g)
    IN  /\ Redeemable(u, id, v)
        /\ s.start_period # current_period
        /\ Storable(Current.aum - Payout(s))
        /\ performance' = SetCurrent(Current.aum - Payout(s), Current.deposits,
                                     Current.withdrawals + UnitsOf(s))
        /\ subscriptions' = [subscriptions EXCEPT ![id] = Redeemed(s)]
        /\ UNCHANGED <<current_period, config, nominators, subscribers>>
        /\ Payable(sent)
        /\ Affordable(sent, v, g)
        /\ balance' = Credited(v, g) - sent
        /\ outbox' = <<Msg(<<Basechain, u>>, "REDM", sent - FwdFee)>>

\* As above, but the payout cannot be paid from the balance of the pool.
RedeemMaturedUnsent(u, id, v, g) ==
    LET s == subscriptions[id]
        sent == SendValue(Payout(s), v, g)
    IN  /\ Redeemable(u, id, v)
        /\ s.start_period # current_period
        /\ Storable(Current.aum - Payout(s))
        /\ ~ (Payable(sent) /\ Affordable(sent, v, g))
        /\ Unsent(v, g)

\* The new performance record cannot be stored: the payout exceeds the grams under
\* management, although the grams of the subscription do not.
RedeemMaturedThrows(u, id, v, g, bounce) ==
    /\ Redeemable(u, id, v)
    /\ subscriptions[id].start_period # current_period
    /\ ~ Storable(Current.aum - Payout(subscriptions[id]))
    /\ Thrown(<<Basechain, u>>, v, g, bounce, TRUE)

-----------------------------------------------------------------------------
(***************************************************************************)
(* The owner                                                               *)
(***************************************************************************)

ManagedAum == Current.aum - Current.deposits
ManagedUnits == Current.units - Current.withdrawals

\* The grams in a unit at the end of the current period.
NewRate == FloorDiv(ManagedAum, ManagedUnits)

PreviousRate == performance[current_period - 1].rate

Profitable == ManagedUnits * NewRate > ManagedUnits * PreviousRate

OwnersShare ==
    ((ManagedUnits * NewRate - ManagedUnits * PreviousRate) * config.owner_fee) \div FeeBase

\* The subscription that holds the owner's share.
IncentiveInNextPeriod == NewSubscription(config.owner, OwnersShare, current_period + 1)
IncentiveSubscription == NewSubscription(config.owner, OwnersShare, current_period)

\* The performance record of the closed period, and the units of the next one.
ClosedWithoutRate == Current
ClosedPerformance == [Current EXCEPT !.rate = NewRate]
ManagedUnitsOnly == ManagedAum \div NewRate
NewUnits == Current.aum \div NewRate

\* No division by zero, no negative amount and no 17-bit period to store, and the
\* owner has a dictionary of subscriptions when there is an incentive fee to add to it.
PeriodCloses ==
    /\ current_period < MaxPeriod
    /\ ManagedUnits # 0
    /\ NewRate > 0
    /\ Profitable => DOMAIN subscribers[config.owner] # {}

\* NEWP: the current period is closed at the new rate, and on a profit the owner
\* gets a subscription.
NewPeriod(v, g) ==
    /\ Initialised
    /\ PaysFee(v)
    /\ PeriodCloses
    /\ subscriptions' = IF Profitable THEN AddSubscription(IncentiveSubscription)
                        ELSE subscriptions
    /\ Profitable => Len(subscriptions) < MaxSubscriptions
    /\ performance' = Put([performance EXCEPT ![current_period] = ClosedPerformance],
                          current_period + 1, OpenPerformance(Current.aum, NewUnits))
    /\ current_period' = current_period + 1
    /\ UNCHANGED <<config, nominators, subscribers>>
    /\ Keep(v, g)

NewPeriodThrows(v, g, bounce) ==
    /\ Initialised
    /\ PaysFee(v)
    /\ ~ PeriodCloses
    /\ Thrown(<<Basechain, config.owner>>, v, g, bounce, TRUE)

AnyStatus(status, new_status) == status # new_status
StatusMayChange(status, new_status) == status # 2 /\ status # new_status

\* AWLT: the new status is stored under the index of the nominator, not under its
\* address a.
ActivateWallet(a, new_status, v, g) ==
    /\ Initialised
    /\ PaysFee(v)
    /\ a \in DOMAIN nominators
    /\ StatusMayChange(nominators[a].status, new_status)
    /\ nominators' = Put(nominators, nominators[a].wallet_id,
                         [nominators[a] EXCEPT !.status = new_status])
    /\ UNCHANGED <<current_period, config, performance, subscriptions, subscribers>>
    /\ Keep(v, g)

\* The checks of TRNS and WTDR: the nominator must not be found by the first, and its
\* record is unpacked by the second.
TransferSends(a) ==
    LET found == a \in DOMAIN nominators
    IN  ~ found /\ found /\ nominators[a].status = 1

\* TRNS and WTDR: the first check comes before accept_message, the second after it.
TransferToWallet(a, v, g, bounce) ==
    /\ Initialised
    /\ PaysFee(v)
    /\ ~ TransferSends(a)
    /\ Thrown(<<Basechain, config.owner>>, v, g, bounce, a \notin DOMAIN nominators)

ActiveNominators == {a \in DOMAIN nominators : nominators[a].status = 1}

ResetDepositsToo(aum) == SetCurrent(aum, 0, Current.withdrawals)
ResetAum(aum) == SetCurrent(aum, Current.deposits, Current.withdrawals)

\* UPDB without active nominators: the grams under management are set to the balance of
\* the pool, the message value included.
FetchBalances(v, g) ==
    /\ Initialised
    /\ PaysFee(v)
    /\ ActiveNominators = {}
    /\ performance' = ResetAum(balance + v)
    /\ UNCHANGED <<current_period, config, nominators, subscriptions, subscribers>>
    /\ Keep(v, g)

\* UPDB with active nominators: the requests go to addresses from get_address_slice.
FetchBalancesUnsent(v, g) ==
    /\ Initialised
    /\ PaysFee(v)
    /\ ActiveNominators # {}
    /\ ~ AddressSliceValid
    /\ Unsent(v, g)

\* The ranges of the parameters of the order o.
WithoutLeastFee(o) ==
    /\ 1 \in o.options => o.transaction_fee <= FeeHigh
    /\ 2 \in o.options => o.min_amount >= MinAmountLow
    /\ 4 \in o.options => o.owner_fee <= MaxFee
    /\ 8 \in o.options => o.penalty_fee <= MaxFee
WithinLimits(o) ==
    /\ 1 \in o.options => o.transaction_fee \in FeeLow..FeeHigh
    /\ 2 \in o.options => o.min_amount >= MinAmountLow
    /\ 4 \in o.options => o.owner_fee <= MaxFee
    /\ 8 \in o.options => o.penalty_fee <= MaxFee

\* Who may send the order o: the owner for the fees and for a new pending owner, the
\* pending owner for the acceptance, which comes before the last of these checks.
AnyoneAccepts(src, o) ==
    o.options \cap {1, 2, 4, 8, 32} # {} => src = <<Masterchain, config.owner>>
ConfigSender(src, o) ==
    LET owner == IF 16 \in o.options THEN src[2] ELSE config.owner
    IN  /\ o.options \cap {1, 2, 4, 8} # {} => src = <<Masterchain, config.owner>>
        /\ 16 \in o.options => src = <<Masterchain, config.pending_owner>>
        /\ 32 \in o.options => src = <<Masterchain, owner>>

\* The pending owner after the order o.
NewPending(o) ==
    IF 32 \in o.options THEN o.pending_owner
    ELSE IF 16 \in o.options THEN NoOwner
    ELSE config.pending_owner

\* SETC, for the fees and for the two steps of a change of ownership.
SetConfig(src, o, v, g) ==
    /\ Initialised
    /\ PaysFee(v)
    /\ ConfigSender(src, o)
    /\ WithinLimits(o)
    /\ config' =
           [transaction_fee |-> IF 1 \in o.options THEN o.transaction_fee
                                ELSE config.transaction_fee,
            min_amount |-> IF 2 \in o.options THEN o.min_amount ELSE config.min_amount,
            owner_fee |-> IF 4 \in o.options THEN o.owner_fee ELSE config.owner_fee,
            penalty_fee |-> IF 8 \in o.options THEN o.penalty_fee ELSE config.penalty_fee,
            owner |-> IF 16 \in o.options THEN src[2] ELSE config.owner,
            pending_owner |-> NewPending(o)]
    /\ UNCHANGED <<current_period, nominators, performance, subscriptions, subscribers>>
    /\ Keep(v, g)

-----------------------------------------------------------------------------
(***************************************************************************)
(* Nominators, and messages without effect                                 *)
(***************************************************************************)

\* What a nominator reports goes to the period that is open when it arrives.
AddReportToClosed(b, stake) == [performance EXCEPT ![current_period - 1].aum = @ + b + stake]
AddReport(b, stake) ==
    SetCurrent(Current.aum + b + stake, Current.deposits, Current.withdrawals)

\* GTBL: what nominator a reports is stored and added to the grams under management.  This
\* is the one handler that accepts a message without asking for the transaction fee.
GotBalance(a, b, stake, v, g) ==
    /\ Initialised
    /\ a \in DOMAIN nominators
    /\ Current.aum + b + stake <= MaxBalance
    /\ nominators' = [nominators EXCEPT ![a] =
           [status |-> nominators[a].status, balance |-> b, stake |-> stake,
            wallet_id |-> nominators[a].wallet_id]]
    /\ performance' = AddReport(b, stake)
    /\ UNCHANGED <<current_period, config, subscriptions, subscribers>>
    /\ Keep(v, g)

\* A transfer of the owner, a bounced message, an operation the pool does not know.
TopUp(v, g) ==
    /\ Initialised
    /\ g <= v
    /\ Keep(v, g)
    /\ UNCHANGED data

\* Every message refused before accept_message: a body that cannot be parsed, an
\* order of someone else, a value below the transaction fee.
Reject(src, v, g, bounce) ==
    /\ Initialised
    /\ Thrown(src, v, g, bounce, FALSE)

-----------------------------------------------------------------------------
SubscriberStep(v, g) ==
    \E u \in Users :
        \/ Subscribe(u, v, g)
        \/ \E bounce \in BOOLEAN : SubscribeThrows(u, v, g, bounce)

RedeemStep(v, g) ==
    \E u \in Users, id \in DOMAIN subscriptions :
        \/ RedeemEarly(u, id, v, g)
        \/ RedeemMatured(u, id, v, g)
        \/ RedeemMaturedUnsent(u, id, v, g)
        \/ \E bounce \in BOOLEAN : RedeemMaturedThrows(u, id, v, g, bounce)

OwnerStep(v, g) ==
    \/ NewPeriod(v, g)
    \/ \E bounce \in BOOLEAN : NewPeriodThrows(v, g, bounce)
    \/ \E a \in DOMAIN nominators, st \in 0..2 : ActivateWallet(a, st, v, g)
    \/ \E a \in Nominators \cup Users, bounce \in BOOLEAN : TransferToWallet(a, v, g, bounce)
    \/ FetchBalances(v, g)
    \/ FetchBalancesUnsent(v, g)

ConfigStep(v, g) ==
    \E wc \in {Basechain, Masterchain}, u \in Users, o \in ConfigOrders :
        SetConfig(<<wc, u>>, o, v, g)

NominatorStep(v, g) ==
    \E a \in Nominators, b, stake \in Reports : GotBalance(a, b, stake, v, g)

RejectStep(v, g) ==
    \E wc \in {Basechain, Masterchain}, u \in Users, bounce \in BOOLEAN :
        Reject(<<wc, u>>, v, g, bounce)

Next ==
    \/ \E v \in Deposits : Fund(v)
    \/ \E g \in Gas : TryInit(g)
    \/ \E v \in Deposits, g \in Gas : SubscriberStep(v, g) \/ TopUp(v, g)
    \/ \E v \in CallValues, g \in Gas :
           \/ RedeemStep(v, g)
           \/ OwnerStep(v, g)
           \/ ConfigStep(v, g)
           \/ NominatorStep(v, g)
           \/ RejectStep(v, g)

Spec == Init /\ [][Next]_vars

-----------------------------------------------------------------------------
(***************************************************************************)
(* Properties                                                              *)
(***************************************************************************)

Periods == IF Initialised THEN 0..current_period ELSE {}

Message == [to : {Basechain, Masterchain} \X Users, op : {"REDM", "bounced"}, value : Nat]

\* Every field keeps the range its cell layout gives it: no handler stores a
\* negative amount, and the performance dictionary has a record for every period
\* up to the current one.
TypeOK ==
    /\ current_period \in Nat
    /\ config \in Config
    /\ DOMAIN nominators \subseteq Nominators \cup Nat
    /\ \A a \in DOMAIN nominators : nominators[a] \in Nominator
    /\ performance \in [Periods -> Performance]
    /\ subscriptions \in Seq(Subscription)
    /\ DOMAIN subscribers = Users
    /\ \A u \in Users : /\ DOMAIN subscribers[u] \subseteq Periods
                        /\ \A p \in DOMAIN subscribers[u] : subscribers[u][p] \in Nat
    /\ balance \in Nat
    /\ outbox \in Seq(Message)

\* process_redeem divides by the rate of the period a subscription was opened in,
\* and pays at the rate of the period before the current one: both are set by then,
\* for every subscription that is still active.
RedemptionRateKnown ==
    \A id \in DOMAIN subscriptions :
        subscriptions[id].status = 1 /\ subscriptions[id].start_period # current_period
            => /\ subscriptions[id].start_period \in 0..(current_period - 1)
               /\ performance[subscriptions[id].start_period].rate > 0
               /\ performance[current_period - 1].rate > 0

\* A subscription is active, or redeemed in a period later than the one it was opened in;
\* get_subscription shows an end period for the redeemed ones only, and none is withdrawn.
SubscriptionStates ==
    \A id \in DOMAIN subscriptions :
        LET s == subscriptions[id]
        IN  /\ s.start_period <= current_period
            /\ s.status # 0
            /\ s.status = 2 <=> s.end_period # 0
            /\ s.status = 2 => s.end_period \in (s.start_period + 1)..current_period

\* Once a period is closed, no handler touches its performance record: the rates at
\* which later redemptions are paid do not change.
ClosedPeriodsFrozen ==
    [][\A p \in DOMAIN performance :
          p < current_period => performance'[p] = performance[p]]_vars

\* Subscriptions are never removed or handed over, their start never moves, and one
\* that was redeemed never becomes active or pays again.
SubscriptionsFinal ==
    [][\A id \in DOMAIN subscriptions :
          /\ id \in DOMAIN subscriptions'
          /\ subscriptions'[id].subscriber = subscriptions[id].subscriber
          /\ subscriptions'[id].start_period = subscriptions[id].start_period
          /\ subscriptions[id].status # 1 => subscriptions'[id] = subscriptions[id]]_vars

\* Grams leave the pool to a redeeming subscriber only, one payment ends exactly one
\* active subscription, and it costs the pool what that subscription is worth, whatever
\* the order of redemption carried and its gas cost: process_redeem is the only way out.
PaymentsAreRedemptions ==
    [][\A i \in DOMAIN outbox' :
          outbox'[i].op = "REDM" =>
              \E id \in DOMAIN subscriptions :
                  /\ subscriptions[id].status = 1 /\ subscriptions'[id].status # 1
                  /\ \A other \in DOMAIN subscriptions \ {id} :
                         subscriptions'[other] = subscriptions[other]
                  /\ outbox'[i].to = <<Basechain, subscriptions[id].subscriber>>
                  /\ balance - balance' = Payout(subscriptions[id])]_vars

\* A change of ownership takes both parties: the new owner was the pending owner, and
\* the fees are still those of the old owner when it takes effect, although one order
\* may hold an acceptance, a nomination and new fees.
OwnershipTakesTwoSteps ==
    [][config'.owner # config.owner =>
          /\ config'.owner = config.pending_owner
          /\ config'.transaction_fee = config.transaction_fee
          /\ config'.min_amount = config.min_amount
          /\ config'.owner_fee = config.owner_fee
          /\ config'.penalty_fee = config.penalty_fee]_vars

\* An index under which the init message lists no nominator contract.
ForeignIndex(i) == \A n \in Genuine : WalletIdx[n] # i

\* An address that is no nominator contract (status 2) is never marked otherwise: not
\* under its address, and not in the second record process_activate_wallet stores under
\* its index, whatever the owner orders and whatever is reported from it.
ForeignStaysForeign ==
    \A k \in DOMAIN nominators :
        ForeignIndex(nominators[k].wallet_id) => nominators[k].status = 2

\* Every transaction fee the pool can have pays for the gas of a transaction.
GasCovered == \A g \in Gas : g <= InitialConfig.transaction_fee /\ g <= FeeLow

\* Where the fees cover the gas, the balance falls only by a payment to a redeeming
\* subscriber and by the gas of a nominator's report: process_got_balance accepts a message
\* of any value, all other handlers ask for a fee ("do not allow to dry out the pool") that
\* no order of the owner can set below FeeLow, also when they throw after accept_message.
NotDriedOut ==
    [][Initialised /\ balance' < balance =>
          \/ \E i \in DOMAIN outbox' : outbox'[i].op = "REDM"
          \/ \E v \in CallValues, g \in Gas : NominatorStep(v, g)]_vars

\* The ledger of subscriptions as a holder sees it.
LedgerState(status) ==
    IF status = 1 THEN "active" ELSE "redeemed"

LedgerEntries ==
    [id \in DOMAIN subscriptions |->
        [holder |-> subscriptions[id].subscriber, opened |-> subscriptions[id].start_period,
         state |-> LedgerState(subscriptions[id].status)]]

Ledger == INSTANCE SubscriptionLedger
              WITH Holders <- Users, period <- current_period, entries <- LedgerEntries

\* The pool implements the ledger: whatever the handlers do to amounts, rates and
\* nominators, subscriptions only ever follow the ledger's rules.
ImplementsLedger == Ledger!Spec

-----------------------------------------------------------------------------
=============================================================================
