------------------------- MODULE StakingPoolProofs -------------------------
(***************************************************************************)
(* The safety properties of StakingPool, what none of its steps may do,    *)
(* that the pool implements the subscription ledger, and that its period   *)
(* records cover its subscriptions (PoolSolvency), for every value of the  *)
(* constants.                                                              *)
(***************************************************************************)
EXTENDS PoolSolvency, SumLaws, TLAPS

\* Every period but the current one has a rate that is not zero.
RatesKnown ==
    \A p \in Periods : p # current_period => performance[p].rate > 0

\* The inductive invariant.
Inv ==
    /\ TypeOK
    /\ RatesKnown
    /\ SubscriptionStates
    /\ Initialised \/ subscriptions = <<>>

-----------------------------------------------------------------------------
\* The proofs are by first-order reasoning where they do not say otherwise.
USE ZenonT(60)

\* A quotient of natural numbers is a natural number.
LEMMA DivNat ==
    ASSUME NEW a \in Nat, NEW b \in Nat, b > 0
    PROVE  a \div b \in Nat
BY SMT

\* FunC's division returns an integer unless the divisor is zero.
LEMMA FloorDivInt ==
    ASSUME NEW a \in Int, NEW b \in Int, b # 0
    PROVE  FloorDiv(a, b) \in Int
<1>1. CASE b > 0
  BY <1>1, SMT DEF FloorDiv
<1>2. CASE b < 0
  <2>1. -b \in Nat /\ -b > 0 /\ -a \in Int
    BY <1>2, SMT
  <2>2. (-a) \div (-b) \in Int
    BY <2>1, SMT
  <2> QED BY <1>2, <2>2, SMT DEF FloorDiv
<1> QED BY <1>1, <1>2, SMT

\* Setting a key of a dictionary keeps the other entries.
LEMMA PutDomain ==
    ASSUME NEW d, NEW k, NEW e
    PROVE  /\ DOMAIN Put(d, k, e) = DOMAIN d \cup {k}
           /\ Put(d, k, e)[k] = e
           /\ \A x \in DOMAIN d : x # k => Put(d, k, e)[x] = d[x]
BY DEF Put

\* The account after a transaction that pays nobody.
NoPayment ==
    /\ balance' \in Nat
    /\ outbox' \in Seq(Message)
    /\ \A i \in DOMAIN outbox' : outbox'[i].op # "REDM"

\* A transaction without sends leaves a balance and an outbox of their types.
LEMMA KeepTypes ==
    ASSUME balance \in Nat, NEW v \in Nat, NEW g \in Nat, Keep(v, g)
    PROVE  /\ balance' \in Nat /\ outbox' \in Seq(Message)
           /\ NoPayment
BY SMT DEF Keep, Credited, NoPayment

\* So does a transaction that ends in an exception.
LEMMA ThrownTypes ==
    ASSUME balance \in Nat, NEW src \in {Basechain, Masterchain} \X Users,
           NEW v \in Nat, NEW g \in Nat, NEW bounce, NEW accepted,
           Thrown(src, v, g, bounce, accepted)
    PROVE  NoPayment /\ UNCHANGED data
<1>1. CASE bounce /\ Payable(v - g)
  <2> DEFINE m == Msg(src, "bounced", v - g - FwdFee)
  <2>1. v - g - FwdFee \in Nat
    BY <1>1, AmountAssumption, SMT DEF Payable
  <2>2. m \in Message /\ m.op = "bounced"
    BY <2>1 DEF Msg, Message
  <2>3. balance' = balance /\ outbox' = <<m>> /\ UNCHANGED data
    BY <1>1 DEF Thrown
  <2> HIDE DEF m
  <2>4. DOMAIN outbox' = {1} /\ outbox'[1] = m /\ outbox' \in Seq(Message)
    BY <2>2, <2>3, SMT
  <2> QED BY <2>2, <2>3, <2>4 DEF NoPayment
<1>2. CASE ~ (bounce /\ Payable(v - g))
  BY <1>2, KeepTypes DEF Thrown
<1> QED BY <1>1, <1>2

-----------------------------------------------------------------------------
(***************************************************************************)
(* Inv is inductive                                                        *)
(***************************************************************************)

\* The invariant holds before the deployment.
LEMMA InitInv == Init => Inv
<1> SUFFICES ASSUME Init PROVE Inv
  OBVIOUS
<1> USE DEF Init
<1>1. ~ Initialised /\ Periods = {}
  BY SMT DEF Initialised, Periods
<1>2. config \in Config
  BY AddressAssumption, ConfigAssumption, SMT DEF Config
<1>3. DOMAIN nominators = {} /\ performance \in [Periods -> Performance]
  BY <1>1 DEF EmptyDict
<1>4. \A u \in Users : DOMAIN subscribers[u] = {}
  BY DEF EmptyDict
<1>5. TypeOK
  BY <1>1, <1>2, <1>3, <1>4, SMT DEF TypeOK
<1>6. RatesKnown /\ SubscriptionStates
  BY <1>1, SMT DEF RatesKnown, SubscriptionStates
<1> QED BY <1>5, <1>6 DEF Inv

\* An order whose value stays on the account.
LEMMA KeepStep ==
    ASSUME Inv, NEW v \in Deposits \cup CallValues, NEW g \in Gas, Keep(v, g)
    PROVE  balance' \in Nat /\ outbox' \in Seq(Message)
<1>1. balance \in Nat
  BY DEF Inv, TypeOK
<1>2. v \in Nat /\ g \in Nat
  BY AmountAssumption
<1> QED BY <1>1, <1>2, KeepTypes

\* A transaction that leaves the data alone.
LEMMA DataUnchanged ==
    ASSUME Inv, UNCHANGED data, balance' \in Nat, outbox' \in Seq(Message)
    PROVE  Inv'
BY DEF Inv, TypeOK, RatesKnown, SubscriptionStates, Initialised, Periods, data

\* The deployment keeps the invariant.
LEMMA TryInitInv ==
    ASSUME Inv, NEW g \in Gas, TryInit(g)
    PROVE  Inv'
<1> USE DEF Inv
<1>1. /\ balance \in Nat /\ g \in Nat /\ g <= balance /\ config \in Config
      /\ DOMAIN subscribers = Users /\ current_period' = 1
  BY AmountAssumption DEF TypeOK, TryInit
<1>2. balance \div InitialRate \in Nat
  BY <1>1, AmountAssumption, DivNat, SMT
<1>3. Initialised' /\ Periods' = 0..1
  BY <1>1, SMT DEF Initialised, Periods
<1>4. config' \in Config
  BY <1>1 DEF TryInit, Config
<1>5. /\ DOMAIN nominators' = Nominators
      /\ \A a \in Nominators : nominators'[a] \in Nominator
  <2>1. nominators' = [n \in Nominators |->
               [status |-> IF n \in Genuine THEN InitStatus[n] ELSE 2,
                balance |-> 0, stake |-> 0, wallet_id |-> WalletIdx[n]]]
    BY DEF TryInit
  <2>2. ASSUME NEW a \in Nominators
        PROVE  (IF a \in Genuine THEN InitStatus[a] ELSE 2) \in 0..255 /\ WalletIdx[a] \in Nat \ {0}
    BY AddressAssumption, SMT
  <2>3. ASSUME NEW a \in Nominators
        PROVE  nominators'[a] \in Nominator
    <3> DEFINE st == IF a \in Genuine THEN InitStatus[a] ELSE 2
    <3>1. nominators'[a] = [status |-> st, balance |-> 0, stake |-> 0, wallet_id |-> WalletIdx[a]]
      BY <2>1
    <3>2. st \in 0..255 /\ WalletIdx[a] \in Nat \ {0}
      BY <2>2
    <3> HIDE DEF st
    <3> QED BY <3>1, <3>2, SMT DEF Nominator
  <2> QED BY <2>1, <2>3
<1>6. /\ performance' \in [0..1 -> Performance]
      /\ performance'[0].rate = InitialRate
  <2> DEFINE open == OpenPerformance(balance, balance \div InitialRate)
  <2>1. open \in Performance
    BY <1>1, <1>2 DEF OpenPerformance, Performance
  <2>2. /\ [open EXCEPT !.rate = InitialRate] \in Performance
        /\ [open EXCEPT !.rate = InitialRate].rate = InitialRate
    BY <2>1, AmountAssumption DEF Performance
  <2>3. performance' = [p \in 0..1 |->
            IF p = 0 THEN [open EXCEPT !.rate = InitialRate] ELSE open]
    BY DEF TryInit
  <2> DEFINE first == [open EXCEPT !.rate = InitialRate]
  <2>4. performance' = [p \in 0..1 |-> IF p = 0 THEN first ELSE open]
    BY <2>3
  <2>5. first \in Performance /\ first.rate = InitialRate
    BY <2>2
  <2> HIDE DEF open, first
  <2> QED BY <2>1, <2>4, <2>5, SMT
<1>7. /\ subscriptions' \in Seq(Subscription)
      /\ Len(subscriptions') = 1 /\ subscriptions'[1] = NewSubscription(config.owner, balance, 0)
  BY <1>1, SMT DEF TryInit, NewSubscription, Subscription, Config
<1>8. /\ DOMAIN subscribers' = Users
      /\ \A u \in Users : /\ DOMAIN subscribers'[u] \subseteq 0..1
                          /\ \A p \in DOMAIN subscribers'[u] : subscribers'[u][p] \in Nat
  <2>1. DOMAIN subscribers' = Users
    BY <1>1 DEF TryInit
  <2>2. ASSUME NEW u \in Users
        PROVE  /\ DOMAIN subscribers'[u] \subseteq 0..1
               /\ \A p \in DOMAIN subscribers'[u] : subscribers'[u][p] \in Nat
    <3>1. CASE u = config.owner
      BY <1>1, <3>1, SMT DEF TryInit, Put, EmptyDict
    <3>2. CASE u # config.owner
      <4>1. subscribers'[u] = subscribers[u]
        BY <1>1, <3>2 DEF TryInit
      <4>2. DOMAIN subscribers[u] = {}
        BY DEF TypeOK, Periods, TryInit
      <4> QED BY <4>1, <4>2
    <3> QED BY <3>1, <3>2
  <2> QED BY <2>1, <2>2
<1>9. balance' \in Nat /\ outbox' \in Seq(Message)
  BY <1>1, SMT DEF TryInit
<1>10. TypeOK'
  BY <1>1, <1>3, <1>4, <1>5, <1>6, <1>7, <1>8, <1>9 DEF TypeOK
<1>11. RatesKnown'
  BY <1>1, <1>3, <1>6, AmountAssumption, SMT DEF RatesKnown
<1>12. SubscriptionStates'
  BY <1>1, <1>7, SMT DEF SubscriptionStates, NewSubscription
<1> QED BY <1>3, <1>10, <1>11, <1>12

\* The record of the open period exists once the pool is initialised.
LEMMA CurrentType ==
    ASSUME Inv, Initialised
    PROVE  /\ current_period \in Nat /\ current_period > 0
           /\ Periods = 0..current_period
           /\ performance \in [0..current_period -> Performance]
           /\ Current \in Performance
           /\ Current.rate \in Nat /\ Current.aum \in Nat /\ Current.units \in Nat
           /\ Current.deposits \in Nat /\ Current.withdrawals \in Nat
<1>1. /\ current_period \in Nat /\ current_period > 0 /\ Periods = 0..current_period
      /\ performance \in [0..current_period -> Performance]
  BY DEF Inv, TypeOK, Initialised, Periods
<1>2. Current \in Performance
  BY <1>1, SMT DEF Current
<1> QED BY <1>1, <1>2 DEF Performance

\* A new record for the open period disturbs neither the type nor the rates.
LEMMA SetCurrentInv ==
    ASSUME Inv, Initialised, UNCHANGED current_period,
           NEW aum \in Nat, NEW deposits \in Nat, NEW withdrawals \in Nat,
           performance' = SetCurrent(aum, deposits, withdrawals)
    PROVE  /\ performance' \in [Periods' -> Performance]
           /\ RatesKnown'
           /\ Initialised' /\ Periods' = Periods
<1>1. Initialised' /\ Periods' = Periods
  BY DEF Initialised, Periods
<1> DEFINE r == [rate |-> Current.rate, aum |-> aum, units |-> Current.units,
                 deposits |-> deposits, withdrawals |-> withdrawals]
<1>2. r \in Performance
  BY CurrentType DEF Performance
<1>3. performance' = [performance EXCEPT ![current_period] = r]
  BY DEF SetCurrent
<1> HIDE DEF r
<1>4. performance' \in [Periods -> Performance]
  BY <1>2, <1>3, CurrentType
<1>5. RatesKnown'
  BY <1>1, <1>3, CurrentType DEF RatesKnown, Inv
<1> QED BY <1>1, <1>4, <1>5

\* The state of a subscription stays right while periods go by.
LEMMA StatesLast ==
    ASSUME NEW s \in Subscription, NEW p \in Nat, NEW q \in Nat, q >= p,
           s.start_period <= p, s.status = 2 => s.end_period \in (s.start_period + 1)..p
    PROVE  s.start_period <= q /\ (s.status = 2 => s.end_period \in (s.start_period + 1)..q)
BY SMT DEF Subscription

\* A new subscription in the current period keeps the states of all.
LEMMA AddSubscriptionInv ==
    ASSUME Inv, NEW u \in Users, NEW grams \in Nat,
           subscriptions' = AddSubscription(NewSubscription(u, grams, current_period)),
           current_period' \in Nat, current_period' >= current_period
    PROVE  subscriptions' \in Seq(Subscription) /\ SubscriptionStates'
<1> DEFINE s == NewSubscription(u, grams, current_period)
<1>1. current_period \in Nat /\ subscriptions \in Seq(Subscription)
  BY DEF Inv, TypeOK
<1>2. s \in Subscription /\ s.status = 1 /\ s.end_period = 0 /\ s.start_period = current_period
  BY <1>1, SMT DEF NewSubscription, Subscription
<1> HIDE DEF s
<1>3. /\ subscriptions' = Append(subscriptions, s)
      /\ subscriptions' \in Seq(Subscription)
      /\ DOMAIN subscriptions' = 1..(Len(subscriptions) + 1)
      /\ subscriptions'[Len(subscriptions) + 1] = s
      /\ \A id \in DOMAIN subscriptions : subscriptions'[id] = subscriptions[id]
  BY <1>1, <1>2, SMT DEF AddSubscription, s
<1>4. ASSUME NEW id \in DOMAIN subscriptions'
      PROVE  /\ subscriptions'[id].start_period <= current_period'
             /\ subscriptions'[id].status # 0
             /\ subscriptions'[id].status = 2 <=> subscriptions'[id].end_period # 0
             /\ subscriptions'[id].status = 2 =>
                    subscriptions'[id].end_period
                        \in (subscriptions'[id].start_period + 1)..current_period'
  <2>1. CASE id = Len(subscriptions) + 1
    BY <1>1, <1>2, <1>3, <2>1, SMT
  <2>2. CASE id # Len(subscriptions) + 1
    <3>1. id \in DOMAIN subscriptions /\ subscriptions'[id] = subscriptions[id]
      BY <1>1, <1>3, <2>2, SMT
    <3>2. subscriptions[id] \in Subscription
      BY <1>1, <3>1, SMT
    <3>3. /\ subscriptions[id].start_period <= current_period /\ subscriptions[id].status # 0
          /\ subscriptions[id].status = 2 <=> subscriptions[id].end_period # 0
          /\ subscriptions[id].status = 2 =>
                 subscriptions[id].end_period \in (subscriptions[id].start_period + 1)..current_period
      BY <3>1 DEF Inv, SubscriptionStates
    <3> QED BY <1>1, <3>1, <3>2, <3>3, StatesLast
  <2> QED BY <2>1, <2>2
<1> QED BY <1>3, <1>4 DEF SubscriptionStates

\* A deposit keeps the invariant.
LEMMA SubscribeInv ==
    ASSUME Inv, NEW u \in Users, NEW v \in Deposits, NEW g \in Gas, Subscribe(u, v, g)
    PROVE  Inv'
<1>1. /\ v \in Nat /\ g \in Nat /\ balance \in Nat /\ config \in Config
      /\ subscriptions \in Seq(Subscription) /\ DOMAIN subscribers = Users
  BY AmountAssumption DEF Inv, TypeOK
<1>2. v - config.transaction_fee \in Nat
  BY <1>1, SMT DEF Subscribe, PaysFee, Config
<1>3. Initialised /\ UNCHANGED current_period
  BY DEF Subscribe
<1>4. /\ Current.aum + v \in Nat /\ Current.deposits + v \in Nat
      /\ Current.withdrawals \in Nat
  <2>1. Current.aum \in Nat /\ Current.deposits \in Nat /\ Current.withdrawals \in Nat
    BY <1>3, CurrentType
  <2> QED BY <1>1, <2>1, SMT
<1>5. /\ performance' \in [Periods' -> Performance] /\ RatesKnown'
      /\ Initialised' /\ Periods' = Periods
  BY <1>3, <1>4, SetCurrentInv DEF Subscribe
<1>6. subscriptions' \in Seq(Subscription) /\ SubscriptionStates'
  BY <1>2, <1>3, AddSubscriptionInv, CurrentType, SMT DEF Subscribe
<1>7. /\ DOMAIN subscribers' = Users
      /\ \A w \in Users : /\ DOMAIN subscribers'[w] \subseteq Periods'
                          /\ \A p \in DOMAIN subscribers'[w] : subscribers'[w][p] \in Nat
  <2>1. /\ subscribers' = [subscribers EXCEPT ![u] =
               Put(subscribers[u], current_period, Len(subscriptions))]
        /\ Len(subscriptions) \in Nat /\ current_period \in Periods
    BY <1>1, <1>3, CurrentType, SMT DEF Subscribe
  <2>2. ASSUME NEW w \in Users
        PROVE  /\ DOMAIN subscribers'[w] \subseteq Periods'
               /\ \A p \in DOMAIN subscribers'[w] : subscribers'[w][p] \in Nat
    <3>1. /\ DOMAIN subscribers[w] \subseteq Periods
          /\ \A p \in DOMAIN subscribers[w] : subscribers[w][p] \in Nat
      BY DEF Inv, TypeOK
    <3>2. CASE w # u
      <4>1. subscribers'[w] = subscribers[w]
        BY <1>1, <2>1, <3>2
      <4> QED BY <1>5, <3>1, <4>1
    <3>3. CASE w = u
      <4> DEFINE d == Put(subscribers[u], current_period, Len(subscriptions))
      <4>1. subscribers'[u] = d
        BY <1>1, <2>1
      <4>2. /\ DOMAIN d = DOMAIN subscribers[u] \cup {current_period}
            /\ d[current_period] = Len(subscriptions)
            /\ \A p \in DOMAIN subscribers[u] :
                   p # current_period => d[p] = subscribers[u][p]
        BY DEF Put
      <4> HIDE DEF d
      <4> QED BY <1>5, <2>1, <3>1, <3>3, <4>1, <4>2
    <3> QED BY <3>2, <3>3
  <2> QED BY <1>1, <2>1, <2>2
<1>8. balance' \in Nat /\ outbox' \in Seq(Message)
  BY <1>1, KeepTypes DEF Subscribe
<1>9. UNCHANGED <<current_period, config, nominators>>
  BY DEF Subscribe
<1> QED BY <1>5, <1>6, <1>7, <1>8, <1>9 DEF Inv, TypeOK

\* What the handler of a redemption finds.
LEMMA RedeemableFacts ==
    ASSUME Inv, NEW u, NEW id, NEW v, Redeemable(u, id, v)
    PROVE  /\ Initialised
           /\ id \in DOMAIN subscriptions /\ subscriptions[id] \in Subscription
           /\ subscriptions[id].status = 1 /\ subscriptions[id].end_period = 0
           /\ subscriptions[id].start_period <= current_period
           /\ subscriptions[id].subscriber = u
           /\ Current.aum >= subscriptions[id].grams
<1>1. /\ Initialised /\ id \in DOMAIN subscriptions /\ subscriptions[id].status = 1
      /\ subscriptions[id].subscriber = u /\ Current.aum >= subscriptions[id].grams
  BY DEF Redeemable
<1>2. subscriptions[id] \in Subscription
  BY <1>1, SMT DEF Inv, TypeOK
<1>3. subscriptions[id].end_period = 0 /\ subscriptions[id].start_period <= current_period
  BY <1>1, SMT DEF Inv, SubscriptionStates
<1> QED BY <1>1, <1>2, <1>3

\* The division by the rate of the first period is safe, and so are its results.
LEMMA PayoutType ==
    ASSUME Inv, Initialised, NEW s \in Subscription,
           s.start_period <= current_period, s.start_period # current_period
    PROVE  Payout(s) \in Nat /\ UnitsOf(s) \in Nat
<1>1. /\ current_period \in Nat /\ s.start_period \in Nat /\ s.grams \in Nat
      /\ s.start_period \in Periods /\ current_period - 1 \in Periods
      /\ current_period - 1 # current_period
  BY CurrentType, SMT DEF Subscription
<1>2. /\ performance[s.start_period] \in Performance /\ performance[s.start_period].rate > 0
      /\ performance[current_period - 1] \in Performance
  BY <1>1, CurrentType DEF Inv, RatesKnown
<1>3. /\ performance[s.start_period].rate \in Nat
      /\ performance[current_period - 1].rate \in Nat
  BY <1>2 DEF Performance
<1>4. performance[current_period - 1].rate * s.grams \in Nat
  BY <1>1, <1>3, SMT
<1> QED BY <1>1, <1>2, <1>3, <1>4, DivNat DEF Payout, UnitsOf

\* The end of a subscription.
LEMMA RedeemedType ==
    ASSUME NEW s \in Subscription, current_period \in Nat
    PROVE  /\ Redeemed(s) \in Subscription
           /\ Redeemed(s).subscriber = s.subscriber
           /\ Redeemed(s).start_period = s.start_period
           /\ Redeemed(s).status = 2 /\ Redeemed(s).end_period = current_period
BY SMT DEF Redeemed, Ended, Subscription

\* Ending an active subscription keeps the states of all.
LEMMA EndSubscriptionInv ==
    ASSUME Inv, UNCHANGED current_period, NEW id \in DOMAIN subscriptions,
           NEW s \in Subscription, subscriptions' = [subscriptions EXCEPT ![id] = s],
           s.start_period = subscriptions[id].start_period,
           s.start_period < current_period,
           s.status = 2, s.end_period = current_period
    PROVE  subscriptions' \in Seq(Subscription) /\ SubscriptionStates'
<1>1. /\ current_period \in Nat /\ subscriptions \in Seq(Subscription)
      /\ subscriptions' \in Seq(Subscription) /\ DOMAIN subscriptions' = DOMAIN subscriptions
  BY SMT DEF Inv, TypeOK
<1>2. s.start_period \in Nat /\ s.end_period \in Nat
  BY DEF Subscription
<1>3. ASSUME NEW i \in DOMAIN subscriptions'
      PROVE  /\ subscriptions'[i].start_period <= current_period'
             /\ subscriptions'[i].status # 0
             /\ subscriptions'[i].status = 2 <=> subscriptions'[i].end_period # 0
             /\ subscriptions'[i].status = 2 =>
                    subscriptions'[i].end_period
                        \in (subscriptions'[i].start_period + 1)..current_period'
  <2>1. CASE i = id
    BY <1>1, <1>2, <2>1, SMT
  <2>2. CASE i # id
    BY <1>1, <2>2 DEF Inv, SubscriptionStates
  <2> QED BY <2>1, <2>2
<1> QED BY <1>1, <1>3 DEF SubscriptionStates

\* A redemption touches the record of the period and one subscription only.
LEMMA RedemptionInv ==
    ASSUME Inv, Initialised,
           NEW aum \in Nat, NEW deposits \in Nat, NEW withdrawals \in Nat,
           performance' = SetCurrent(aum, deposits, withdrawals),
           subscriptions' \in Seq(Subscription), SubscriptionStates',
           UNCHANGED <<current_period, config, nominators, subscribers>>,
           balance' \in Nat, outbox' \in Seq(Message)
    PROVE  Inv'
<1>1. /\ performance' \in [Periods' -> Performance] /\ RatesKnown'
      /\ Initialised' /\ Periods' = Periods
  BY SetCurrentInv
<1> QED BY <1>1 DEF Inv, TypeOK

\* The redemption of a matured subscription keeps the invariant.
LEMMA RedeemMaturedInv ==
    ASSUME Inv, NEW u \in Users, NEW id \in DOMAIN subscriptions,
           NEW v \in CallValues, NEW g \in Gas, RedeemMatured(u, id, v, g)
    PROVE  Inv'
<1> DEFINE s == subscriptions[id]
           sent == SendValue(Payout(s), v, g)
<1>1. /\ Redeemable(u, id, v)
      /\ s.start_period # current_period
      /\ Storable(Current.aum - Payout(s))
      /\ performance' = SetCurrent(Current.aum - Payout(s), Current.deposits,
                                   Current.withdrawals + UnitsOf(s))
      /\ subscriptions' = [subscriptions EXCEPT ![id] = Redeemed(s)]
      /\ UNCHANGED <<current_period, config, nominators, subscribers>>
      /\ Payable(sent)
      /\ Affordable(sent, v, g)
      /\ balance' = Credited(v, g) - sent
      /\ outbox' = <<Msg(<<Basechain, u>>, "REDM", sent - FwdFee)>>
  BY DEF RedeemMatured
<1>2. /\ Initialised /\ s \in Subscription /\ s.start_period <= current_period
  BY <1>1, RedeemableFacts
<1>3. v \in Nat /\ g \in Nat /\ balance \in Nat
  BY AmountAssumption DEF Inv, TypeOK
<1>4. Payout(s) \in Nat /\ UnitsOf(s) \in Nat
  BY <1>1, <1>2, PayoutType
<1>5. /\ Current.aum - Payout(s) \in Nat /\ Current.deposits \in Nat
      /\ Current.withdrawals + UnitsOf(s) \in Nat
  <2>1. /\ Current.aum \in Nat /\ Current.deposits \in Nat /\ Current.withdrawals \in Nat
    BY <1>2, CurrentType
  <2>2. Current.aum - Payout(s) >= 0
    BY <1>1 DEF Storable
  <2> QED BY <1>4, <2>1, <2>2, SMT
<1>6. sent \in Int
  BY <1>3, <1>4, SMT DEF SendValue
<1>7. subscriptions' \in Seq(Subscription) /\ SubscriptionStates'
  <2>1. current_period \in Nat /\ s.start_period \in Nat /\ s.start_period < current_period
    BY <1>1, <1>2, CurrentType, SMT DEF Subscription
  <2>2. /\ Redeemed(s) \in Subscription
        /\ Redeemed(s).start_period = s.start_period
        /\ Redeemed(s).status = 2 /\ Redeemed(s).end_period = current_period
    BY <1>2, <2>1, RedeemedType
  <2> QED BY <1>1, <1>2, <2>1, <2>2, EndSubscriptionInv
<1> HIDE DEF sent
<1>8. balance' \in Nat
  BY <1>1, <1>3, <1>6, SMT DEF Affordable, Credited
<1>9. outbox' \in Seq(Message)
  <2>1. sent - FwdFee \in Nat
    BY <1>1, <1>6, AmountAssumption, SMT DEF Payable
  <2>2. Msg(<<Basechain, u>>, "REDM", sent - FwdFee) \in Message
    BY <2>1 DEF Msg, Message
  <2> QED BY <1>1, <2>2, SMT
<1> QED BY <1>1, <1>2, <1>5, <1>7, <1>8, <1>9, RedemptionInv

\* The results of the divisions at the end of a period can be stored.
LEMMA NewPeriodTypes ==
    ASSUME Inv, Initialised, PeriodCloses
    PROVE  /\ NewRate \in Nat /\ NewRate > 0 /\ NewUnits \in Nat
           /\ Profitable => OwnersShare \in Nat
<1>1. ManagedAum \in Int /\ ManagedUnits \in Int /\ Current.aum \in Nat
  BY CurrentType, SMT DEF ManagedAum, ManagedUnits
<1>2. NewRate \in Nat /\ NewRate > 0
  <2>1. NewRate \in Int
    BY <1>1, FloorDivInt DEF PeriodCloses, NewRate
  <2> QED BY <2>1, SMT DEF PeriodCloses
<1>3. NewUnits \in Nat
  BY <1>1, <1>2, DivNat DEF NewUnits
<1>4. ASSUME Profitable PROVE OwnersShare \in Nat
  <2>1. PreviousRate \in Nat
    <3>1. performance[current_period - 1] \in Performance
      BY CurrentType, SMT
    <3> QED BY <3>1 DEF PreviousRate, Performance
  <2>2. config.owner_fee \in Nat
    BY DEF Inv, TypeOK, Config
  <2> DEFINE a == ManagedUnits * NewRate
             b == ManagedUnits * PreviousRate
  <2>3. a \in Int /\ b \in Int
    BY <1>1, <1>2, <2>1, SMT
  <2>4. a > b
    BY <1>4 DEF Profitable
  <2>5. OwnersShare = ((a - b) * config.owner_fee) \div FeeBase
    BY DEF OwnersShare
  <2> HIDE DEF a, b
  <2>6. a - b \in Nat
    BY <2>3, <2>4, SMT
  <2>7. (a - b) * config.owner_fee \in Nat
    BY <2>2, <2>6, SMT
  <2> QED BY <2>5, <2>7, DivNat, SMT DEF FeeBase
<1> QED BY <1>2, <1>3, <1>4

\* The end of a period keeps the invariant.
LEMMA NewPeriodInv ==
    ASSUME Inv, NEW v \in CallValues, NEW g \in Gas, NewPeriod(v, g)
    PROVE  Inv'
<1>1. /\ Initialised /\ PeriodCloses
      /\ subscriptions' = IF Profitable THEN AddSubscription(IncentiveSubscription)
                          ELSE subscriptions
      /\ performance' = Put([performance EXCEPT ![current_period] = ClosedPerformance],
                            current_period + 1, OpenPerformance(Current.aum, NewUnits))
      /\ current_period' = current_period + 1
      /\ UNCHANGED <<config, nominators, subscribers>>
      /\ Keep(v, g)
  BY DEF NewPeriod
<1>2. /\ current_period \in Nat /\ current_period > 0 /\ Current \in Performance
      /\ Current.aum \in Nat /\ Periods = 0..current_period
      /\ performance \in [0..current_period -> Performance]
  BY <1>1, CurrentType
<1>3. NewRate \in Nat /\ NewRate > 0 /\ NewUnits \in Nat
  BY <1>1, NewPeriodTypes
<1>4. Initialised' /\ Periods' = 0..(current_period + 1)
  BY <1>1, <1>2, SMT DEF Initialised, Periods
<1>5. /\ performance' \in [0..(current_period + 1) -> Performance]
      /\ performance'[current_period].rate = NewRate
      /\ \A p \in 0..current_period : p # current_period => performance'[p] = performance[p]
  <2> DEFINE closed == ClosedPerformance
             open == OpenPerformance(Current.aum, NewUnits)
             perf == [performance EXCEPT ![current_period] = closed]
  <2>1. closed \in Performance /\ closed.rate = NewRate
    BY <1>2, <1>3 DEF ClosedPerformance, Performance
  <2>2. open \in Performance
    BY <1>2, <1>3 DEF OpenPerformance, Performance
  <2>3. performance' = [x \in DOMAIN perf \cup {current_period + 1} |->
                            IF x = current_period + 1 THEN open ELSE perf[x]]
    BY <1>1 DEF Put
  <2> HIDE DEF closed, open
  <2>4. /\ perf \in [0..current_period -> Performance] /\ perf[current_period] = closed
        /\ \A p \in 0..current_period : p # current_period => perf[p] = performance[p]
    BY <1>2, <2>1, SMT
  <2> HIDE DEF perf
  <2>5. DOMAIN perf \cup {current_period + 1} = 0..(current_period + 1)
    BY <1>2, <2>4, SMT
  <2> QED BY <1>2, <2>1, <2>2, <2>3, <2>4, <2>5, SMT
<1>6. subscriptions' \in Seq(Subscription) /\ SubscriptionStates'
  <2>1. CASE Profitable
    <3>1. OwnersShare \in Nat /\ config.owner \in Users
      BY <1>1, <2>1, NewPeriodTypes DEF Inv, TypeOK, Config
    <3>2. subscriptions' = AddSubscription(NewSubscription(config.owner, OwnersShare, current_period))
      BY <1>1, <2>1 DEF IncentiveSubscription
    <3>3. current_period' \in Nat /\ current_period' >= current_period
      BY <1>1, <1>2, SMT
    <3> QED BY <3>1, <3>2, <3>3, AddSubscriptionInv
  <2>2. CASE ~ Profitable
    <3>1. subscriptions' = subscriptions /\ subscriptions \in Seq(Subscription)
      BY <1>1, <2>2 DEF Inv, TypeOK
    <3>2. \A id \in DOMAIN subscriptions : subscriptions[id] \in Subscription
      BY <3>1, SMT
    <3>3. current_period' \in Nat /\ current_period' >= current_period
      BY <1>1, <1>2, SMT
    <3>4. \A id \in DOMAIN subscriptions :
            /\ subscriptions[id].start_period <= current_period /\ subscriptions[id].status # 0
            /\ subscriptions[id].status = 2 <=> subscriptions[id].end_period # 0
            /\ subscriptions[id].status = 2 =>
                   subscriptions[id].end_period \in (subscriptions[id].start_period + 1)..current_period
      BY DEF Inv, SubscriptionStates
    <3>5. SubscriptionStates'
      BY <1>2, <3>1, <3>2, <3>3, <3>4, StatesLast DEF SubscriptionStates
    <3> QED BY <3>1, <3>5
  <2> QED BY <2>1, <2>2
<1>7. RatesKnown'
  <2> SUFFICES ASSUME NEW p \in 0..(current_period + 1), p # current_period + 1
               PROVE  performance'[p].rate > 0
    BY <1>1, <1>4 DEF RatesKnown
  <2>1. CASE p = current_period
    BY <1>3, <1>5, <2>1
  <2>2. CASE p # current_period
    <3>1. p \in Periods /\ performance'[p] = performance[p]
      BY <1>2, <1>5, <2>2, SMT
    <3> QED BY <2>2, <3>1 DEF RatesKnown, Inv
  <2> QED BY <2>1, <2>2
<1>8. balance' \in Nat /\ outbox' \in Seq(Message)
  BY <1>1, KeepStep
<1>9. TypeOK'
  <2>1. current_period' \in Nat /\ Periods \subseteq Periods'
    BY <1>1, <1>2, <1>4, SMT
  <2>2. \A u \in Users : /\ DOMAIN subscribers'[u] \subseteq Periods'
                         /\ \A p \in DOMAIN subscribers'[u] : subscribers'[u][p] \in Nat
    BY <1>1, <2>1 DEF Inv, TypeOK
  <2>3. performance' \in [Periods' -> Performance]
    BY <1>4, <1>5
  <2> QED BY <1>1, <1>6, <1>8, <2>1, <2>2, <2>3 DEF Inv, TypeOK
<1> QED BY <1>1, <1>4, <1>6, <1>7, <1>9 DEF Inv

\* A change of the configuration cell, its nominators included.
LEMMA ConfigInv ==
    ASSUME Inv, UNCHANGED <<current_period, performance, subscriptions, subscribers>>,
           config' \in Config,
           DOMAIN nominators' \subseteq Nominators \cup Nat,
           \A a \in DOMAIN nominators' : nominators'[a] \in Nominator,
           balance' \in Nat, outbox' \in Seq(Message)
    PROVE  Inv'
BY DEF Inv, TypeOK, RatesKnown, SubscriptionStates, Initialised, Periods

\* A change of the status of a nominator keeps the invariant.
LEMMA ActivateWalletInv ==
    ASSUME Inv, NEW a \in DOMAIN nominators, NEW st \in 0..2,
           NEW v \in CallValues, NEW g \in Gas, ActivateWallet(a, st, v, g)
    PROVE  Inv'
<1> DEFINE k == nominators[a].wallet_id
           r == [nominators[a] EXCEPT !.status = st]
<1>1. /\ nominators[a] \in Nominator
      /\ DOMAIN nominators \subseteq Nominators \cup Nat
      /\ \A x \in DOMAIN nominators : nominators[x] \in Nominator
  BY DEF Inv, TypeOK
<1>2. k \in Nat /\ r \in Nominator
  BY <1>1, SMT DEF Nominator
<1>3. nominators' = [x \in DOMAIN nominators \cup {k} |-> IF x = k THEN r ELSE nominators[x]]
  BY DEF ActivateWallet, Put
<1> HIDE DEF k, r
<1>4. /\ DOMAIN nominators' \subseteq Nominators \cup Nat
      /\ \A x \in DOMAIN nominators' : nominators'[x] \in Nominator
  BY <1>1, <1>2, <1>3
<1>6. balance' \in Nat /\ outbox' \in Seq(Message)
  BY KeepStep DEF ActivateWallet
<1>7. /\ UNCHANGED <<current_period, config, performance, subscriptions, subscribers>>
      /\ config \in Config
  BY DEF ActivateWallet, Inv, TypeOK
<1> QED BY <1>4, <1>6, <1>7, ConfigInv

\* An order to set the configuration keeps the invariant.
LEMMA SetConfigInv ==
    ASSUME Inv, NEW wc \in {Basechain, Masterchain}, NEW u \in Users, NEW o \in ConfigOrders,
           NEW v \in CallValues, NEW g \in Gas, SetConfig(<<wc, u>>, o, v, g)
    PROVE  Inv'
<1>1. o \in ConfigOrder /\ config \in Config
  BY ConfigAssumption DEF Inv, TypeOK
<1> DEFINE tf == IF 1 \in o.options THEN o.transaction_fee ELSE config.transaction_fee
           ma == IF 2 \in o.options THEN o.min_amount ELSE config.min_amount
           of == IF 4 \in o.options THEN o.owner_fee ELSE config.owner_fee
           pf == IF 8 \in o.options THEN o.penalty_fee ELSE config.penalty_fee
           ow == IF 16 \in o.options THEN u ELSE config.owner
           po == NewPending(o)
<1>2. tf \in Nat /\ ma \in Nat /\ of \in Nat /\ pf \in Nat
  BY <1>1 DEF ConfigOrder, Config
<1>3. ow \in Users /\ po \in Users \cup {NoOwner}
  BY <1>1 DEF ConfigOrder, Config, NewPending
<1>4. config' = [transaction_fee |-> tf, min_amount |-> ma, owner_fee |-> of,
                 penalty_fee |-> pf, owner |-> ow, pending_owner |-> po]
  BY DEF SetConfig
<1> HIDE DEF tf, ma, of, pf, ow, po
<1>5. config' \in Config
  BY <1>2, <1>3, <1>4 DEF Config
<1>6. balance' \in Nat /\ outbox' \in Seq(Message)
  BY KeepStep DEF SetConfig
<1>7. UNCHANGED <<current_period, nominators, performance, subscriptions, subscribers>>
  BY DEF SetConfig
<1> QED BY <1>5, <1>6, <1>7, ConfigInv DEF Inv, TypeOK

\* A balance report keeps the invariant.
LEMMA GotBalanceInv ==
    ASSUME Inv, NEW a \in Nominators, NEW b \in Reports, NEW stake \in Reports,
           NEW v \in CallValues, NEW g \in Gas, GotBalance(a, b, stake, v, g)
    PROVE  Inv'
<1> DEFINE r == [status |-> nominators[a].status, balance |-> b, stake |-> stake,
                 wallet_id |-> nominators[a].wallet_id]
<1>1. /\ Initialised /\ a \in DOMAIN nominators
      /\ nominators' = [nominators EXCEPT ![a] = r]
      /\ performance' = SetCurrent(Current.aum + b + stake, Current.deposits,
                                   Current.withdrawals)
      /\ UNCHANGED <<current_period, config, subscriptions, subscribers>>
      /\ Keep(v, g)
  BY DEF GotBalance, AddReport
<1>2. /\ b \in Nat /\ stake \in Nat /\ nominators[a] \in Nominator
      /\ DOMAIN nominators \subseteq Nominators \cup Nat
      /\ \A x \in DOMAIN nominators : nominators[x] \in Nominator
  BY <1>1, AmountAssumption DEF Inv, TypeOK
<1>3. r \in Nominator
  BY <1>2 DEF Nominator
<1> HIDE DEF r
<1>4. /\ DOMAIN nominators' = DOMAIN nominators
      /\ \A x \in DOMAIN nominators' : nominators'[x] \in Nominator
  BY <1>1, <1>2, <1>3
<1>5. /\ Current.aum + b + stake \in Nat /\ Current.deposits \in Nat
      /\ Current.withdrawals \in Nat
  BY <1>1, <1>2, CurrentType, SMT
<1>6. /\ performance' \in [Periods' -> Performance] /\ RatesKnown'
      /\ Initialised' /\ Periods' = Periods
  BY <1>1, <1>5, SetCurrentInv
<1>7. balance' \in Nat /\ outbox' \in Seq(Message)
  BY <1>1, KeepStep
<1>8. SubscriptionStates'
  BY <1>1 DEF Inv, SubscriptionStates
<1> QED BY <1>1, <1>2, <1>4, <1>6, <1>7, <1>8 DEF Inv, TypeOK

\* A request for balance reports keeps the invariant.
LEMMA FetchBalancesInv ==
    ASSUME Inv, NEW v \in CallValues, NEW g \in Gas, FetchBalances(v, g)
    PROVE  Inv'
<1>1. /\ Initialised /\ performance' = SetCurrent(balance + v, Current.deposits, Current.withdrawals)
      /\ UNCHANGED <<current_period, config, nominators, subscriptions, subscribers>>
      /\ Keep(v, g)
  BY DEF FetchBalances, ResetAum
<1>2. balance \in Nat /\ v \in Nat
  BY AmountAssumption DEF Inv, TypeOK
<1>3. balance + v \in Nat /\ Current.deposits \in Nat /\ Current.withdrawals \in Nat
  BY <1>1, <1>2, CurrentType, SMT
<1>4. subscriptions' \in Seq(Subscription) /\ SubscriptionStates'
  BY <1>1 DEF Inv, TypeOK, SubscriptionStates
<1>5. balance' \in Nat /\ outbox' \in Seq(Message)
  BY <1>1, KeepStep
<1> QED BY <1>1, <1>3, <1>4, <1>5, RedemptionInv

\* The steps of the pool: either the data stays as it was and nobody is paid, or one of
\* the handlers runs to its end.
LEMMA StepCases ==
    ASSUME Inv, Next
    PROVE  \/ UNCHANGED data /\ NoPayment
           \/ \E g \in Gas : TryInit(g)
           \/ \E u \in Users, v \in Deposits, g \in Gas : Subscribe(u, v, g)
           \/ \E u \in Users, id \in DOMAIN subscriptions, v \in CallValues, g \in Gas :
                  RedeemMatured(u, id, v, g)
           \/ \E v \in CallValues, g \in Gas : NewPeriod(v, g)
           \/ \E a \in DOMAIN nominators, st \in 0..2, v \in CallValues, g \in Gas :
                  ActivateWallet(a, st, v, g)
           \/ \E v \in CallValues, g \in Gas : FetchBalances(v, g)
           \/ \E wc \in {Basechain, Masterchain}, u \in Users, o \in ConfigOrders,
                 v \in CallValues, g \in Gas : SetConfig(<<wc, u>>, o, v, g)
           \/ \E a \in Nominators, b, stake \in Reports, v \in CallValues, g \in Gas :
                  GotBalance(a, b, stake, v, g)
<1>1. balance \in Nat /\ config.owner \in Users
  BY DEF Inv, TypeOK, Config
<1>2. 0 \in Nat
  OBVIOUS
<1>3. ASSUME NEW v \in Deposits, Fund(v)
      PROVE  UNCHANGED data /\ NoPayment
  <2>1. v \in Nat
    BY AmountAssumption
  <2> QED BY <1>1, <1>2, <1>3, <2>1, KeepTypes DEF Fund
<1>4. ASSUME NEW v \in Deposits, NEW g \in Gas, TopUp(v, g)
      PROVE  UNCHANGED data /\ NoPayment
  BY <1>1, <1>4, KeepTypes, AmountAssumption DEF TopUp
<1>5. ASSUME NEW v \in Deposits, NEW g \in Gas, NEW u \in Users, NEW bounce \in BOOLEAN,
             SubscribeThrows(u, v, g, bounce)
      PROVE  UNCHANGED data /\ NoPayment
  <2>1. v \in Nat /\ g \in Nat /\ <<Basechain, u>> \in {Basechain, Masterchain} \X Users
    BY AmountAssumption
  <2>2. Thrown(<<Basechain, u>>, v, g, bounce, TRUE)
    BY <1>5 DEF SubscribeThrows
  <2> QED BY <1>1, <2>1, <2>2, ThrownTypes
<1>6. ASSUME NEW v \in CallValues, NEW g \in Gas, Unsent(v, g)
      PROVE  UNCHANGED data /\ NoPayment
  BY <1>1, <1>6, KeepTypes, AmountAssumption DEF Unsent
<1>7. ASSUME NEW v \in CallValues, NEW g \in Gas, NEW wc \in {Basechain, Masterchain},
             NEW u \in Users, NEW bounce, NEW accepted,
             Thrown(<<wc, u>>, v, g, bounce, accepted)
      PROVE  UNCHANGED data /\ NoPayment
  <2>1. v \in Nat /\ g \in Nat /\ <<wc, u>> \in {Basechain, Masterchain} \X Users
    BY AmountAssumption
  <2> QED BY <1>1, <1>7, <2>1, ThrownTypes
<1>8. ASSUME NEW v \in Deposits, NEW g \in Gas, SubscriberStep(v, g)
      PROVE  \/ UNCHANGED data /\ NoPayment
             \/ \E u \in Users : Subscribe(u, v, g)
  BY <1>5, <1>8 DEF SubscriberStep
<1>9. ASSUME NEW v \in CallValues, NEW g \in Gas, RedeemStep(v, g)
      PROVE  \/ UNCHANGED data /\ NoPayment
             \/ \E u \in Users, id \in DOMAIN subscriptions :
                    RedeemMatured(u, id, v, g)
  BY <1>6, <1>7, <1>9 DEF RedeemStep, RedeemEarly, RedeemMaturedUnsent, RedeemMaturedThrows
<1>10. ASSUME NEW v \in CallValues, NEW g \in Gas, OwnerStep(v, g)
      PROVE  \/ UNCHANGED data /\ NoPayment
             \/ NewPeriod(v, g)
             \/ \E a \in DOMAIN nominators, st \in 0..2 : ActivateWallet(a, st, v, g)
             \/ FetchBalances(v, g)
  BY <1>1, <1>6, <1>7, <1>10 DEF OwnerStep, NewPeriodThrows, TransferToWallet, FetchBalancesUnsent
<1>11. ASSUME NEW v \in CallValues, NEW g \in Gas, RejectStep(v, g)
      PROVE  UNCHANGED data /\ NoPayment
  BY <1>7, <1>11 DEF RejectStep, Reject
<1> QED BY <1>3, <1>4, <1>8, <1>9, <1>10, <1>11 DEF Next, ConfigStep, NominatorStep

\* Every step of the pool keeps the invariant.
LEMMA NextInv == Inv /\ [Next]_vars => Inv'
<1> SUFFICES ASSUME Inv, [Next]_vars PROVE Inv'
  OBVIOUS
<1>1. CASE UNCHANGED vars
  BY <1>1, DataUnchanged DEF vars, Inv, TypeOK
<1>2. CASE Next
  <2>1. CASE UNCHANGED data /\ NoPayment
    BY <2>1, DataUnchanged DEF NoPayment
  <2> QED BY <1>2, <2>1, StepCases, TryInitInv, SubscribeInv, RedeemMaturedInv,
             NewPeriodInv, ActivateWalletInv, FetchBalancesInv,
             SetConfigInv, GotBalanceInv
<1> QED BY <1>1, <1>2

-----------------------------------------------------------------------------
(***************************************************************************)
(* The invariants                                                          *)
(***************************************************************************)

\* Every behaviour of the pool keeps the inductive invariant.
THEOREM PoolInvariant == Spec => []Inv
BY InitInv, NextInv, PTL DEF Spec

\* No handler stores a value outside the range of its cell: the checks of process_redeem
\* and the exceptions of store_grams keep every amount and the balance from going
\* below zero, and every period up to the current one keeps a performance record.
THEOREM PoolTypeCorrect == Spec => []TypeOK
<1>1. Inv => TypeOK
  BY DEF Inv
<1> QED BY <1>1, PoolInvariant, PTL

\* The divisor of process_redeem is never zero: the rates a redemption needs are set
\* for every active subscription.
THEOREM PoolRedemptionRateKnown == Spec => []RedemptionRateKnown
<1>1. Inv => RedemptionRateKnown
  <2> SUFFICES ASSUME Inv, NEW id \in DOMAIN subscriptions,
                      subscriptions[id].start_period # current_period
               PROVE  /\ subscriptions[id].start_period \in 0..(current_period - 1)
                      /\ performance[subscriptions[id].start_period].rate > 0
                      /\ performance[current_period - 1].rate > 0
    BY DEF RedemptionRateKnown
  <2>1. Initialised
    BY SMT DEF Inv
  <2>2. /\ subscriptions[id] \in Subscription
        /\ subscriptions[id].start_period <= current_period
    BY SMT DEF Inv, TypeOK, SubscriptionStates
  <2>3. /\ current_period \in Nat /\ current_period > 0 /\ Periods = 0..current_period
        /\ subscriptions[id].start_period \in Nat
    BY <2>1, <2>2, CurrentType DEF Subscription
  <2> QED BY <2>2, <2>3, SMT DEF Inv, RatesKnown
<1> QED BY <1>1, PoolInvariant, PTL

\* The status, the start and the end period of every subscription agree, whatever the
\* order of subscriptions, redemptions and period ends.
THEOREM PoolSubscriptionStates == Spec => []SubscriptionStates
<1>1. Inv => SubscriptionStates
  BY DEF Inv
<1> QED BY <1>1, PoolInvariant, PTL

-----------------------------------------------------------------------------
(***************************************************************************)
(* What no step may do, and the subscription ledger                        *)
(***************************************************************************)

\* A new record for the open period leaves the closed ones alone.
LEMMA SetCurrentFrozen ==
    ASSUME Inv, Initialised, NEW aum, NEW deposits, NEW withdrawals,
           performance' = SetCurrent(aum, deposits, withdrawals),
           NEW p \in DOMAIN performance, p < current_period
    PROVE  performance'[p] = performance[p]
<1>1. p # current_period /\ p \in 0..current_period
  BY CurrentType, SMT
<1> QED BY <1>1, CurrentType DEF SetCurrent

\* The records of closed periods, and with them the rates of later redemptions, never
\* change: neither a late report nor a redemption reaches back.
THEOREM PoolClosedPeriodsFrozen == Spec => ClosedPeriodsFrozen
<1> DEFINE Frozen == \A p \in DOMAIN performance :
                         p < current_period => performance'[p] = performance[p]
<1>1. ASSUME Inv, Next, NEW p \in DOMAIN performance, p < current_period
      PROVE  performance'[p] = performance[p]
  <2>1. ASSUME NEW g \in Gas, TryInit(g) PROVE performance'[p] = performance[p]
    BY <1>1, <2>1 DEF TryInit, Inv, TypeOK, Periods
  <2>2. ASSUME NEW v \in CallValues, NEW g \in Gas, NewPeriod(v, g)
        PROVE  performance'[p] = performance[p]
    <3>1. /\ Initialised
          /\ performance' = Put([performance EXCEPT ![current_period] = ClosedPerformance],
                                current_period + 1, OpenPerformance(Current.aum, NewUnits))
      BY <2>2 DEF NewPeriod
    <3>2. /\ current_period \in Nat /\ performance \in [0..current_period -> Performance]
          /\ p \in 0..current_period /\ p # current_period /\ p # current_period + 1
      BY <1>1, <3>1, CurrentType, SMT
    <3> DEFINE perf == [performance EXCEPT ![current_period] = ClosedPerformance]
               open == OpenPerformance(Current.aum, NewUnits)
    <3>3. perf[p] = performance[p] /\ p \in DOMAIN perf
      BY <3>2
    <3>4. performance' = [x \in DOMAIN perf \cup {current_period + 1} |->
                              IF x = current_period + 1 THEN open ELSE perf[x]]
      BY <3>1 DEF Put
    <3> HIDE DEF perf, open
    <3> QED BY <3>2, <3>3, <3>4
  <2>3. ASSUME NEW u \in Users, NEW v \in Deposits, NEW g \in Gas, Subscribe(u, v, g)
        PROVE  performance'[p] = performance[p]
    BY <1>1, <2>3, SetCurrentFrozen DEF Subscribe
  <2>4. ASSUME NEW u \in Users, NEW id \in DOMAIN subscriptions, NEW v \in CallValues,
               NEW g \in Gas, RedeemMatured(u, id, v, g)
        PROVE  performance'[p] = performance[p]
    BY <1>1, <2>4, SetCurrentFrozen DEF RedeemMatured, Redeemable
  <2>5. ASSUME NEW v \in CallValues, NEW g \in Gas, FetchBalances(v, g)
        PROVE  performance'[p] = performance[p]
    BY <1>1, <2>5, SetCurrentFrozen DEF FetchBalances, ResetAum
  <2>6. ASSUME NEW a \in Nominators, NEW b \in Reports, NEW stake \in Reports,
               NEW v \in CallValues, NEW g \in Gas, GotBalance(a, b, stake, v, g)
        PROVE  performance'[p] = performance[p]
    BY <1>1, <2>6, SetCurrentFrozen DEF GotBalance, AddReport
  <2>7. UNCHANGED performance \/ performance'[p] = performance[p]
    BY <1>1, <2>1, <2>2, <2>3, <2>4, <2>5, <2>6, StepCases DEF ActivateWallet, SetConfig, data
  <2> QED BY <2>7
<1>2. Inv /\ [Next]_vars => [Frozen]_vars
  BY <1>1
<1> QED BY <1>2, PoolInvariant, PTL DEF Spec, ClosedPeriodsFrozen

-----------------------------------------------------------------------------
(***************************************************************************)
(* What a step does to the subscriptions                                   *)
(***************************************************************************)

Deployed ==
    /\ ~ Initialised /\ current_period' = 1
    /\ subscriptions' = <<NewSubscription(config.owner, balance, 0)>>

\* A subscription is added to the period that is open before the step.
Added ==
    \E u \in Users, grams \in Nat :
        subscriptions' = Append(subscriptions, NewSubscription(u, grams, current_period))

RedeemedOne(id) ==
    /\ subscriptions[id].status = 1 /\ subscriptions[id].start_period < current_period
    /\ subscriptions' = [subscriptions EXCEPT ![id] = Redeemed(subscriptions[id])]
    /\ UNCHANGED current_period

\* What a step does to the subscriptions: it deploys, adds one, ends one, or leaves them.
LEMMA SubscriptionSteps ==
    ASSUME Inv, Next
    PROVE  \/ UNCHANGED <<current_period, subscriptions>>
           \/ Deployed
           \/ Initialised /\ Added /\ UNCHANGED current_period
           \/ \E id \in DOMAIN subscriptions : RedeemedOne(id)
           \/ /\ Initialised /\ current_period' = current_period + 1
              /\ UNCHANGED subscriptions \/ Added
<1>1. ASSUME NEW g \in Gas, TryInit(g) PROVE Deployed
  BY <1>1 DEF TryInit, Deployed
<1>2. ASSUME NEW u \in Users, NEW v \in Deposits, NEW g \in Gas, Subscribe(u, v, g)
      PROVE  Initialised /\ Added /\ UNCHANGED current_period
  <2>1. v - config.transaction_fee \in Nat
    BY <1>2, AmountAssumption, SMT DEF Subscribe, PaysFee, Inv, TypeOK, Config
  <2> QED BY <1>2, <2>1 DEF Subscribe, Added, AddSubscription
<1>4. ASSUME NEW u \in Users, NEW id \in DOMAIN subscriptions, NEW v \in CallValues,
             NEW g \in Gas, RedeemMatured(u, id, v, g)
      PROVE  RedeemedOne(id)
  <2>1. /\ Redeemable(u, id, v) /\ subscriptions[id].start_period # current_period
        /\ subscriptions' = [subscriptions EXCEPT ![id] = Redeemed(subscriptions[id])]
        /\ UNCHANGED current_period
    BY <1>4 DEF RedeemMatured
  <2>2. subscriptions[id].start_period < current_period /\ subscriptions[id].status = 1
    BY <2>1, RedeemableFacts, CurrentType, SMT DEF Subscription
  <2> QED BY <2>1, <2>2 DEF RedeemedOne
<1>5. ASSUME NEW v \in CallValues, NEW g \in Gas, NewPeriod(v, g)
      PROVE  /\ Initialised /\ current_period' = current_period + 1
             /\ UNCHANGED subscriptions \/ Added
  <2>1. CASE Profitable
    <3>1. OwnersShare \in Nat /\ config.owner \in Users
      BY <1>5, <2>1, NewPeriodTypes DEF NewPeriod, Inv, TypeOK, Config
    <3> QED BY <1>5, <2>1, <3>1 DEF NewPeriod, Added, AddSubscription, IncentiveSubscription
  <2>2. CASE ~ Profitable
    BY <1>5, <2>2 DEF NewPeriod
  <2> QED BY <2>1, <2>2
<1>6. \/ UNCHANGED <<current_period, subscriptions>>
      \/ \E g \in Gas : TryInit(g)
      \/ \E u \in Users, v \in Deposits, g \in Gas : Subscribe(u, v, g)
      \/ \E u \in Users, id \in DOMAIN subscriptions, v \in CallValues, g \in Gas :
             RedeemMatured(u, id, v, g)
      \/ \E v \in CallValues, g \in Gas : NewPeriod(v, g)
  BY StepCases DEF ActivateWallet, FetchBalances, SetConfig, GotBalance, data
<1> QED BY <1>1, <1>2, <1>4, <1>5, <1>6

\* A subscription that ended stays as it ended, and none is removed, moved to another
\* period or to another subscriber: there is no second redemption.
THEOREM PoolSubscriptionsFinal == Spec => SubscriptionsFinal
<1> DEFINE Final(id) ==
        /\ id \in DOMAIN subscriptions'
        /\ subscriptions'[id].subscriber = subscriptions[id].subscriber
        /\ subscriptions'[id].start_period = subscriptions[id].start_period
        /\ subscriptions[id].status # 1 => subscriptions'[id] = subscriptions[id]
<1>1. ASSUME Inv, Next, NEW id \in DOMAIN subscriptions
      PROVE  Final(id)
  <2>1. subscriptions \in Seq(Subscription) /\ subscriptions[id] \in Subscription
    BY <1>1, SMT DEF Inv, TypeOK
  <2>2. Initialised /\ current_period \in Nat
    BY <1>1, SMT DEF Inv, TypeOK
  <2>3. ASSUME Added PROVE Final(id)
    <3>1. PICK u \in Users, grams \in Nat :
              subscriptions' = Append(subscriptions, NewSubscription(u, grams, current_period))
      BY <2>3 DEF Added
    <3>2. id \in DOMAIN subscriptions' /\ subscriptions'[id] = subscriptions[id]
      BY <2>1, <3>1, SMT
    <3> QED BY <3>2
  <2>5. ASSUME NEW e \in DOMAIN subscriptions, RedeemedOne(e) PROVE Final(id)
    <3>1. CASE id = e
      BY <2>1, <2>2, <2>5, <3>1, RedeemedType DEF RedeemedOne
    <3>2. CASE id # e
      BY <2>1, <2>5, <3>2 DEF RedeemedOne
    <3> QED BY <3>1, <3>2
  <2>6. ASSUME UNCHANGED subscriptions PROVE Final(id)
    BY <2>6
  <2> QED BY <1>1, <2>2, <2>3, <2>5, <2>6, SubscriptionSteps DEF Deployed
<1>2. Inv /\ [Next]_vars => [\A id \in DOMAIN subscriptions : Final(id)]_vars
  BY <1>1
<1> QED BY <1>2, PoolInvariant, PTL DEF Spec, SubscriptionsFinal

-----------------------------------------------------------------------------
(***************************************************************************)
(* Ownership, nominators and payments                                      *)
(***************************************************************************)

\* The handlers that leave the configuration cell alone.
LEMMA ConfigFrame ==
    ASSUME NEW v, NEW g
    PROVE  /\ \A u : Subscribe(u, v, g) =>
                  Initialised /\ UNCHANGED <<config, nominators>>
           /\ \A u, id : RedeemMatured(u, id, v, g) =>
                  Initialised /\ UNCHANGED <<config, nominators>>
           /\ NewPeriod(v, g) => Initialised /\ UNCHANGED <<config, nominators>>
           /\ FetchBalances(v, g) => Initialised /\ UNCHANGED <<config, nominators>>
           /\ \A a, st : ActivateWallet(a, st, v, g) => UNCHANGED config
           /\ \A a, b, stake : GotBalance(a, b, stake, v, g) => UNCHANGED config
           /\ \A src, o : SetConfig(src, o, v, g) => Initialised /\ UNCHANGED nominators
<1>1. \A u : Subscribe(u, v, g) => Initialised /\ UNCHANGED <<config, nominators>>
  BY DEF Subscribe
<1>3. \A u, id : RedeemMatured(u, id, v, g) => Initialised /\ UNCHANGED <<config, nominators>>
  BY DEF RedeemMatured, Redeemable
<1>4. NewPeriod(v, g) => Initialised /\ UNCHANGED <<config, nominators>>
  BY DEF NewPeriod
<1>5. FetchBalances(v, g) => Initialised /\ UNCHANGED <<config, nominators>>
  BY DEF FetchBalances
<1>6. \A a, st : ActivateWallet(a, st, v, g) => UNCHANGED config
  BY DEF ActivateWallet
<1>7. \A a, b, stake : GotBalance(a, b, stake, v, g) => UNCHANGED config
  BY DEF GotBalance
<1>8. \A src, o : SetConfig(src, o, v, g) => Initialised /\ UNCHANGED nominators
  BY DEF SetConfig
<1> QED BY <1>1, <1>3, <1>4, <1>5, <1>6, <1>7, <1>8

\* process_set_config makes nobody the owner but the pending owner, and an order that
\* changes the owner changes no fee.
THEOREM PoolOwnershipTakesTwoSteps == Spec => OwnershipTakesTwoSteps
<1> DEFINE TwoSteps ==
        config'.owner # config.owner =>
            /\ config'.owner = config.pending_owner
            /\ config'.transaction_fee = config.transaction_fee
            /\ config'.min_amount = config.min_amount
            /\ config'.owner_fee = config.owner_fee
            /\ config'.penalty_fee = config.penalty_fee
<1>1. ASSUME Inv, Next PROVE TwoSteps
  <2>1. ASSUME NEW wc \in {Basechain, Masterchain}, NEW u \in Users, NEW o \in ConfigOrders,
               NEW v \in CallValues, NEW g \in Gas, SetConfig(<<wc, u>>, o, v, g)
        PROVE  TwoSteps
    <3> SUFFICES ASSUME config'.owner # config.owner PROVE TwoSteps
      OBVIOUS
    <3>1. 16 \in o.options /\ config'.owner = u
      BY <2>1 DEF SetConfig
    <3>2. u = config.pending_owner
      BY <2>1, <3>1 DEF SetConfig, ConfigSender
    <3>3. o.options \cap {1, 2, 4, 8} = {}
      BY <2>1, <3>1 DEF SetConfig, ConfigSender
    <3>4. 1 \notin o.options /\ 2 \notin o.options /\ 4 \notin o.options /\ 8 \notin o.options
      BY <3>3
    <3> QED BY <2>1, <3>1, <3>2, <3>4 DEF SetConfig
  <2>2. ASSUME NEW g \in Gas, TryInit(g) PROVE TwoSteps
    BY <1>1, <2>2 DEF TryInit, Inv, TypeOK, Config
  <2>3. ASSUME UNCHANGED config PROVE TwoSteps
    BY <2>3
  <2>4. \/ UNCHANGED config
        \/ \E g \in Gas : TryInit(g)
        \/ \E wc \in {Basechain, Masterchain}, u \in Users, o \in ConfigOrders,
              v \in CallValues, g \in Gas : SetConfig(<<wc, u>>, o, v, g)
    BY <1>1, StepCases, ConfigFrame DEF data
  <2> HIDE DEF TwoSteps
  <2> QED BY <2>1, <2>2, <2>3, <2>4
<1>2. Inv /\ [Next]_vars => [TwoSteps]_vars
  BY <1>1
<1> QED BY <1>2, PoolInvariant, PTL DEF Spec, OwnershipTakesTwoSteps

\* try_init marks an address that is no hash of the nominator code, and neither
\* process_activate_wallet nor process_got_balance ever takes the mark off.
THEOREM PoolForeignStaysForeign == Spec => []ForeignStaysForeign
<1>1. Init => ForeignStaysForeign
  BY DEF Init, ForeignStaysForeign, EmptyDict
<1>2. ASSUME Inv, ForeignStaysForeign, Next PROVE ForeignStaysForeign'
  <2>1. ASSUME NEW g \in Gas, TryInit(g) PROVE ForeignStaysForeign'
    <3> DEFINE rec(n) == [status |-> IF n \in Genuine THEN InitStatus[n] ELSE 2,
                          balance |-> 0, stake |-> 0, wallet_id |-> WalletIdx[n]]
    <3>1. nominators' = [n \in Nominators |-> rec(n)]
      BY <2>1 DEF TryInit
    <3>2. ASSUME NEW n \in Nominators, ForeignIndex(rec(n).wallet_id)
          PROVE  rec(n).status = 2
      BY <3>2 DEF ForeignIndex
    <3> HIDE DEF rec
    <3> QED BY <3>1, <3>2 DEF ForeignStaysForeign, ForeignIndex
  <2>2. ASSUME NEW a \in DOMAIN nominators, NEW st \in 0..2, NEW v \in CallValues,
               NEW g \in Gas, ActivateWallet(a, st, v, g)
        PROVE  ForeignStaysForeign'
    <3> DEFINE k == nominators[a].wallet_id
               r == [nominators[a] EXCEPT !.status = st]
    <3>1. nominators' = [x \in DOMAIN nominators \cup {k} |->
                             IF x = k THEN r ELSE nominators[x]]
      BY <2>2 DEF ActivateWallet, Put
    <3>2. ~ ForeignIndex(nominators[a].wallet_id)
      BY <1>2, <2>2 DEF ActivateWallet, StatusMayChange, ForeignStaysForeign
    <3>3. r.wallet_id = nominators[a].wallet_id
      BY <1>2 DEF Inv, TypeOK, Nominator
    <3>4. ~ ForeignIndex(r.wallet_id)
      BY <3>2, <3>3
    <3> HIDE DEF k, r
    <3> QED BY <1>2, <3>1, <3>4 DEF ForeignStaysForeign, ForeignIndex
  <2>3. ASSUME NEW a \in Nominators, NEW b \in Reports, NEW stake \in Reports,
               NEW v \in CallValues, NEW g \in Gas, GotBalance(a, b, stake, v, g)
        PROVE  ForeignStaysForeign'
    <3> DEFINE r == [status |-> nominators[a].status, balance |-> b, stake |-> stake,
                     wallet_id |-> nominators[a].wallet_id]
    <3>1. a \in DOMAIN nominators /\ nominators' = [nominators EXCEPT ![a] = r]
      BY <2>3 DEF GotBalance
    <3>2. r.status = nominators[a].status /\ r.wallet_id = nominators[a].wallet_id
      OBVIOUS
    <3> HIDE DEF r
    <3> QED BY <1>2, <3>1, <3>2 DEF ForeignStaysForeign, ForeignIndex
  <2>4. ASSUME UNCHANGED nominators PROVE ForeignStaysForeign'
    BY <1>2, <2>4 DEF ForeignStaysForeign, ForeignIndex
  <2>5. \/ UNCHANGED nominators
        \/ \E g \in Gas : TryInit(g)
        \/ \E a \in DOMAIN nominators, st \in 0..2, v \in CallValues, g \in Gas :
               ActivateWallet(a, st, v, g)
        \/ \E a \in Nominators, b, stake \in Reports, v \in CallValues, g \in Gas :
               GotBalance(a, b, stake, v, g)
    BY <1>2, StepCases, ConfigFrame DEF data
  <2> QED BY <2>1, <2>2, <2>3, <2>4, <2>5
<1>3. Inv /\ ForeignStaysForeign /\ [Next]_vars => ForeignStaysForeign'
  <2>1. ASSUME ForeignStaysForeign, UNCHANGED vars PROVE ForeignStaysForeign'
    BY <2>1 DEF ForeignStaysForeign, ForeignIndex, vars, data
  <2> QED BY <1>2, <2>1
<1> QED BY <1>1, <1>3, PoolInvariant, PTL DEF Spec

\* The message i of a step pays what the subscription id is worth, and ends it.
Pays(i, id) ==
    /\ subscriptions[id].status = 1 /\ subscriptions'[id].status # 1
    /\ \A other \in DOMAIN subscriptions \ {id} : subscriptions'[other] = subscriptions[other]
    /\ outbox'[i].to = <<Basechain, subscriptions[id].subscriber>>
    /\ balance - balance' = Payout(subscriptions[id])

\* The message of a redemption: the gas is paid out of the value of the order.
LEMMA MaturedPays ==
    ASSUME Inv, NEW u \in Users, NEW id \in DOMAIN subscriptions, NEW v \in CallValues,
           NEW g \in Gas, RedeemMatured(u, id, v, g), NEW i \in DOMAIN outbox'
    PROVE  Pays(i, id)
<1> DEFINE s == subscriptions[id]
           m == Msg(<<Basechain, u>>, "REDM", SendValue(Payout(s), v, g) - FwdFee)
<1>1. /\ Redeemable(u, id, v)
      /\ subscriptions' = [subscriptions EXCEPT ![id] = Redeemed(s)]
      /\ outbox' = <<m>>
  BY DEF RedeemMatured
<1>2. /\ s \in Subscription /\ s.status = 1 /\ s.subscriber = u
      /\ subscriptions \in Seq(Subscription) /\ current_period \in Nat
  BY <1>1, RedeemableFacts DEF Inv, TypeOK
<1>3. /\ subscriptions'[id].status # 1
      /\ \A other \in DOMAIN subscriptions \ {id} : subscriptions'[other] = subscriptions[other]
  BY <1>1, <1>2, RedeemedType, SMT
<1>4. m.to = <<Basechain, u>>
  BY DEF Msg
<1>6. balance - balance' = Payout(s)
  <2>1. /\ s.start_period # current_period /\ Initialised /\ s.start_period <= current_period
        /\ balance' = Credited(v, g) - SendValue(Payout(s), v, g)
    BY <1>1, RedeemableFacts DEF RedeemMatured
  <2>2. Payout(s) \in Nat
    BY <1>2, <2>1, PayoutType
  <2>3. balance \in Nat /\ v \in Nat /\ g \in Nat
    BY AmountAssumption DEF Inv, TypeOK
  <2> QED BY <2>1, <2>2, <2>3, SMT DEF Credited, SendValue
<1> HIDE DEF m
<1>5. i = 1 /\ outbox'[i] = m
  BY <1>1, SMT
<1> QED BY <1>2, <1>3, <1>4, <1>5, <1>6 DEF Pays

\* No handler but process_redeem pays anybody, one payment ends one subscription, and it
\* costs the pool exactly what the subscription is worth.
THEOREM PoolPaymentsAreRedemptions == Spec => PaymentsAreRedemptions
<1> DEFINE Paid == \A i \in DOMAIN outbox' :
                       outbox'[i].op = "REDM" => \E id \in DOMAIN subscriptions : Pays(i, id)
<1>1. ASSUME Inv, Next, NEW i \in DOMAIN outbox', outbox'[i].op = "REDM"
      PROVE  \E id \in DOMAIN subscriptions : Pays(i, id)
  <2>1. outbox' # <<>> /\ ~ NoPayment
    BY <1>1, SMT DEF NoPayment
  <2>2. \A g : ~ TryInit(g)
    BY <2>1 DEF TryInit
  <2>3. \A u, v, g : ~ Subscribe(u, v, g)
    BY <2>1 DEF Subscribe, Keep
  <2>4. \A v, g : ~ NewPeriod(v, g)
    BY <2>1 DEF NewPeriod, Keep
  <2>5. \A a, st, v, g : ~ ActivateWallet(a, st, v, g)
    BY <2>1 DEF ActivateWallet, Keep
  <2>6. \A src, o, v, g : ~ SetConfig(src, o, v, g)
    BY <2>1 DEF SetConfig, Keep
  <2>7. \A a, b, stake, v, g : ~ GotBalance(a, b, stake, v, g)
    BY <2>1 DEF GotBalance, Keep
  <2>8. \A v, g : ~ FetchBalances(v, g)
    BY <2>1 DEF FetchBalances, Keep
  <2>9. \E u \in Users, id \in DOMAIN subscriptions, v \in CallValues, g \in Gas :
            RedeemMatured(u, id, v, g)
    BY <1>1, <2>1, <2>2, <2>3, <2>4, <2>5, <2>6, <2>7, <2>8, StepCases
  <2> QED BY <1>1, <2>9, MaturedPays
<1>2. Inv /\ [Next]_vars => [Paid]_vars
  BY <1>1
<1> QED BY <1>2, PoolInvariant, PTL DEF Spec, PaymentsAreRedemptions, Pays

-----------------------------------------------------------------------------
(***************************************************************************)
(* Who pays for the gas                                                    *)
(***************************************************************************)

\* The fee that the handlers ask for pays for the gas, whatever the owner has ordered.
FeeCoversGas == \A g \in Gas : g <= config.transaction_fee

\* A message worth its gas does not cost the pool anything, if its value stays.
LEMMA KeepCovers ==
    ASSUME Inv, NEW v \in Deposits \cup CallValues, NEW g \in Gas, g <= v, Keep(v, g)
    PROVE  ~ (balance' < balance)
<1>1. balance \in Nat
  BY DEF Inv, TypeOK
<1>2. v \in Nat /\ g \in Nat
  BY AmountAssumption
<1>3. balance' = balance + v - g
  BY DEF Keep, Credited
<1> QED BY <1>1, <1>2, <1>3, SMT

\* Nor if the code throws, whether or not the value returns to the sender.
LEMMA ThrownCovers ==
    ASSUME Inv, NEW v \in Deposits \cup CallValues, NEW g \in Gas, g <= v,
           NEW src, NEW bounce, NEW accepted, Thrown(src, v, g, bounce, accepted)
    PROVE  ~ (balance' < balance)
<1>1. CASE bounce /\ Payable(v - g)
  <2>1. balance' = balance /\ balance \in Nat
    BY <1>1 DEF Thrown, Inv, TypeOK
  <2> QED BY <2>1, SMT
<1>2. CASE ~ (bounce /\ Payable(v - g))
  BY <1>2, KeepCovers DEF Thrown
<1> QED BY <1>1, <1>2

\* A message that pays the fee is worth its gas.
LEMMA PaidFor ==
    ASSUME Inv, FeeCoversGas, NEW v \in Deposits \cup CallValues, NEW g \in Gas, PaysFee(v)
    PROVE  g <= v
<1>1. v \in Nat /\ g \in Nat
  BY AmountAssumption
<1>2. config.transaction_fee \in Nat
  BY DEF Inv, TypeOK, Config
<1>3. g <= config.transaction_fee /\ v >= config.transaction_fee
  BY DEF FeeCoversGas, PaysFee
<1> QED BY <1>1, <1>2, <1>3, SMT

\* No order sets the fee below the gas.
LEMMA FeeStaysCovering ==
    ASSUME GasCovered, Inv, FeeCoversGas, [Next]_vars
    PROVE  FeeCoversGas'
<1>1. CASE UNCHANGED config
  BY <1>1 DEF FeeCoversGas
<1>2. ASSUME NEW g, TryInit(g)
      PROVE  FeeCoversGas'
  <2>1. config'.transaction_fee = config.transaction_fee
    BY <1>2 DEF TryInit, Inv, TypeOK, Config
  <2> QED BY <2>1 DEF FeeCoversGas
<1>3. ASSUME NEW src, NEW o \in ConfigOrders, NEW v, NEW g, SetConfig(src, o, v, g)
      PROVE  FeeCoversGas'
  <2>1. config'.transaction_fee = IF 1 \in o.options THEN o.transaction_fee
                                  ELSE config.transaction_fee
    BY <1>3 DEF SetConfig
  <2>2. CASE 1 \in o.options
    <3>1. o.transaction_fee \in FeeLow..FeeHigh
      BY <1>3, <2>2 DEF SetConfig, WithinLimits
    <3>2. FeeLow \in Nat /\ FeeHigh \in Nat /\ Gas \subseteq Nat
      BY AmountAssumption
    <3>3. \A x \in Gas : x <= FeeLow
      BY DEF GasCovered
    <3>4. \A x \in Gas : x <= o.transaction_fee
      BY <3>1, <3>2, <3>3, SMT
    <3> QED BY <2>1, <2>2, <3>4 DEF FeeCoversGas
  <2>3. CASE 1 \notin o.options
    BY <2>1, <2>3 DEF FeeCoversGas
  <2> QED BY <2>2, <2>3
<1>4. \/ UNCHANGED config
      \/ \E g \in Gas : TryInit(g)
      \/ \E wc \in {Basechain, Masterchain}, u \in Users, o \in ConfigOrders,
            v \in CallValues, g \in Gas : SetConfig(<<wc, u>>, o, v, g)
  <2>1. UNCHANGED vars => UNCHANGED config
    BY DEF vars, data
  <2>2. UNCHANGED data => UNCHANGED config
    BY DEF data
  <2> QED BY <2>1, <2>2, StepCases, ConfigFrame
<1> QED BY <1>1, <1>2, <1>3, <1>4

\* One of the messages sent by the step pays a redemption.
Paying == \E i \in DOMAIN outbox' : outbox'[i].op = "REDM"

\* What a step with an order of a subscriber, of the owner or of anybody may do to the balance.
LEMMA StepCovered ==
    ASSUME Inv, FeeCoversGas, Next, Initialised, balance' < balance
    PROVE  Paying \/ \E v \in CallValues, g \in Gas : NominatorStep(v, g)
<1>1. \A v : ~ Fund(v)
  BY DEF Fund
<1>2. \A g : ~ TryInit(g)
  BY DEF TryInit
<1>3. ASSUME NEW v \in Deposits, NEW g \in Gas
      PROVE  ~ SubscriberStep(v, g) /\ ~ TopUp(v, g)
  <2>1. \A u : ~ Subscribe(u, v, g)
    BY PaidFor, KeepCovers DEF Subscribe
  <2>2. \A u, bounce : ~ SubscribeThrows(u, v, g, bounce)
    BY PaidFor, ThrownCovers DEF SubscribeThrows
  <2>3. ~ TopUp(v, g)
    BY KeepCovers DEF TopUp
  <2> QED BY <2>1, <2>2, <2>3 DEF SubscriberStep
<1>4. ASSUME NEW v \in CallValues, NEW g \in Gas, RedeemStep(v, g)
      PROVE  Paying
  <2>1. \A u, id : ~ RedeemEarly(u, id, v, g)
    BY PaidFor, KeepCovers DEF RedeemEarly, Redeemable, Unsent
  <2>2. \A u, id : ~ RedeemMaturedUnsent(u, id, v, g)
    BY PaidFor, KeepCovers DEF RedeemMaturedUnsent, Redeemable, Unsent
  <2>3. \A u, id, bounce : ~ RedeemMaturedThrows(u, id, v, g, bounce)
    BY PaidFor, ThrownCovers DEF RedeemMaturedThrows, Redeemable
  <2>4. PICK u \in Users, id \in DOMAIN subscriptions : RedeemMatured(u, id, v, g)
    BY <1>4, <2>1, <2>2, <2>3 DEF RedeemStep
  <2>5. \E m : outbox' = <<m>> /\ m.op = "REDM"
    <3> DEFINE value == SendValue(Payout(subscriptions[id]), v, g) - FwdFee
    <3>1. outbox' = <<Msg(<<Basechain, u>>, "REDM", value)>>
      BY <2>4 DEF RedeemMatured
    <3>2. Msg(<<Basechain, u>>, "REDM", value).op = "REDM"
      BY DEF Msg
    <3> QED BY <3>1, <3>2
  <2>6. PICK m : outbox' = <<m>> /\ m.op = "REDM"
    BY <2>5
  <2>7. DOMAIN outbox' = {1} /\ outbox'[1] = m
    BY <2>6, SMT
  <2> QED BY <2>6, <2>7 DEF Paying
<1>5. ASSUME NEW v \in CallValues, NEW g \in Gas
      PROVE  ~ OwnerStep(v, g)
  <2>1. ~ NewPeriod(v, g)
    BY PaidFor, KeepCovers DEF NewPeriod
  <2>2. \A bounce : ~ NewPeriodThrows(v, g, bounce)
    BY PaidFor, ThrownCovers DEF NewPeriodThrows
  <2>3. \A a, st : ~ ActivateWallet(a, st, v, g)
    BY PaidFor, KeepCovers DEF ActivateWallet
  <2>4. \A a, bounce : ~ TransferToWallet(a, v, g, bounce)
    BY PaidFor, ThrownCovers DEF TransferToWallet
  <2>5. ~ FetchBalances(v, g)
    BY PaidFor, KeepCovers DEF FetchBalances
  <2>6. ~ FetchBalancesUnsent(v, g)
    BY PaidFor, KeepCovers DEF FetchBalancesUnsent, Unsent
  <2> QED BY <2>1, <2>2, <2>3, <2>4, <2>5, <2>6 DEF OwnerStep
<1>6. ASSUME NEW v \in CallValues, NEW g \in Gas
      PROVE  ~ ConfigStep(v, g)
  BY PaidFor, KeepCovers DEF ConfigStep, SetConfig
<1>7. ASSUME NEW v \in CallValues, NEW g \in Gas
      PROVE  ~ RejectStep(v, g)
  <2>1. ASSUME NEW src, NEW bounce, Reject(src, v, g, bounce) PROVE FALSE
    <3>1. Thrown(src, v, g, bounce, FALSE)
      BY <2>1 DEF Reject
    <3>2. g <= v
      BY <3>1 DEF Thrown
    <3> QED BY <3>1, <3>2, ThrownCovers
  <2> QED BY <2>1 DEF RejectStep
<1> QED BY <1>1, <1>2, <1>3, <1>4, <1>5, <1>6, <1>7 DEF Next

\* Where every fee the owner may set covers the gas, the pool spends its own grams on
\* redemptions and on the gas of the nominators' reports only: the value of every other
\* message pays for its transaction, also when that throws or fails after accept_message.
THEOREM PoolNotDriedOut ==
    ASSUME GasCovered
    PROVE  Spec => NotDriedOut
<1> DEFINE Spent == Initialised /\ balance' < balance =>
                        Paying \/ \E v \in CallValues, g \in Gas : NominatorStep(v, g)
<1>1. Init => FeeCoversGas
  <2>1. Init => config.transaction_fee = InitialConfig.transaction_fee
    BY SMT DEF Init
  <2> QED BY <2>1 DEF FeeCoversGas, GasCovered
<1>2. Inv /\ FeeCoversGas /\ [Next]_vars => FeeCoversGas'
  BY FeeStaysCovering
<1>3. Inv /\ FeeCoversGas /\ [Next]_vars => [Spent]_vars
  BY StepCovered
<1> QED BY <1>1, <1>2, <1>3, PoolInvariant, PTL DEF Spec, NotDriedOut, Paying

-----------------------------------------------------------------------------
(***************************************************************************)
(* The pool implements the ledger                                          *)
(***************************************************************************)

LedgerEntry(s) ==
    [holder |-> s.subscriber, opened |-> s.start_period, state |-> LedgerState(s.status)]

AnyEntry == [holder : Users, opened : Nat, state : {"active", "redeemed"}]

\* The ledger's entries mirror the subscriptions one by one.
LEMMA EntriesType ==
    ASSUME NEW subs \in Seq(Subscription), NEW entries,
           entries = [id \in DOMAIN subs |-> LedgerEntry(subs[id])]
    PROVE  /\ entries \in Seq(AnyEntry)
           /\ Len(entries) = Len(subs)
           /\ \A id \in 1..Len(subs) : entries[id] = LedgerEntry(subs[id])
<1>1. ASSUME NEW id \in 1..Len(subs)
      PROVE  LedgerEntry(subs[id]) \in AnyEntry
  <2> DEFINE state == LedgerState(subs[id].status)
  <2>0. subs[id] \in Subscription
    BY SMT
  <2>1. subs[id].subscriber \in Users /\ subs[id].start_period \in Nat
    BY <2>0 DEF Subscription
  <2>2. state \in {"active", "redeemed"}
    BY DEF LedgerState
  <2>3. LedgerEntry(subs[id]) = [holder |-> subs[id].subscriber,
                                 opened |-> subs[id].start_period, state |-> state]
    BY DEF LedgerEntry
  <2> HIDE DEF state
  <2> QED BY <2>1, <2>2, <2>3, SMT DEF AnyEntry
<1>2. entries = [id \in 1..Len(subs) |-> LedgerEntry(subs[id])]
  BY SMT
<1> QED BY <1>1, <1>2, SMT

\* The ledger has an entry for every subscription.
LEMMA Entries ==
    /\ LedgerEntries = [id \in DOMAIN subscriptions |-> LedgerEntry(subscriptions[id])]
    /\ LedgerEntries' = [id \in DOMAIN subscriptions' |-> LedgerEntry(subscriptions'[id])]
BY DEF LedgerEntries, LedgerEntry

\* Sequences of the same length with the same elements are the same.
LEMMA SameSequence ==
    ASSUME NEW S, NEW s \in Seq(S), NEW t \in Seq(S), Len(s) = Len(t),
           \A i \in 1..Len(s) : s[i] = t[i]
    PROVE  s = t
BY SMT

\* A new subscription is a new entry of the ledger, opened in its current period.
LEMMA AddedEntry ==
    ASSUME Inv, Inv', Added
    PROVE  \E h \in Users : LedgerEntries' = Append(LedgerEntries, Ledger!Entry(h))
<1>1. PICK u \in Users, grams \in Nat :
          subscriptions' = Append(subscriptions, NewSubscription(u, grams, current_period))
  BY DEF Added
<1> DEFINE e == Ledger!Entry(u)
           s == NewSubscription(u, grams, current_period)
<1>2. /\ subscriptions \in Seq(Subscription) /\ subscriptions' \in Seq(Subscription)
      /\ current_period \in Nat
  BY DEF Inv, TypeOK
<1>3. e = LedgerEntry(s) /\ e \in AnyEntry
  BY <1>2 DEF Ledger!Entry, LedgerEntry, NewSubscription, LedgerState, AnyEntry
<1> HIDE DEF e, s
<1>4. /\ Len(subscriptions') = Len(subscriptions) + 1
      /\ subscriptions'[Len(subscriptions) + 1] = s
      /\ \A i \in 1..Len(subscriptions) : subscriptions'[i] = subscriptions[i]
  BY <1>1, <1>2, SMT DEF s
<1>5. /\ Append(LedgerEntries, e) \in Seq(AnyEntry)
      /\ Len(Append(LedgerEntries, e)) = Len(subscriptions) + 1
      /\ Append(LedgerEntries, e)[Len(subscriptions) + 1] = e
      /\ \A i \in 1..Len(subscriptions) :
             Append(LedgerEntries, e)[i] = LedgerEntry(subscriptions[i])
  BY <1>2, <1>3, Entries, EntriesType, SMT
<1>6. /\ LedgerEntries' \in Seq(AnyEntry)
      /\ Len(LedgerEntries') = Len(subscriptions) + 1
      /\ \A i \in 1..(Len(subscriptions) + 1) : LedgerEntries'[i] = LedgerEntry(subscriptions'[i])
  <2>1. /\ LedgerEntries' \in Seq(AnyEntry)
        /\ Len(LedgerEntries') = Len(subscriptions')
        /\ \A i \in 1..Len(subscriptions') : LedgerEntries'[i] = LedgerEntry(subscriptions'[i])
    BY <1>2, Entries, EntriesType
  <2> QED BY <1>4, <2>1
<1>7. \A i \in 1..(Len(subscriptions) + 1) : LedgerEntries'[i] = Append(LedgerEntries, e)[i]
  BY <1>2, <1>3, <1>4, <1>5, <1>6, SMT
<1>8. LedgerEntries' = Append(LedgerEntries, e)
  BY <1>5, <1>6, <1>7, SameSequence
<1> QED BY <1>8 DEF e

\* The end of a subscription changes the state of one entry.
LEMMA EndedEntry ==
    ASSUME Inv, Inv', NEW id \in DOMAIN subscriptions, NEW s \in Subscription, NEW state,
           subscriptions' = [subscriptions EXCEPT ![id] = s],
           s.subscriber = subscriptions[id].subscriber,
           s.start_period = subscriptions[id].start_period,
           state = LedgerState(s.status)
    PROVE  LedgerEntries' = [LedgerEntries EXCEPT ![id].state = state]
<1>1. subscriptions \in Seq(Subscription) /\ subscriptions' \in Seq(Subscription)
  BY DEF Inv, TypeOK
<1>2. /\ DOMAIN subscriptions' = DOMAIN subscriptions /\ subscriptions'[id] = s
      /\ \A i \in DOMAIN subscriptions : i # id => subscriptions'[i] = subscriptions[i]
  BY <1>1
<1>3. LedgerEntry(s) = [LedgerEntry(subscriptions[id]) EXCEPT !.state = state]
  BY SMT DEF LedgerEntry
<1> DEFINE e == [LedgerEntries[id] EXCEPT !.state = state]
<1>4. e = LedgerEntry(s)
  BY <1>3, Entries
<1>5. [LedgerEntries EXCEPT ![id].state = state] = [LedgerEntries EXCEPT ![id] = e]
  OBVIOUS
<1> HIDE DEF e
<1>6. LedgerEntries' = [i \in DOMAIN subscriptions |-> LedgerEntry(subscriptions'[i])]
  BY <1>2, Entries
<1>7. LedgerEntries = [i \in DOMAIN subscriptions |-> LedgerEntry(subscriptions[i])]
  BY Entries
<1>8. LedgerEntries' = [LedgerEntries EXCEPT ![id] = e]
  BY <1>2, <1>4, <1>6, <1>7
<1> QED BY <1>5, <1>8

\* The initial states of the pool map to those of the ledger.
LEMMA InitLedger == Init => Ledger!Init
<1> SUFFICES ASSUME Init PROVE current_period = 0 /\ LedgerEntries = <<>>
  BY DEF Ledger!Init
<1>1. current_period = 0 /\ subscriptions = <<>>
  BY DEF Init
<1> QED BY <1>1, SMT DEF LedgerEntries

\* Every step of the pool maps to a step of the ledger or to none.
LEMMA NextLedger ==
    ASSUME Inv, Inv', [Next]_vars
    PROVE  [Ledger!Next]_(Ledger!ledger)
<1> USE DEF Ledger!ledger
<1>1. CASE UNCHANGED <<current_period, subscriptions>>
  BY <1>1, Entries
<1>2. CASE Deployed
  <2> DEFINE s == NewSubscription(config.owner, balance, 0)
  <2>1. /\ current_period = 0 /\ current_period' = 1 /\ subscriptions' = <<s>>
        /\ config.owner \in Users
    BY <1>2, SMT DEF Deployed, Initialised, Inv, TypeOK, Config
  <2>2. LedgerEntry(s) = Ledger!Entry(config.owner)
    BY <2>1 DEF Ledger!Entry, LedgerEntry, NewSubscription, LedgerState
  <2> HIDE DEF s
  <2>3. LedgerEntries' = <<Ledger!Entry(config.owner)>>
    BY <2>1, <2>2, Entries, SMT
  <2>4. Ledger!Deploy(config.owner)
    BY <2>1, <2>3 DEF Ledger!Deploy
  <2> QED BY <2>1, <2>4 DEF Ledger!Next
<1>3. CASE Initialised /\ Added /\ UNCHANGED current_period
  <2>1. PICK h \in Users : LedgerEntries' = Append(LedgerEntries, Ledger!Entry(h))
    BY <1>3, AddedEntry
  <2>2. Ledger!Open(h)
    BY <1>3, <2>1 DEF Ledger!Open, Initialised
  <2> QED BY <2>2 DEF Ledger!Next
<1>5. ASSUME NEW id \in DOMAIN subscriptions, RedeemedOne(id)
      PROVE  Ledger!Next
  <2>1. /\ subscriptions[id] \in Subscription /\ UNCHANGED current_period /\ current_period \in Nat
        /\ subscriptions' = [subscriptions EXCEPT ![id] = Redeemed(subscriptions[id])]
    BY <1>5, SMT DEF RedeemedOne, Inv, TypeOK
  <2>2. "redeemed" = LedgerState(Redeemed(subscriptions[id]).status)
    BY <2>1, RedeemedType, SMT DEF LedgerState
  <2>3. LedgerEntries' = [LedgerEntries EXCEPT ![id].state = "redeemed"]
    BY <2>1, <2>2, EndedEntry, RedeemedType
  <2>4. /\ id \in DOMAIN LedgerEntries
        /\ LedgerEntries[id].state = "active" /\ LedgerEntries[id].opened < current_period
    BY <1>5, Entries DEF RedeemedOne, LedgerEntry, LedgerState
  <2>5. Ledger!Redeem(id)
    BY <2>1, <2>3, <2>4 DEF Ledger!Redeem
  <2> QED BY <2>4, <2>5 DEF Ledger!Next
<1>6. CASE Initialised /\ current_period' = current_period + 1 /\ (UNCHANGED subscriptions \/ Added)
  <2>1. \/ UNCHANGED LedgerEntries
        \/ \E h \in Users : LedgerEntries' = Append(LedgerEntries, Ledger!Entry(h))
    BY <1>6, Entries, AddedEntry
  <2>2. Ledger!Close
    BY <1>6, <2>1 DEF Ledger!Close, Initialised
  <2> QED BY <2>2 DEF Ledger!Next
<1>7. CASE UNCHANGED vars
  BY <1>1, <1>7 DEF vars, data
<1>8. CASE Next
  BY <1>1, <1>2, <1>3, <1>5, <1>6, <1>8, SubscriptionSteps
<1> QED BY <1>7, <1>8

\* Seen through the subscriptions alone, every behaviour of the pool is one of the ledger:
\* an entry is opened in the current period, ends at most once, and never disappears.
THEOREM PoolImplementsLedger == Spec => ImplementsLedger
BY InitLedger, NextLedger, PoolInvariant, PTL DEF Spec, ImplementsLedger, Ledger!Spec

-----------------------------------------------------------------------------
(* Solvency: each step changes the sum over the active subscriptions by one *)
(* entry, or, when a period ends, turns the deposits of the closing period  *)
(* into units rounded down; the laws of SumLaws say what that does to a sum. *)

\* What is known of the active subscriptions of a set of periods.
LEMMA ActiveTypes ==
    ASSUME Laws, Inv, NEW periods
    PROVE  /\ IsFiniteSet(ActiveIn(periods)) /\ ActiveIn(periods) \subseteq DOMAIN subscriptions
           /\ \A id \in ActiveIn(periods) :
                  /\ subscriptions[id] \in Subscription
                  /\ subscriptions[id].start_period \in Nat
                  /\ subscriptions[id].start_period <= current_period
                  /\ Grams[id] = subscriptions[id].grams /\ Grams[id] \in Nat
<1>1. subscriptions \in Seq(Subscription)
  BY DEF Inv, TypeOK
<1>2. DOMAIN subscriptions = 1..Len(subscriptions) /\ Len(subscriptions) \in Nat
  BY <1>1, SMT
<1>3. IsFiniteSet(DOMAIN subscriptions) /\ ActiveIn(periods) \subseteq DOMAIN subscriptions
  <2>1. IsFiniteSet(1..Len(subscriptions))
    BY <1>2, SMT DEF Laws, IntervalLaw
  <2> QED BY <1>2, <2>1 DEF ActiveIn
<1>4. IsFiniteSet(ActiveIn(periods))
  BY <1>3 DEF Laws, SubsetLaw
<1>5. ASSUME NEW id \in ActiveIn(periods)
      PROVE  /\ subscriptions[id] \in Subscription
             /\ subscriptions[id].start_period \in Nat
             /\ subscriptions[id].start_period <= current_period
             /\ Grams[id] = subscriptions[id].grams /\ Grams[id] \in Nat
  <2>1. id \in DOMAIN subscriptions /\ subscriptions[id] \in Subscription
    BY <1>1, <1>3, SMT
  <2>2. subscriptions[id].start_period <= current_period
    BY <2>1 DEF Inv, SubscriptionStates
  <2> QED BY <2>1, <2>2 DEF Subscription, Grams
<1> QED BY <1>3, <1>4, <1>5

\* The units of the active subscriptions of earlier periods are natural numbers.
LEMMA HeldTypes ==
    ASSUME Laws, Inv, Initialised
    PROVE  /\ DOMAIN UnitsHeld = ActiveIn(0..(current_period - 1))
           /\ \A id \in DOMAIN UnitsHeld :
                  /\ UnitsHeld[id] = UnitsOf(subscriptions[id]) /\ UnitsHeld[id] \in Nat
                  /\ subscriptions[id].start_period \in 0..(current_period - 1)
<1>1. DOMAIN UnitsHeld = ActiveIn(0..(current_period - 1))
  BY DEF UnitsHeld
<1>2. ASSUME NEW id \in ActiveIn(0..(current_period - 1))
      PROVE  /\ UnitsHeld[id] = UnitsOf(subscriptions[id]) /\ UnitsHeld[id] \in Nat
             /\ subscriptions[id].start_period \in 0..(current_period - 1)
  <2>1. /\ subscriptions[id] \in Subscription /\ subscriptions[id].start_period <= current_period
        /\ subscriptions[id].start_period \in Nat
    BY ActiveTypes
  <2>2. subscriptions[id].start_period \in 0..(current_period - 1) /\ current_period \in Nat
    BY CurrentType DEF ActiveIn
  <2>3. UnitsOf(subscriptions[id]) \in Nat
    BY <2>1, <2>2, PayoutType, SMT
  <2> QED BY <2>2, <2>3 DEF UnitsHeld
<1> QED BY <1>1, <1>2

\* Steps that leave the subscriptions and the period alone, and the counters of the
\* period that the sums are compared with.
LEMMA CountersKept ==
    ASSUME Laws, Inv, UNCHANGED <<current_period, subscriptions>>,
           Initialised => /\ Current'.deposits = Current.deposits
                          /\ Current'.units = Current.units
                          /\ Current'.withdrawals = Current.withdrawals
                          /\ \A p \in 0..(current_period - 1) : performance'[p] = performance[p]
    PROVE  /\ DepositsCoverSubscriptions => DepositsCoverSubscriptions'
           /\ UnitsCoverSubscriptions => UnitsCoverSubscriptions'
<1>1. Initialised' = Initialised
  BY DEF Initialised
<1>2. \A periods : ActiveIn(periods)' = ActiveIn(periods)
  BY DEF ActiveIn
<1>3. Grams' = Grams
  BY DEF Grams
<1>4. DepositsCoverSubscriptions => DepositsCoverSubscriptions'
  BY <1>1, <1>2, <1>3 DEF DepositsCoverSubscriptions
<1>5. ASSUME Initialised PROVE UnitsHeld' = UnitsHeld
  <2>1. \A id \in ActiveIn(0..(current_period - 1)) :
            UnitsOf(subscriptions[id])' = UnitsOf(subscriptions[id])
    BY <1>5, HeldTypes DEF UnitsOf
  <2> QED BY <1>2, <2>1 DEF UnitsHeld
<1>6. UnitsCoverSubscriptions => UnitsCoverSubscriptions'
  BY <1>1, <1>5 DEF UnitsCoverSubscriptions, ManagedUnits
<1> QED BY <1>4, <1>6

\* The record of the open period after a transaction that keeps its rate.
LEMMA SetCurrentRecord ==
    ASSUME Inv, Initialised, UNCHANGED current_period, NEW aum, NEW deposits, NEW withdrawals,
           performance' = SetCurrent(aum, deposits, withdrawals)
    PROVE  /\ Current'.deposits = deposits /\ Current'.withdrawals = withdrawals
           /\ Current'.units = Current.units
           /\ \A p \in 0..(current_period - 1) : performance'[p] = performance[p]
<1>1. current_period \in 0..current_period /\ current_period \in Nat
      /\ performance \in [0..current_period -> Performance]
  BY CurrentType, SMT
<1> DEFINE r == [rate |-> Current.rate, aum |-> aum, units |-> Current.units,
                 deposits |-> deposits, withdrawals |-> withdrawals]
<1>2. performance' = [performance EXCEPT ![current_period] = r]
  BY DEF SetCurrent
<1>3. r.deposits = deposits /\ r.withdrawals = withdrawals /\ r.units = Current.units
  OBVIOUS
<1> HIDE DEF r
<1>4. Current' = r /\ \A p \in 0..(current_period - 1) : performance'[p] = performance[p]
  BY <1>1, <1>2, SMT DEF Current
<1> QED BY <1>3, <1>4

\* A new subscription leaves the others as they are.
LEMMA ActiveAfterAdd ==
    ASSUME Inv, NEW s, subscriptions' = AddSubscription(s)
    PROVE  /\ Len(subscriptions) + 1 \notin DOMAIN subscriptions
           /\ DOMAIN subscriptions' = DOMAIN subscriptions \cup {Len(subscriptions) + 1}
           /\ \A id \in DOMAIN subscriptions : subscriptions'[id] = subscriptions[id]
           /\ subscriptions'[Len(subscriptions) + 1] = s
<1>1. subscriptions \in Seq(Subscription) /\ subscriptions' = Append(subscriptions, s)
  BY DEF Inv, TypeOK, AddSubscription
<1> QED BY <1>1, SMT

\* A subscription adds its grams to the deposits of the period it opens in.
LEMMA SubscribeCovered ==
    ASSUME Laws, Inv, NEW u \in Users, NEW v \in Deposits, NEW g \in Gas, Subscribe(u, v, g)
    PROVE  /\ DepositsCoverSubscriptions => DepositsCoverSubscriptions'
           /\ UnitsCoverSubscriptions => UnitsCoverSubscriptions'
<1> DEFINE new == Len(subscriptions) + 1
           now == {current_period}
           old == 0..(current_period - 1)
           fee == config.transaction_fee
<1>1. /\ Initialised /\ Initialised' /\ current_period' = current_period /\ current_period \in Nat
      /\ subscriptions' = AddSubscription(NewSubscription(u, v - fee, current_period))
      /\ performance' = SetCurrent(Current.aum + v, Current.deposits + v, Current.withdrawals)
  BY CurrentType DEF Subscribe, Initialised
<1>2. /\ v \in Nat /\ fee \in Nat /\ v - fee \in Nat
  BY AmountAssumption, SMT DEF Inv, TypeOK, Config, Subscribe, PaysFee
<1>3. /\ Current'.deposits = Current.deposits + v /\ Current.deposits \in Nat
      /\ Current'.withdrawals = Current.withdrawals /\ Current'.units = Current.units
      /\ \A p \in old : performance'[p] = performance[p]
  BY <1>1, SetCurrentRecord, CurrentType
<1>4. /\ new \notin DOMAIN subscriptions
      /\ DOMAIN subscriptions' = DOMAIN subscriptions \cup {new}
      /\ \A id \in DOMAIN subscriptions : subscriptions'[id] = subscriptions[id]
      /\ subscriptions'[new].grams = v - fee /\ subscriptions'[new].status = 1
      /\ subscriptions'[new].start_period = current_period
  <2> DEFINE s == NewSubscription(u, v - fee, current_period)
  <2>1. s.status = 1 /\ s.grams = v - fee /\ s.start_period = current_period
    BY DEF NewSubscription
  <2>2. subscriptions' = AddSubscription(s)
    BY <1>1
  <2> HIDE DEF s
  <2> QED BY <2>1, <2>2, ActiveAfterAdd
<1> HIDE DEF new, fee
<1>5. ActiveIn(now)' = ActiveIn(now) \cup {new} /\ ActiveIn(old)' = ActiveIn(old)
  BY <1>1, <1>4, SMT DEF ActiveIn
<1>6. ASSUME DepositsCoverSubscriptions PROVE DepositsCoverSubscriptions'
  <2>1. /\ IsFiniteSet(ActiveIn(now)) /\ ActiveIn(now) \subseteq DOMAIN subscriptions
        /\ \A id \in ActiveIn(now) : Grams[id] \in Nat
    BY ActiveTypes
  <2>2. /\ \A id \in DOMAIN subscriptions : Grams'[id] = Grams[id]
        /\ Grams'[new] = v - fee
    BY <1>4 DEF Grams
  <2>3. /\ \A id \in ActiveIn(now) : Grams[id] \in Int /\ Grams'[id] = Grams[id]
        /\ Grams'[new] \in Int /\ new \notin ActiveIn(now)
    <3>1. \A id \in ActiveIn(now) : Grams[id] \in Int
      BY <2>1, SMT
    <3>2. v - fee \in Int
      BY <1>2, SMT
    <3> QED BY <1>4, <2>1, <2>2, <3>1, <3>2
  <2>4. /\ SumFunctionOnSet(Grams', ActiveIn(now) \cup {new}) =
               SumFunctionOnSet(Grams, ActiveIn(now)) + Grams'[new]
        /\ SumFunctionOnSet(Grams, ActiveIn(now)) \in Int
    <3> DEFINE A == ActiveIn(now)
               F == Grams
               G == Grams'
    <3>1. /\ IsFiniteSet(A) /\ new \notin A /\ G[new] \in Int
          /\ \A id \in A : F[id] \in Int /\ G[id] = F[id]
      BY <2>1, <2>3
    <3> HIDE DEF A, F, G
    <3>2. /\ SumFunctionOnSet(G, A \cup {new}) = SumFunctionOnSet(F, A) + G[new]
          /\ SumFunctionOnSet(F, A) \in Int
      <4>1. OneMore(F, A, G, new)
        BY <3>1 DEF OneMore
      <4> QED BY <4>1, SMT DEF Laws, SumExtendedLaw
    <3> QED BY <3>2 DEF A, F, G
  <2>5. SumFunctionOnSet(Grams, ActiveIn(now)) <= Current.deposits
    BY <1>1, <1>6 DEF DepositsCoverSubscriptions
  <2>6. SumFunctionOnSet(Grams', ActiveIn(now) \cup {new}) <= Current'.deposits
    BY <1>2, <1>3, <2>2, <2>4, <2>5, SMT
  <2> QED BY <1>5, <2>6 DEF DepositsCoverSubscriptions
<1>7. ASSUME UnitsCoverSubscriptions PROVE UnitsCoverSubscriptions'
  <2>1. \A id \in ActiveIn(old) : UnitsOf(subscriptions[id])' = UnitsOf(subscriptions[id])
    BY <1>1, <1>3, <1>4, HeldTypes, ActiveTypes DEF UnitsOf
  <2>2. UnitsHeld' = UnitsHeld
    BY <1>1, <1>5, <2>1 DEF UnitsHeld
  <2> QED BY <1>1, <1>3, <1>7, <2>2 DEF UnitsCoverSubscriptions, ManagedUnits
<1> QED BY <1>6, <1>7

\* The redemption of a subscription of an earlier period books its units as withdrawn.
LEMMA RedeemMaturedCovered ==
    ASSUME Laws, Inv, NEW u \in Users, NEW id \in DOMAIN subscriptions,
           NEW v \in CallValues, NEW g \in Gas, RedeemMatured(u, id, v, g)
    PROVE  /\ DepositsCoverSubscriptions => DepositsCoverSubscriptions'
           /\ UnitsCoverSubscriptions => UnitsCoverSubscriptions'
<1> DEFINE s == subscriptions[id]
           now == {current_period}
           old == 0..(current_period - 1)
<1>1. /\ Redeemable(u, id, v) /\ s.start_period # current_period
      /\ performance' = SetCurrent(Current.aum - Payout(s), Current.deposits,
                                   Current.withdrawals + UnitsOf(s))
      /\ subscriptions' = [subscriptions EXCEPT ![id] = Redeemed(s)]
      /\ current_period' = current_period
  BY DEF RedeemMatured
<1>2. /\ Initialised /\ s \in Subscription /\ s.status = 1 /\ current_period \in Nat
      /\ s.start_period <= current_period /\ s.start_period \in Nat
  BY <1>1, RedeemableFacts, CurrentType DEF Subscription
<1>3. /\ Current'.deposits = Current.deposits /\ Current'.units = Current.units
      /\ Current'.withdrawals = Current.withdrawals + UnitsOf(s)
      /\ Current.withdrawals \in Nat /\ Current.units \in Nat
      /\ \A p \in old : performance'[p] = performance[p]
  BY <1>1, <1>2, SetCurrentRecord, CurrentType
<1>4. /\ DOMAIN subscriptions' = DOMAIN subscriptions /\ subscriptions'[id].status = 2
      /\ \A i \in DOMAIN subscriptions : i # id => subscriptions'[i] = subscriptions[i]
  BY <1>1, <1>2, RedeemedType DEF Inv, TypeOK
<1>5. s.start_period \in old /\ id \in ActiveIn(old) /\ id \notin ActiveIn(now)
  BY <1>1, <1>2, SMT DEF ActiveIn
<1>6. ActiveIn(now)' = ActiveIn(now) /\ ActiveIn(old)' = ActiveIn(old) \ {id}
  BY <1>1, <1>2, <1>4, SMT DEF ActiveIn
<1>7. Initialised'
  BY <1>1, <1>2 DEF Initialised
<1>8. ASSUME DepositsCoverSubscriptions PROVE DepositsCoverSubscriptions'
  <2>1. /\ IsFiniteSet(ActiveIn(now)) /\ ActiveIn(now) \subseteq DOMAIN subscriptions
        /\ \A i \in ActiveIn(now) : Grams[i] \in Nat
    BY ActiveTypes
  <2>2. \A i \in DOMAIN subscriptions : i # id => Grams'[i] = Grams[i]
    BY <1>4 DEF Grams
  <2>3. \A i \in ActiveIn(now) : Grams[i] \in Int /\ Grams'[i] = Grams[i]
    <3>1. \A i \in ActiveIn(now) : i # id /\ i \in DOMAIN subscriptions
      BY <1>5, <2>1
    <3> QED BY <2>1, <2>2, <3>1, SMT
  <2>4. SumFunctionOnSet(Grams', ActiveIn(now)) = SumFunctionOnSet(Grams, ActiveIn(now))
    BY <2>1, <2>3 DEF Laws, SumSameLaw
  <2>5. SumFunctionOnSet(Grams', ActiveIn(now)) <= Current'.deposits
    BY <1>2, <1>3, <1>8, <2>4 DEF DepositsCoverSubscriptions
  <2> QED BY <1>6, <2>5 DEF DepositsCoverSubscriptions
<1>9. ASSUME UnitsCoverSubscriptions PROVE UnitsCoverSubscriptions'
  <2>1. /\ IsFiniteSet(ActiveIn(old)) /\ ActiveIn(old) \subseteq DOMAIN subscriptions
        /\ DOMAIN UnitsHeld = ActiveIn(old)
        /\ \A i \in ActiveIn(old) : /\ UnitsHeld[i] \in Nat
                                    /\ UnitsHeld[i] = UnitsOf(subscriptions[i])
                                    /\ subscriptions[i].start_period \in old
    BY <1>2, ActiveTypes, HeldTypes
  <2>2. \A i \in ActiveIn(old) \ {id} : UnitsOf(subscriptions[i])' = UnitsOf(subscriptions[i])
    BY <1>3, <1>4, <2>1 DEF UnitsOf
  <2>3. DOMAIN UnitsHeld' = ActiveIn(old) \ {id}
    BY <1>6 DEF UnitsHeld
  <2>4. \A i \in ActiveIn(old) \ {id} : UnitsHeld'[i] = UnitsOf(subscriptions[i])'
    BY <1>6 DEF UnitsHeld
  <2>5. /\ \A i \in ActiveIn(old) : UnitsHeld[i] \in Int
        /\ \A i \in ActiveIn(old) \ {id} : UnitsHeld'[i] = UnitsHeld[i]
    BY <2>1, <2>2, <2>4, SMT
  <2>6. /\ SumFunctionOnSet(UnitsHeld', ActiveIn(old) \ {id}) =
               SumFunctionOnSet(UnitsHeld, ActiveIn(old)) - UnitsHeld[id]
        /\ SumFunctionOnSet(UnitsHeld, ActiveIn(old)) \in Int
    <3> DEFINE A == ActiveIn(old)
               F == UnitsHeld
               G == UnitsHeld'
    <3>1. /\ IsFiniteSet(A) /\ id \in A /\ \A i \in A : F[i] \in Int
          /\ \A i \in A \ {id} : G[i] = F[i]
      BY <1>5, <2>1, <2>5
    <3> HIDE DEF A, F, G
    <3>2. /\ SumFunctionOnSet(G, A \ {id}) = SumFunctionOnSet(F, A) - F[id]
          /\ SumFunctionOnSet(F, A) \in Int
      <4>1. OneLess(F, A, G, id)
        BY <3>1 DEF OneLess
      <4> QED BY <4>1 DEF Laws, SumReducedLaw
    <3> QED BY <3>2 DEF A, F, G
  <2>7. UnitsHeld[id] = UnitsOf(s) /\ UnitsOf(s) \in Nat
    BY <1>5, <2>1
  <2>8. SumFunctionOnSet(UnitsHeld, ActiveIn(old)) <= Current.units - Current.withdrawals
    BY <1>2, <1>9, <2>1 DEF UnitsCoverSubscriptions, SumFunction, ManagedUnits
  <2>9. SumFunctionOnSet(UnitsHeld', ActiveIn(old) \ {id}) <= Current'.units - Current'.withdrawals
    BY <1>3, <2>6, <2>7, <2>8, SMT
  <2> QED BY <2>3, <2>9 DEF UnitsCoverSubscriptions, SumFunction, ManagedUnits
<1> QED BY <1>8, <1>9

\* The deployment books the owner's subscription in the first period.
LEMMA TryInitCovered ==
    ASSUME Laws, Inv, NEW g \in Gas, TryInit(g)
    PROVE  DepositsCoverSubscriptions' /\ UnitsCoverSubscriptions'
<1> DEFINE s == NewSubscription(config.owner, balance, 0)
           open == OpenPerformance(balance, balance \div InitialRate)
<1>1. /\ current_period' = 1 /\ subscriptions' = <<s>>
      /\ performance' = [p \in 0..1 |->
             IF p = 0 THEN [open EXCEPT !.rate = InitialRate] ELSE open]
  BY DEF TryInit
<1>2. s.start_period = 0 /\ s.status = 1 /\ s.grams = balance
  BY DEF NewSubscription
<1>3. /\ open.deposits = 0 /\ open.withdrawals = 0 /\ open.units = balance \div InitialRate
      /\ [open EXCEPT !.rate = InitialRate].rate = InitialRate
  BY DEF OpenPerformance
<1>4. balance \in Nat /\ balance \div InitialRate \in Nat
  BY AmountAssumption, DivNat, SMT DEF Inv, TypeOK
<1> HIDE DEF s, open
<1>5. Current' = open /\ performance'[0].rate = InitialRate
  <2>1. performance'[0] = [open EXCEPT !.rate = InitialRate] /\ performance'[1] = open
    BY <1>1, SMT
  <2> QED BY <1>1, <1>3, <2>1 DEF Current
<1>6. DOMAIN subscriptions' = {1} /\ subscriptions'[1] = s
  BY <1>1, SMT
<1>7. ActiveIn({current_period})' = {} /\ ActiveIn(0..(current_period - 1))' = {1}
  BY <1>1, <1>2, <1>6, SMT DEF ActiveIn
<1>8. DepositsCoverSubscriptions'
  <2>1. SumFunctionOnSet(Grams', {}) = 0
    BY DEF Laws, SumEmptyLaw
  <2>2. SumFunctionOnSet(Grams, ActiveIn({current_period}))' = 0
    BY <1>7, <2>1
  <2>3. Current'.deposits = 0
    BY <1>3, <1>5
  <2> QED BY <2>2, <2>3, SMT DEF DepositsCoverSubscriptions
<1>9. DOMAIN UnitsHeld' = {1}
  BY <1>7 DEF UnitsHeld
<1>10. UnitsHeld'[1] = balance \div InitialRate
  BY <1>2, <1>5, <1>6, <1>7 DEF UnitsHeld, UnitsOf
<1>11. SumFunctionOnSet(UnitsHeld', {1}) = balance \div InitialRate
  <2>1. SumFunctionOnSet(UnitsHeld', {} \cup {1}) = SumFunctionOnSet(UnitsHeld', {}) + UnitsHeld'[1]
    <3> DEFINE F == UnitsHeld'
    <3>1. F[1] \in Int
      BY <1>4, <1>10, SMT
    <3> HIDE DEF F
    <3>2. OneMore(F, {}, F, 1)
      BY <3>1 DEF OneMore, Laws, EmptyLaw
    <3>3. SumFunctionOnSet(F, {} \cup {1}) = SumFunctionOnSet(F, {}) + F[1]
      BY <3>2, SMT DEF Laws, SumExtendedLaw
    <3> QED BY <3>3 DEF F
  <2>2. {} \cup {1} = {1} /\ SumFunctionOnSet(UnitsHeld', {}) = 0
    BY DEF Laws, SumEmptyLaw
  <2> QED BY <1>4, <1>10, <2>1, <2>2, SMT
<1>12. UnitsCoverSubscriptions'
  BY <1>3, <1>4, <1>5, <1>9, <1>11, SMT DEF UnitsCoverSubscriptions, SumFunction, ManagedUnits
<1> QED BY <1>8, <1>12

\* What the end of a period leaves: the closed period has the new rate, the earlier ones
\* keep theirs, and the next one starts with all grams under management as units.
LEMMA NewPeriodRecords ==
    ASSUME Inv, NEW v \in CallValues, NEW g \in Gas, NewPeriod(v, g)
    PROVE  /\ Initialised /\ Initialised' /\ current_period' = current_period + 1
           /\ current_period \in Nat /\ current_period > 0
           /\ NewRate \in Nat /\ NewRate > 0 /\ NewUnits \in Nat
           /\ performance'[current_period].rate = NewRate
           /\ \A p \in 0..(current_period - 1) : performance'[p] = performance[p]
           /\ Current'.deposits = 0 /\ Current'.withdrawals = 0 /\ Current'.units = NewUnits
           /\ IF Profitable
              THEN subscriptions' = AddSubscription(IncentiveSubscription) /\ OwnersShare \in Nat
              ELSE subscriptions' = subscriptions
<1> DEFINE closed == ClosedPerformance
           open == OpenPerformance(Current.aum, NewUnits)
           perf == [performance EXCEPT ![current_period] = closed]
<1>1. /\ Initialised /\ PeriodCloses
      /\ subscriptions' = IF Profitable THEN AddSubscription(IncentiveSubscription)
                          ELSE subscriptions
      /\ performance' = Put(perf, current_period + 1, open)
      /\ current_period' = current_period + 1
  BY DEF NewPeriod
<1>2. /\ current_period \in Nat /\ current_period > 0 /\ Current \in Performance
      /\ performance \in [0..current_period -> Performance]
  BY <1>1, CurrentType
<1>3. NewRate \in Nat /\ NewRate > 0 /\ NewUnits \in Nat /\ (Profitable => OwnersShare \in Nat)
  BY <1>1, NewPeriodTypes
<1>4. closed.rate = NewRate
  BY <1>2 DEF ClosedPerformance, Performance
<1>5. open.deposits = 0 /\ open.withdrawals = 0 /\ open.units = NewUnits
  BY DEF OpenPerformance
<1> HIDE DEF closed, open
<1>6. /\ perf[current_period] = closed /\ DOMAIN perf = 0..current_period
      /\ \A p \in 0..(current_period - 1) : perf[p] = performance[p]
  BY <1>2, SMT
<1> HIDE DEF perf
<1>7. /\ performance'[current_period + 1] = open
      /\ \A p \in 0..current_period : performance'[p] = perf[p]
  <2>1. /\ Put(perf, current_period + 1, open)[current_period + 1] = open
        /\ \A p \in DOMAIN perf :
               p # current_period + 1 => Put(perf, current_period + 1, open)[p] = perf[p]
    BY DEF Put
  <2>2. \A p \in 0..current_period : p # current_period + 1
    BY <1>2, SMT
  <2> QED BY <1>1, <1>6, <2>1, <2>2
<1>8. /\ \A p \in 0..(current_period - 1) : performance'[p] = performance[p]
      /\ performance'[current_period] = closed
  BY <1>2, <1>6, <1>7, SMT
<1>9. Initialised' /\ Current' = open
  BY <1>1, <1>2, <1>7, SMT DEF Initialised, Current
<1> QED BY <1>1, <1>2, <1>3, <1>4, <1>5, <1>8, <1>9

\* The subscription that the end of a period with a profit adds.
LEMMA IncentiveAdded ==
    ASSUME Inv, subscriptions' = AddSubscription(IncentiveSubscription)
    PROVE  LET new == Len(subscriptions) + 1
           IN  /\ new \notin DOMAIN subscriptions
               /\ DOMAIN subscriptions' = DOMAIN subscriptions \cup {new}
               /\ \A id \in DOMAIN subscriptions : subscriptions'[id] = subscriptions[id]
               /\ subscriptions'[new].grams = OwnersShare /\ subscriptions'[new].status = 1
               /\ subscriptions'[new].start_period = current_period
<1> DEFINE s == IncentiveSubscription
<1>1. s.status = 1 /\ s.grams = OwnersShare /\ s.start_period = current_period
  BY DEF IncentiveSubscription, NewSubscription
<1>2. subscriptions' = AddSubscription(s)
  OBVIOUS
<1> HIDE DEF s
<1> QED BY <1>1, <1>2, ActiveAfterAdd

\* No subscription is active in the new period.
LEMMA NewPeriodDeposits ==
    ASSUME Laws, Inv, NEW v \in CallValues, NEW g \in Gas, NewPeriod(v, g)
    PROVE  DepositsCoverSubscriptions'
<1>1. /\ current_period \in Nat /\ current_period' = current_period + 1 /\ Current'.deposits = 0
      /\ IF Profitable THEN subscriptions' = AddSubscription(IncentiveSubscription)
         ELSE subscriptions' = subscriptions
  BY NewPeriodRecords
<1>2. \A id \in DOMAIN subscriptions :
          subscriptions[id].start_period \in Nat /\ subscriptions[id].start_period <= current_period
  <2>1. \A id \in DOMAIN subscriptions : subscriptions[id] \in Subscription
    BY SMT DEF Inv, TypeOK
  <2> QED BY <2>1 DEF Inv, SubscriptionStates, Subscription
<1>3. \A id \in DOMAIN subscriptions' : subscriptions'[id].start_period # current_period + 1
  <2>1. CASE Profitable
    BY <1>1, <1>2, <2>1, IncentiveAdded, SMT
  <2>2. CASE ~ Profitable
    BY <1>1, <1>2, <2>2, SMT
  <2> QED BY <2>1, <2>2
<1>4. ActiveIn({current_period})' = {}
  BY <1>1, <1>3 DEF ActiveIn
<1>5. SumFunctionOnSet(Grams', {}) = 0
  BY DEF Laws, SumEmptyLaw
<1>6. SumFunctionOnSet(Grams, ActiveIn({current_period}))' = 0
  BY <1>4, <1>5
<1> QED BY <1>1, <1>6, SMT DEF DepositsCoverSubscriptions

\* The units of the next period cover those of the subscriptions that were open, old and
\* new: the managed units are worth no more than the managed grams at the new rate, and
\* the new subscriptions no more than the deposits.
LEMMA NewPeriodUnits ==
    ASSUME Laws, Inv, DepositsCoverSubscriptions, UnitsCoverSubscriptions, config.owner_fee = 0,
           NEW v \in CallValues, NEW g \in Gas, NewPeriod(v, g)
    PROVE  UnitsCoverSubscriptions'
<1> DEFINE old == ActiveIn(0..(current_period - 1))
           now == ActiveIn({current_period})
           opened == {id \in DOMAIN subscriptions' :
                          /\ subscriptions'[id].status = 1
                          /\ subscriptions'[id].start_period = current_period}
<1>1. /\ Initialised /\ current_period' = current_period + 1
      /\ current_period \in Nat /\ current_period > 0
      /\ NewRate \in Nat /\ NewRate > 0 /\ NewUnits \in Nat
      /\ performance'[current_period].rate = NewRate
      /\ \A p \in 0..(current_period - 1) : performance'[p] = performance[p]
      /\ Current'.withdrawals = 0 /\ Current'.units = NewUnits
      /\ IF Profitable
         THEN subscriptions' = AddSubscription(IncentiveSubscription) /\ OwnersShare \in Nat
         ELSE subscriptions' = subscriptions
  BY NewPeriodRecords
<1>2. /\ Current.aum \in Nat /\ Current.deposits \in Nat
      /\ ManagedAum \in Int /\ ManagedUnits \in Int
      /\ Current.aum = ManagedAum + Current.deposits
  BY <1>1, CurrentType, SMT DEF ManagedAum, ManagedUnits
<1>3. /\ IsFiniteSet(old) /\ old \subseteq DOMAIN subscriptions
      /\ DOMAIN UnitsHeld = old
      /\ \A id \in old : /\ UnitsHeld[id] \in Nat
                         /\ UnitsHeld[id] = UnitsOf(subscriptions[id])
                         /\ subscriptions[id].start_period \in 0..(current_period - 1)
  BY <1>1, ActiveTypes, HeldTypes
<1>4. /\ IsFiniteSet(now) /\ now \subseteq DOMAIN subscriptions
      /\ \A id \in now : Grams[id] \in Nat
  BY ActiveTypes
<1>5. /\ SumFunctionOnSet(UnitsHeld, old) \in Nat
      /\ SumFunctionOnSet(UnitsHeld, old) <= ManagedUnits
  <2>1. SumFunctionOnSet(UnitsHeld, old) \in Nat
    BY <1>3 DEF Laws, SumNatLaw
  <2> QED BY <1>1, <1>3, <2>1 DEF UnitsCoverSubscriptions, SumFunction
<1>6. NewRate * ManagedUnits <= ManagedAum
  <2>1. ManagedUnits \in Nat /\ ManagedUnits > 0
    <3>1. ManagedUnits # 0
      BY DEF NewPeriod, PeriodCloses
    <3> QED BY <1>2, <1>5, <3>1, SMT
  <2>2. NewRate = ManagedAum \div ManagedUnits
    BY <2>1 DEF NewRate, FloorDiv
  <2>3. ManagedUnits * NewRate <= ManagedAum
    BY <1>2, <2>1, <2>2 DEF Laws, DivLaw
  <2> QED BY <1>1, <2>1, <2>3, SMT
\* The subscriptions opened in the period that ends, the owner's included, which has no grams.
<1>7. /\ \A id \in DOMAIN subscriptions : /\ id \in DOMAIN subscriptions'
                                          /\ subscriptions'[id] = subscriptions[id]
      /\ IsFiniteSet(opened) /\ \A id \in opened : Grams'[id] \in Nat
      /\ SumFunctionOnSet(Grams', opened) <= Current.deposits
  <2>1. SumFunctionOnSet(Grams, now) <= Current.deposits
    BY <1>1 DEF DepositsCoverSubscriptions
  <2>2. CASE ~ Profitable
    <3>1. subscriptions' = subscriptions
      BY <1>1, <2>2
    <3>2. opened = now /\ Grams' = Grams
      BY <3>1 DEF ActiveIn, Grams
    <3> QED BY <1>4, <2>1, <3>1, <3>2
  <2>3. CASE Profitable
    <3> DEFINE new == Len(subscriptions) + 1
    <3>1. subscriptions' = AddSubscription(IncentiveSubscription)
      BY <1>1, <2>3
    <3>2. /\ new \notin DOMAIN subscriptions
          /\ DOMAIN subscriptions' = DOMAIN subscriptions \cup {new}
          /\ \A id \in DOMAIN subscriptions : subscriptions'[id] = subscriptions[id]
          /\ subscriptions'[new].grams = OwnersShare /\ subscriptions'[new].status = 1
          /\ subscriptions'[new].start_period = current_period
      BY <3>1, IncentiveAdded
    <3> HIDE DEF new
    <3>3. OwnersShare = 0
      <4> DEFINE d == ManagedUnits * NewRate - ManagedUnits * PreviousRate
      <4>1. OwnersShare = (d * 0) \div FeeBase
        BY DEF OwnersShare
      <4>2. d \in Int
        <5>1. performance[current_period - 1] \in Performance
          BY <1>1, CurrentType, SMT
        <5>2. PreviousRate \in Nat
          BY <5>1 DEF PreviousRate, Performance
        <5> QED BY <1>1, <1>2, <5>2, SMT
      <4> HIDE DEF d
      <4> QED BY <4>1, <4>2, SMT DEF FeeBase
    <3>4. opened = now \cup {new}
      BY <3>2 DEF ActiveIn
    <3> HIDE DEF opened, now
    <3>5. Grams'[new] = 0 /\ \A id \in DOMAIN subscriptions : Grams'[id] = Grams[id]
      BY <3>2, <3>3 DEF Grams
    <3>6. /\ new \notin now /\ \A id \in now : Grams[id] \in Int /\ Grams'[id] = Grams[id]
          /\ \A id \in now \cup {new} : Grams'[id] \in Nat
      BY <1>4, <3>2, <3>5, SMT
    <3>7. /\ SumFunctionOnSet(Grams', now \cup {new}) = SumFunctionOnSet(Grams, now) + Grams'[new]
          /\ SumFunctionOnSet(Grams, now) \in Int /\ IsFiniteSet(now \cup {new})
      <4> DEFINE F == Grams
                 G == Grams'
      <4>1. OneMore(F, now, G, new)
        BY <1>4, <3>5, <3>6, SMT DEF OneMore
      <4> HIDE DEF F, G
      <4>2. /\ SumFunctionOnSet(G, now \cup {new}) = SumFunctionOnSet(F, now) + G[new]
            /\ SumFunctionOnSet(F, now) \in Int /\ IsFiniteSet(now \cup {new})
        BY <4>1 DEF Laws, SumExtendedLaw
      <4> QED BY <4>2 DEF F, G
    <3>8. SumFunctionOnSet(Grams', opened) <= Current.deposits
      BY <2>1, <3>4, <3>5, <3>7, SMT
    <3> QED BY <3>2, <3>4, <3>6, <3>7, <3>8
  <2> QED BY <2>2, <2>3
<1>8. /\ DOMAIN UnitsHeld' = old \cup opened /\ old \cap opened = {}
      /\ \A id \in old : UnitsHeld'[id] = UnitsHeld[id]
      /\ \A id \in opened : UnitsHeld'[id] = Grams'[id] \div NewRate
  <2>1. current_period' - 1 = current_period
    BY <1>1, SMT
  <2>2. DOMAIN UnitsHeld' = {id \in DOMAIN subscriptions' :
                                 /\ subscriptions'[id].status = 1
                                 /\ subscriptions'[id].start_period \in 0..current_period}
    BY <2>1 DEF UnitsHeld, ActiveIn
  <2>3. DOMAIN UnitsHeld' = old \cup opened /\ old \cap opened = {}
    <3>1. old \cap opened = {}
      <4>1. \A p \in 0..(current_period - 1) : p # current_period
        BY <1>1, SMT
      <4>2. \A id \in opened : subscriptions'[id].start_period = current_period
        BY DEF ActiveIn
      <4> QED BY <1>3, <1>7, <4>1, <4>2
    <3>2. \A id \in old : id \in DOMAIN UnitsHeld'
      BY <1>1, <1>3, <1>7, <2>2, SMT DEF ActiveIn
    <3>3. \A id \in opened : id \in DOMAIN UnitsHeld'
      BY <1>1, <2>2, SMT
    <3>4. ASSUME NEW id \in DOMAIN UnitsHeld', id \notin opened PROVE id \in old
      <4>1. /\ id \in DOMAIN subscriptions' /\ subscriptions'[id].status = 1
            /\ subscriptions'[id].start_period \in 0..(current_period - 1)
        BY <1>1, <2>2, <3>4, SMT
      <4>2. id \in DOMAIN subscriptions
        <5>1. CASE Profitable
          <6>1. subscriptions' = AddSubscription(IncentiveSubscription)
            BY <1>1, <5>1
          <6>2. /\ DOMAIN subscriptions' = DOMAIN subscriptions \cup {Len(subscriptions) + 1}
                /\ subscriptions'[Len(subscriptions) + 1].start_period = current_period
            BY <6>1, IncentiveAdded
          <6> QED BY <1>1, <4>1, <6>2, SMT
        <5>2. CASE ~ Profitable
          BY <1>1, <4>1, <5>2
        <5> QED BY <5>1, <5>2
      <4> QED BY <1>7, <4>1, <4>2 DEF ActiveIn
    <3> QED BY <3>1, <3>2, <3>3, <3>4
  <2>4. \A id \in old \cup opened : UnitsHeld'[id] = UnitsOf(subscriptions[id])'
    BY <2>3 DEF UnitsHeld
  <2>5. \A id \in old : UnitsOf(subscriptions[id])' = UnitsOf(subscriptions[id])
    BY <1>1, <1>3, <1>7 DEF UnitsOf
  <2>6. \A id \in opened : UnitsOf(subscriptions[id])' = Grams'[id] \div NewRate
    BY <1>1 DEF UnitsOf, Grams
  <2> QED BY <1>3, <2>3, <2>4, <2>5, <2>6
<1> HIDE DEF old, now, opened
<1>9. /\ \A id \in old : UnitsHeld[id] \in Int /\ UnitsHeld'[id] = UnitsHeld[id]
      /\ \A id \in opened : Grams'[id] \in Int /\ UnitsHeld'[id] = Grams'[id] \div NewRate
  BY <1>3, <1>7, <1>8, SMT
<1>10. SumFunctionOnSet(UnitsHeld', old \cup opened) <= NewUnits
  <2>1. SumFunctionOnSet(UnitsHeld', old \cup opened) <=
            (ManagedAum + Current.deposits) \div NewRate
    <3> DEFINE f == UnitsHeld
               g1 == Grams'
               h == UnitsHeld'
               r == NewRate
               m == ManagedUnits
               a == ManagedAum
               d == Current.deposits
    <3>1. /\ r \in Nat /\ r > 0 /\ m \in Int /\ a \in Int /\ d \in Int /\ r * m <= a
      BY <1>1, <1>2, <1>6, SMT
    <3>2. /\ IsFiniteSet(old) /\ IsFiniteSet(opened) /\ old \cap opened = {}
          /\ \A x \in old : f[x] \in Int /\ h[x] = f[x]
          /\ \A x \in opened : g1[x] \in Int /\ h[x] = g1[x] \div r
          /\ SumFunctionOnSet(f, old) <= m /\ SumFunctionOnSet(g1, opened) <= d
      BY <1>3, <1>5, <1>7, <1>8, <1>9
    <3> HIDE DEF f, g1, h, r, m, a, d
    <3>3. SumFunctionOnSet(h, old \cup opened) <= (a + d) \div r
      BY <3>1, <3>2 DEF Laws, RoundedLaw, Rounded
    <3> QED BY <3>3 DEF h, a, d, r
  <2> QED BY <1>2, <2>1 DEF NewUnits
<1>11. ManagedUnits' = NewUnits
  BY <1>1, SMT DEF ManagedUnits
<1> QED BY <1>8, <1>10, <1>11 DEF UnitsCoverSubscriptions, SumFunction

-----------------------------------------------------------------------------
\* The owner takes no share of the profit, now or after any change of the configuration.
NoIncentive ==
    /\ InitialConfig.owner_fee = 0
    /\ \A o \in ConfigOrders : 4 \in o.options => o.owner_fee = 0

FeeFree == config.owner_fee = 0

\* Steps that change the configuration, the nominators or the grams under management only.
LEMMA OtherStepsCovered ==
    ASSUME Laws, Inv, NEW v \in CallValues, NEW g \in Gas,
           \/ UNCHANGED data
           \/ \E a \in DOMAIN nominators, st \in 0..2 : ActivateWallet(a, st, v, g)
           \/ FetchBalances(v, g)
           \/ \E wc \in {Basechain, Masterchain}, u \in Users, o \in ConfigOrders :
                  SetConfig(<<wc, u>>, o, v, g)
           \/ \E a \in Nominators, b, stake \in Reports : GotBalance(a, b, stake, v, g)
    PROVE  /\ DepositsCoverSubscriptions => DepositsCoverSubscriptions'
           /\ UnitsCoverSubscriptions => UnitsCoverSubscriptions'
<1>1. CASE UNCHANGED <<current_period, performance, subscriptions>>
  BY <1>1, CountersKept DEF Current
<1>2. ASSUME NEW aum, Initialised, UNCHANGED <<current_period, subscriptions>>,
             performance' = SetCurrent(aum, Current.deposits, Current.withdrawals)
      PROVE  /\ DepositsCoverSubscriptions => DepositsCoverSubscriptions'
             /\ UnitsCoverSubscriptions => UnitsCoverSubscriptions'
  <2>1. /\ Current'.deposits = Current.deposits /\ Current'.withdrawals = Current.withdrawals
        /\ Current'.units = Current.units
        /\ \A p \in 0..(current_period - 1) : performance'[p] = performance[p]
    BY <1>2, SetCurrentRecord
  <2> QED BY <1>2, <2>1, CountersKept
<1>3. CASE FetchBalances(v, g)
  BY <1>2, <1>3 DEF FetchBalances, ResetAum
<1>4. ASSUME NEW a \in Nominators, NEW b \in Reports, NEW stake \in Reports,
             GotBalance(a, b, stake, v, g)
      PROVE  /\ DepositsCoverSubscriptions => DepositsCoverSubscriptions'
             /\ UnitsCoverSubscriptions => UnitsCoverSubscriptions'
  BY <1>2, <1>4 DEF GotBalance, AddReport
<1>5. ASSUME NEW a, NEW st, ActivateWallet(a, st, v, g)
      PROVE  UNCHANGED <<current_period, performance, subscriptions>>
  BY <1>5 DEF ActivateWallet
<1>6. ASSUME NEW src, NEW o, SetConfig(src, o, v, g)
      PROVE  UNCHANGED <<current_period, performance, subscriptions>>
  BY <1>6 DEF SetConfig
<1>7. CASE UNCHANGED data
  BY <1>1, <1>7 DEF data
<1> QED BY <1>1, <1>3, <1>4, <1>5, <1>6, <1>7

\* No step of the pool leaves the deposits of the period below its subscriptions.
LEMMA NextDeposits ==
    ASSUME Laws
    PROVE  Inv /\ DepositsCoverSubscriptions /\ [Next]_vars => DepositsCoverSubscriptions'
<1> SUFFICES ASSUME Inv, DepositsCoverSubscriptions, [Next]_vars
             PROVE  DepositsCoverSubscriptions'
  OBVIOUS
<1>1. CASE UNCHANGED data
  <2>1. UNCHANGED <<current_period, subscriptions>> /\ Current' = Current
        /\ \A p \in 0..(current_period - 1) : performance'[p] = performance[p]
    BY <1>1 DEF data, Current
  <2> QED BY <2>1, CountersKept
<1>2. CASE Next /\ ~ UNCHANGED data
  BY <1>2, StepCases, TryInitCovered, SubscribeCovered, RedeemMaturedCovered,
     NewPeriodDeposits, OtherStepsCovered
<1> QED BY <1>1, <1>2 DEF vars

\* The owner fee stays zero.
LEMMA FeeStaysZero ==
    ASSUME NoIncentive, Inv, FeeFree, [Next]_vars
    PROVE  FeeFree'
<1> USE DEF FeeFree
<1>1. CASE UNCHANGED config
  BY <1>1
<1>2. ASSUME NEW g, TryInit(g)
      PROVE  config'.owner_fee = 0
  BY <1>2 DEF TryInit, Inv, TypeOK, Config
<1>3. ASSUME NEW src, NEW o \in ConfigOrders, NEW v, NEW g, SetConfig(src, o, v, g)
      PROVE  config'.owner_fee = 0
  <2>1. config'.owner_fee = IF 4 \in o.options THEN o.owner_fee ELSE config.owner_fee
    BY <1>3 DEF SetConfig
  <2> QED BY <2>1 DEF NoIncentive
<1>4. UNCHANGED vars => UNCHANGED config
  BY DEF vars, data
<1>5. \A u, v, g : Subscribe(u, v, g) => UNCHANGED config
  BY DEF Subscribe
<1>6. \A u, id, v, g : RedeemMatured(u, id, v, g) => UNCHANGED config
  BY DEF RedeemMatured
<1>7. \A v, g : NewPeriod(v, g) \/ FetchBalances(v, g) => UNCHANGED config
  BY DEF NewPeriod, FetchBalances
<1>8. \A a, st, v, g : ActivateWallet(a, st, v, g) => UNCHANGED config
  BY DEF ActivateWallet
<1>9. \A a, b, stake, v, g : GotBalance(a, b, stake, v, g) => UNCHANGED config
  BY DEF GotBalance
<1>10. UNCHANGED data => UNCHANGED config
  BY DEF data
<1> QED BY <1>1, <1>2, <1>3, <1>4, <1>5, <1>6, <1>7, <1>8, <1>9, <1>10, StepCases

\* Without incentive no step leaves the units of the pool below its subscriptions.
LEMMA NextUnits ==
    ASSUME Laws, NoIncentive
    PROVE  Inv /\ DepositsCoverSubscriptions /\ UnitsCoverSubscriptions /\ FeeFree
               /\ [Next]_vars => UnitsCoverSubscriptions' /\ FeeFree'
<1> SUFFICES ASSUME Inv, DepositsCoverSubscriptions, UnitsCoverSubscriptions,
                    FeeFree, [Next]_vars
             PROVE  UnitsCoverSubscriptions'
  BY FeeStaysZero
<1>1. CASE UNCHANGED data
  <2>1. UNCHANGED <<current_period, subscriptions>> /\ Current' = Current
        /\ \A p \in 0..(current_period - 1) : performance'[p] = performance[p]
    BY <1>1 DEF data, Current
  <2> QED BY <2>1, CountersKept
<1>2. CASE Next /\ ~ UNCHANGED data
  BY <1>2, StepCases, TryInitCovered, SubscribeCovered, RedeemMaturedCovered,
     NewPeriodUnits, OtherStepsCovered DEF FeeFree
<1> QED BY <1>1, <1>2 DEF vars

\* Before the deployment there is nothing to cover.
LEMMA InitCovered == Init => DepositsCoverSubscriptions /\ UnitsCoverSubscriptions
<1>1. Init => ~ Initialised
  <2>1. Init => current_period = 0
    BY DEF Init
  <2> QED BY <2>1, SMT DEF Initialised
<1> QED BY <1>1 DEF DepositsCoverSubscriptions, UnitsCoverSubscriptions

-----------------------------------------------------------------------------
\* The proofs of the laws of finite sets and sums.
SumProofs == INSTANCE Sums

\* The laws that the lemmas take as a hypothesis are the ones that module Sums proves: both
\* say the same once every definition is expanded.
LEMMA LawsHold == Laws
  BY SumProofs!SumLawsHold, ZenonT(60)
  DEF SumProofs!Laws, Laws, SumProofs!LeastLaw, LeastLaw, SumProofs!DivLaw, DivLaw,
      SumProofs!EmptyLaw, EmptyLaw, SumProofs!CardinalityLaw, CardinalityLaw,
      SumProofs!AddLaw, AddLaw, SumProofs!SubsetLaw, SubsetLaw, SumProofs!IntervalLaw,
      IntervalLaw, SumProofs!InjectionLaw, InjectionLaw, SumProofs!SumEmptyLaw,
      SumEmptyLaw, SumProofs!SumIntLaw, SumIntLaw, SumProofs!SumNatLaw, SumNatLaw,
      SumProofs!SumSameLaw, SumSameLaw, SumProofs!SumLeqLaw, SumLeqLaw,
      SumProofs!SumScaledLaw, SumScaledLaw, SumProofs!SumMultipleLaw, SumMultipleLaw,
      SumProofs!SumPlusLaw, SumPlusLaw, SumProofs!SumMemberLaw, SumMemberLaw,
      SumProofs!SumAtLeastLaw, SumAtLeastLaw, SumProofs!SumChangeLaw, SumChangeLaw,
      SumProofs!SumGroupsLaw, SumGroupsLaw, SumProofs!SumExtendedLaw, SumExtendedLaw,
      SumProofs!SumReducedLaw, SumReducedLaw, SumProofs!SumImageLaw, SumImageLaw,
      SumProofs!SumPaddedLaw, SumPaddedLaw, SumProofs!SumPutLaw, SumPutLaw,
      SumProofs!RoundedLaw, RoundedLaw, SumProofs!OneChanged, OneChanged,
      SumProofs!Grouped, Grouped, SumProofs!OneMore, OneMore, SumProofs!OneLess,
      OneLess, SumProofs!Enumerates, Enumerates, SumProofs!Padded, Padded,
      SumProofs!OnePut, OnePut, SumProofs!Rounded, Rounded, SumProofs!IsFiniteSet,
      IsFiniteSet, SumProofs!Cardinality, Cardinality, SumProofs!Injection, Injection,
      SumProofs!Surjection, Surjection, SumProofs!IsInjective, IsInjective,
      SumProofs!SumFunctionOnSet, SumFunctionOnSet, SumProofs!FoldFunctionOnSet,
      FoldFunctionOnSet, SumProofs!MapThenFoldSet, MapThenFoldSet

\* The grams of the subscriptions opened in a period are counted as deposits of that
\* period, whatever was subscribed, redeemed, reported and reset in it: process_redeem
\* never takes more from the counter than was added to it.
THEOREM PoolDepositsCover == Spec => []DepositsCoverSubscriptions
<1>1. Init => DepositsCoverSubscriptions
  BY InitCovered
<1>2. Inv /\ DepositsCoverSubscriptions /\ [Next]_vars => DepositsCoverSubscriptions'
  BY LawsHold, NextDeposits
<1> QED BY <1>1, <1>2, PoolInvariant, PTL DEF Spec

\* Without an incentive for the owner the units of a period cover the units that the
\* subscribers hold, at every rate and after any number of periods, although every
\* division of process_new_period and process_redeem rounds: the divisor of
\* process_new_period is never negative.
THEOREM PoolUnitsCover ==
    ASSUME NoIncentive
    PROVE  Spec => []UnitsCoverSubscriptions
<1>1. Init => UnitsCoverSubscriptions /\ FeeFree
  <2>1. Init => config.owner_fee = InitialConfig.owner_fee
    BY SMT DEF Init
  <2> QED BY <2>1, InitCovered DEF FeeFree, NoIncentive
<1>2. Spec => []Inv /\ []DepositsCoverSubscriptions
  BY PoolInvariant, PoolDepositsCover, PTL
<1>3. Inv /\ DepositsCoverSubscriptions /\ UnitsCoverSubscriptions /\ FeeFree
          /\ [Next]_vars => UnitsCoverSubscriptions' /\ FeeFree'
  BY LawsHold, NextUnits
<1> QED BY <1>1, <1>2, <1>3, PTL DEF Spec

=============================================================================
