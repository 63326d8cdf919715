---------------------------- MODULE PoolSolvency ----------------------------
(***************************************************************************)
(* What the counters of a period must add up to: properties of StakingPool *)
(* that sum over all subscriptions.                                        *)
(***************************************************************************)
EXTENDS StakingPool, Functions

ActiveIn(periods) ==
    {id \in DOMAIN subscriptions : /\ subscriptions[id].status = 1
                                   /\ subscriptions[id].start_period \in periods}

\* The grams of every subscription, and the units of the active ones of earlier periods.
Grams == [id \in DOMAIN subscriptions |-> subscriptions[id].grams]
UnitsHeld == [id \in ActiveIn(0..(current_period - 1)) |-> UnitsOf(subscriptions[id])]

\* The deposits counter of the current period covers the active subscriptions
\* opened in it: an order to redeem one of them early never fails because process_redeem
\* would store a negative counter, and RedeemEarly needs no action for that case.
DepositsCoverSubscriptions ==
    Initialised => SumFunctionOnSet(Grams, ActiveIn({current_period})) <= Current.deposits

\* The units left in the current period cover the units of the active subscriptions
\* of earlier periods, so process_new_period divides the managed grams by a number
\* of units that is not negative, and zero only when no unit is held.
UnitsCoverSubscriptions == Initialised => SumFunction(UnitsHeld) <= ManagedUnits

=============================================================================
