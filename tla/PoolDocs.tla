------------------------------ MODULE PoolDocs ------------------------------
(***************************************************************************)
(* What README.md says of the pool where the code does something else.     *)
(* The property is violated, the subject of one run and one finding.       *)
(***************************************************************************)
EXTENDS PoolSolvency

\* README.md:212, "subscriber can redeem Grams anytime": an early redemption that passes
\* every check ends the subscription, at least when the pool has the grams.
RedeemAnytime ==
    [][\A u \in Users, id \in DOMAIN subscriptions, v \in CallValues, g \in Gas :
          RedeemEarly(u, id, v, g) /\ balance >= subscriptions[id].grams
              => subscriptions'[id].status # 1]_vars
=============================================================================
