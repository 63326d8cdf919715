--------------------------- MODULE MCStakingPool ---------------------------
(***************************************************************************)
(* Instances of StakingPool for TLC.                                       *)
(***************************************************************************)
EXTENDS PoolDocs

CONSTANTS o, u, w, n1, n2

MCConfig == [transaction_fee |-> 3, min_amount |-> 5, owner_fee |-> 0, penalty_fee |-> 3000]
MCGasConfig == [MCConfig EXCEPT !.transaction_fee = 4]
MCIncentiveConfig == [MCConfig EXCEPT !.owner_fee = 3000]

AllInactive == [n \in Nominators |-> 0]
AllActive == [n \in Nominators |-> 1]
MCWalletIdx == [n \in Nominators |-> IF n = n1 THEN 1 ELSE 2]

NoOrder == [options |-> {}, transaction_fee |-> 0, min_amount |-> 0, owner_fee |-> 0,
            penalty_fee |-> 0, pending_owner |-> NoOwner]

MCConfigOrders ==
    {[NoOrder EXCEPT !.options = {32}, !.pending_owner = u],
     [NoOrder EXCEPT !.options = {16}],
     [NoOrder EXCEPT !.options = {8, 16, 32}, !.penalty_fee = 2000, !.pending_owner = o],
     [NoOrder EXCEPT !.options = {2, 8}, !.min_amount = 6, !.penalty_fee = 2500],
     [NoOrder EXCEPT !.options = {1}, !.transaction_fee = 2],
     [NoOrder EXCEPT !.options = {1}, !.transaction_fee = 4]}

=============================================================================
