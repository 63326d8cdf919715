-------------------------------- MODULE Voting --------------------------------
(***************************************************************************)
(* What the nodes of a validator session promise in one round, without the *)
(* blocks, states and merges that make them keep it: in an attempt a node  *)
(* votes at most once and precommits at most what a quorum has voted for,  *)
(* attempts only grow, and a node that has precommitted a value votes for  *)
(* another one only after a quorum has voted in a later attempt for a      *)
(* value that differs (the lock, last_precommit_).                         *)
(***************************************************************************)
EXTENDS Integers

CONSTANTS
    Nodes, Values, Attempts, Quorums,
    None            \* no value

VARIABLES
    vote,           \* vote[n][a]: what n has voted for in attempt a
    pre,            \* pre[n][a]: what n has precommitted
    cur             \* the attempt of the last block of n

vars == <<vote, pre, cur>>

(* Any two sets of nodes with more than 2/3 of the weight share a node.     *)
QuorumAssumption ==
    /\ Attempts \subseteq Nat
    /\ None \notin Values
    /\ Quorums \subseteq SUBSET Nodes
    /\ \A Q \in Quorums, R \in Quorums : Q \cap R # {}

Init ==
    /\ vote = [n \in Nodes |-> [a \in Attempts |-> None]]
    /\ pre = [n \in Nodes |-> [a \in Attempts |-> None]]
    /\ cur \in [Nodes -> Nat]

Voted(a, b) == \E Q \in Quorums : \A n \in Q : vote[n][a] = b

(* No precommit of n locks it away from b.                                  *)
Unlocked(n, b) ==
    \A p \in Attempts : pre[n][p] \notin {None, b} =>
        \E r \in Attempts, e \in Values : r > p /\ e # pre[n][p] /\ Voted(r, e)

Vote(n, a) ==
    \/ UNCHANGED vote
    \/ \E b \in Values : /\ vote[n][a] = None
                         /\ Unlocked(n, b)
                         /\ vote' = [vote EXCEPT ![n][a] = b]

(* A vote of the same block counts.                                         *)
Precommit(n, a) ==
    \/ UNCHANGED pre
    \/ \E b \in Values : /\ pre[n][a] = None
                         /\ \E Q \in Quorums : \A m \in Q : vote'[m][a] = b
                         /\ pre' = [pre EXCEPT ![n][a] = b]

(* A block of n in attempt a.                                               *)
Act(n, a) ==
    /\ a >= cur[n]
    /\ cur' = [cur EXCEPT ![n] = a]
    /\ Vote(n, a)
    /\ Precommit(n, a)

Next == \E n \in Nodes, a \in Attempts : Act(n, a)

Spec == Init /\ [][Next]_vars

-----------------------------------------------------------------------------
Decided(b) == \E a \in Attempts, Q \in Quorums : \A n \in Q : pre[n][a] = b

(* At most one value is precommitted by a quorum, in whatever attempts the  *)
(* quorums are: CHECK at validator-session-state.cpp 738, where two states  *)
(* that both hold a precommitted block are merged.                          *)
Agreement == \A b \in Values, c \in Values : Decided(b) /\ Decided(c) => b = c
=============================================================================
