----------------------------- MODULE VotingProofs -----------------------------
(***************************************************************************)
(* Agreement of Voting, for every set of nodes, of values and of attempts, *)
(* and for every system of quorums that intersect.                         *)
(***************************************************************************)
EXTENDS Voting, TLAPS

TypeOK ==
    /\ vote \in [Nodes -> [Attempts -> Values \cup {None}]]
    /\ pre \in [Nodes -> [Attempts -> Values \cup {None}]]
    /\ cur \in [Nodes -> Nat]

(* A precommit names what a quorum has voted for.                           *)
PrecommitsVoted ==
    \A n \in Nodes, a \in Attempts : pre[n][a] # None => Voted(a, pre[n][a])

(* Nothing is said of attempts to come.                                     *)
NothingAhead ==
    \A n \in Nodes, a \in Attempts : a > cur[n] => vote[n][a] = None /\ pre[n][a] = None

(* A later vote against a precommit has a newer quorum behind it.           *)
LocksKept ==
    \A n \in Nodes, a \in Attempts, q \in Attempts :
        /\ q > a
        /\ pre[n][a] # None
        /\ vote[n][q] \notin {None, pre[n][a]}
        => \E r \in Attempts, e \in Values : r > a /\ e # pre[n][a] /\ Voted(r, e)

(* Once a quorum has voted for d in an attempt, no other value can be       *)
(* decided in an earlier one: every quorum has a node that is past that     *)
(* attempt and has not precommitted the value there.                        *)
Excluded(a, b, Q) == \E n \in Q : pre[n][a] # b /\ cur[n] > a

EarlierExcluded ==
    \A a \in Attempts, q \in Attempts, b \in Values, d \in Values :
        q > a /\ d # b /\ Voted(q, d) => \A Q \in Quorums : Excluded(a, b, Q)

IInv ==
    /\ TypeOK
    /\ PrecommitsVoted
    /\ NothingAhead
    /\ LocksKept
    /\ EarlierExcluded

-----------------------------------------------------------------------------
(* A node never takes back a vote, a precommit or an attempt.               *)
LEMMA Grows ==
    ASSUME QuorumAssumption, TypeOK, NEW n0 \in Nodes, NEW a0 \in Attempts, Act(n0, a0)
    PROVE  /\ TypeOK'
           /\ \A n \in Nodes, a \in Attempts :
                /\ n # n0 \/ a # a0 => vote'[n][a] = vote[n][a] /\ pre'[n][a] = pre[n][a]
                /\ vote[n][a] # None => vote'[n][a] = vote[n][a]
                /\ pre[n][a] # None => pre'[n][a] = pre[n][a]
           /\ \A n \in Nodes : cur'[n] >= cur[n]
           /\ cur'[n0] = a0 /\ a0 >= cur[n0]
           /\ \A n \in Nodes : n # n0 => cur'[n] = cur[n]
<1>. a0 \in Nat  BY DEF QuorumAssumption
<1>1. cur' \in [Nodes -> Nat] /\ cur'[n0] = a0 /\ a0 >= cur[n0]
      /\ \A n \in Nodes : n # n0 => cur'[n] = cur[n]
  BY DEF Act, TypeOK
<1>2. \A n \in Nodes : cur'[n] >= cur[n]
  BY <1>1 DEF TypeOK
<1>3. /\ vote' \in [Nodes -> [Attempts -> Values \cup {None}]]
      /\ \A n \in Nodes, a \in Attempts :
           /\ n # n0 \/ a # a0 => vote'[n][a] = vote[n][a]
           /\ vote[n][a] # None => vote'[n][a] = vote[n][a]
  <2>1. CASE UNCHANGED vote  BY <2>1 DEF TypeOK
  <2>2. CASE \E b \in Values : vote[n0][a0] = None /\ vote' = [vote EXCEPT ![n0][a0] = b]
    BY <2>2 DEF TypeOK
  <2>. QED  BY <2>1, <2>2 DEF Act, Vote
<1>4. /\ pre' \in [Nodes -> [Attempts -> Values \cup {None}]]
      /\ \A n \in Nodes, a \in Attempts :
           /\ n # n0 \/ a # a0 => pre'[n][a] = pre[n][a]
           /\ pre[n][a] # None => pre'[n][a] = pre[n][a]
  <2>1. CASE UNCHANGED pre  BY <2>1 DEF TypeOK
  <2>2. CASE \E b \in Values : pre[n0][a0] = None /\ pre' = [pre EXCEPT ![n0][a0] = b]
    BY <2>2 DEF TypeOK
  <2>. QED  BY <2>1, <2>2 DEF Act, Precommit
<1>. QED  BY <1>1, <1>2, <1>3, <1>4 DEF TypeOK

(* A quorum that has voted stays.                                           *)
LEMMA VotedStays ==
    ASSUME QuorumAssumption, TypeOK, NEW n0 \in Nodes, NEW a0 \in Attempts, Act(n0, a0),
           NEW a \in Attempts, NEW b \in Values, Voted(a, b)
    PROVE  Voted(a, b)'
<1>1. PICK Q \in Quorums : \A n \in Q : vote[n][a] = b  BY DEF Voted
<1>2. \A n \in Q : n \in Nodes  BY DEF QuorumAssumption
<1>3. b # None  BY DEF QuorumAssumption
<1>4. \A n \in Q : vote'[n][a] = b  BY <1>1, <1>2, <1>3, Grows
<1>. QED  BY <1>4 DEF Voted

(* What n0 votes for in the step, it is not locked away from.               *)
LEMMA NewVote ==
    ASSUME QuorumAssumption, TypeOK, NEW n0 \in Nodes, NEW a0 \in Attempts, Act(n0, a0),
           vote'[n0][a0] # vote[n0][a0]
    PROVE  Unlocked(n0, vote'[n0][a0])
<1>1. PICK b \in Values : Unlocked(n0, b) /\ vote' = [vote EXCEPT ![n0][a0] = b]
  BY DEF Act, Vote
<1>2. vote'[n0][a0] = b  BY <1>1 DEF TypeOK
<1>. QED  BY <1>1, <1>2

(* What n0 precommits in the step, a quorum has voted for.                  *)
LEMMA NewPrecommit ==
    ASSUME QuorumAssumption, TypeOK, NEW n0 \in Nodes, NEW a0 \in Attempts, Act(n0, a0),
           pre'[n0][a0] # pre[n0][a0]
    PROVE  Voted(a0, pre[n0][a0])'
<1>1. PICK b \in Values : /\ \E Q \in Quorums : \A m \in Q : vote'[m][a0] = b
                          /\ pre' = [pre EXCEPT ![n0][a0] = b]
  BY DEF Act, Precommit
<1>2. pre'[n0][a0] = b  BY <1>1 DEF TypeOK
<1>. QED  BY <1>1, <1>2 DEF Voted

-----------------------------------------------------------------------------
LEMMA InitIInv ==
    ASSUME QuorumAssumption, Init
    PROVE  IInv
<1>1. TypeOK  BY DEF Init, TypeOK
<1>2. \A n \in Nodes, a \in Attempts : vote[n][a] = None /\ pre[n][a] = None  BY DEF Init
<1>3. PrecommitsVoted /\ NothingAhead /\ LocksKept
  BY <1>2 DEF PrecommitsVoted, NothingAhead, LocksKept
<1>4. \A a \in Attempts, b \in Values : ~Voted(a, b)
  <2>. SUFFICES ASSUME NEW a \in Attempts, NEW b \in Values, NEW Q \in Quorums,
                       \A n \in Q : vote[n][a] = b
                PROVE  FALSE
    BY DEF Voted
  <2>. QED  BY <1>2 DEF QuorumAssumption
<1>. QED  BY <1>1, <1>3, <1>4 DEF IInv, EarlierExcluded

LEMMA StepPrecommits ==
    ASSUME QuorumAssumption, IInv, NEW n0 \in Nodes, NEW a0 \in Attempts, Act(n0, a0)
    PROVE  PrecommitsVoted'
<1>. USE DEF IInv
<1>. SUFFICES ASSUME NEW n \in Nodes, NEW a \in Attempts, pre'[n][a] # None
              PROVE  Voted(a, pre[n][a])'
  BY DEF PrecommitsVoted
<1>1. CASE pre'[n][a] = pre[n][a]
  <2>1. pre[n][a] \in Values /\ Voted(a, pre[n][a])  BY <1>1 DEF PrecommitsVoted, TypeOK
  <2>2. PICK b \in Values : b = pre[n][a]  BY <2>1
  <2>3. Voted(a, b)'  BY <2>1, <2>2, VotedStays
  <2>. QED  BY <2>2, <2>3, <1>1 DEF Voted
<1>2. CASE pre'[n][a] # pre[n][a]
  <2>1. n = n0 /\ a = a0  BY <1>2, Grows
  <2>. QED  BY <1>2, <2>1, NewPrecommit
<1>. QED  BY <1>1, <1>2

LEMMA StepAhead ==
    ASSUME QuorumAssumption, IInv, NEW n0 \in Nodes, NEW a0 \in Attempts, Act(n0, a0)
    PROVE  NothingAhead'
<1>. USE DEF IInv
<1>. SUFFICES ASSUME NEW n \in Nodes, NEW a \in Attempts, a > cur'[n]
              PROVE  vote'[n][a] = None /\ pre'[n][a] = None
  BY DEF NothingAhead
<1>1. a \in Nat /\ cur[n] \in Nat /\ cur'[n] \in Nat /\ cur'[n] >= cur[n]
  BY Grows DEF QuorumAssumption, TypeOK
<1>2. a > cur[n]  BY <1>1
<1>3. vote[n][a] = None /\ pre[n][a] = None  BY <1>2 DEF NothingAhead
<1>4. n # n0 \/ a # a0  BY <1>1, Grows
<1>. QED  BY <1>3, <1>4, Grows

LEMMA StepLocks ==
    ASSUME QuorumAssumption, IInv, NEW n0 \in Nodes, NEW a0 \in Attempts, Act(n0, a0)
    PROVE  LocksKept'
<1>. USE DEF IInv
<1>. SUFFICES ASSUME NEW n \in Nodes, NEW a \in Attempts, NEW q \in Attempts, q > a,
                     pre'[n][a] # None, vote'[n][q] \notin {None, pre'[n][a]}
              PROVE  \E r \in Attempts, e \in Values : r > a /\ e # pre'[n][a] /\ Voted(r, e)'
  BY DEF LocksKept
<1>1. a \in Nat /\ q \in Nat /\ cur[n] \in Nat  BY DEF QuorumAssumption, TypeOK
<1>2. pre'[n][a] = pre[n][a]
  <2>. SUFFICES ASSUME pre'[n][a] # pre[n][a]  PROVE FALSE  OBVIOUS
  <2>1. n = n0 /\ a = a0 /\ a0 >= cur[n0]  BY Grows
  <2>2. q > cur[n] /\ q # a0  BY <1>1, <2>1
  <2>3. vote[n][q] = None  BY <2>2 DEF NothingAhead
  <2>. QED  BY <2>2, <2>3, Grows
<1>3. \E r \in Attempts, e \in Values : r > a /\ e # pre[n][a] /\ Voted(r, e)
  <2>1. CASE vote'[n][q] = vote[n][q]
    BY <2>1, <1>2 DEF LocksKept
  <2>2. CASE vote'[n][q] # vote[n][q]
    <3>1. n = n0 /\ q = a0  BY <2>2, Grows
    <3>2. Unlocked(n, vote'[n][q])  BY <2>2, <3>1, NewVote
    <3>3. pre[n][a] \notin {None, vote'[n][q]}  BY <1>2
    <3>. QED  BY <3>2, <3>3 DEF Unlocked
  <2>. QED  BY <2>1, <2>2
<1>4. PICK r \in Attempts, e \in Values : r > a /\ e # pre[n][a] /\ Voted(r, e)  BY <1>3
<1>5. Voted(r, e)'  BY <1>4, VotedStays
<1>. QED  BY <1>2, <1>4, <1>5

(* The heart of the argument: a quorum that comes about for d meets every   *)
(* quorum that could have decided b earlier in a node that either has not   *)
(* precommitted b, or that was freed by a quorum which excludes b already.  *)
LEMMA StepExcluded ==
    ASSUME QuorumAssumption, IInv, NEW n0 \in Nodes, NEW a0 \in Attempts, Act(n0, a0)
    PROVE  EarlierExcluded'
<1>. USE DEF IInv
<1>. SUFFICES ASSUME NEW a \in Attempts, NEW q \in Attempts, NEW b \in Values, NEW d \in Values,
                     q > a, d # b, Voted(q, d)', NEW Q \in Quorums
              PROVE  \E n \in Q : pre'[n][a] # b /\ cur'[n] > a
  BY DEF EarlierExcluded, Excluded
<1>1. a \in Nat /\ q \in Nat /\ Q \subseteq Nodes /\ None \notin Values
  BY DEF QuorumAssumption
<1>2. ASSUME Excluded(a, b, Q)
      PROVE  \E n \in Q : pre'[n][a] # b /\ cur'[n] > a
  <2>1. PICK n \in Q : pre[n][a] # b /\ cur[n] > a  BY <1>2 DEF Excluded
  <2>2. n \in Nodes /\ cur[n] \in Nat /\ cur'[n] \in Nat /\ cur'[n] >= cur[n]
    BY <1>1, Grows DEF TypeOK
  <2>3. cur'[n] > a  BY <1>1, <2>1, <2>2
  <2>4. n # n0 \/ a # a0  BY <1>1, <2>1, <2>2, Grows
  <2>. QED  BY <2>1, <2>2, <2>3, <2>4, Grows
<1>3. CASE Voted(q, d)
  BY <1>2, <1>3 DEF EarlierExcluded
<1>4. CASE ~Voted(q, d)
  <2>1. PICK R \in Quorums : \A n \in R : vote'[n][q] = d  BY DEF Voted
  <2>2. PICK m \in Q : m \in R  BY DEF QuorumAssumption
  <2>3. m \in Nodes /\ vote'[m][q] = d /\ d # None  BY <1>1, <2>1, <2>2
  <2>4. cur'[m] \in Nat /\ cur'[m] >= q
    <3>1. NothingAhead' /\ TypeOK'  BY StepAhead, Grows
    <3>. QED  BY <1>1, <2>3, <3>1 DEF NothingAhead, TypeOK
  <2>5. CASE pre'[m][a] # b
    BY <1>1, <2>2, <2>4, <2>5
  <2>6. CASE pre'[m][a] = b
    <3>1. \E v \in R : vote[v][q] # d  BY <1>4 DEF Voted
    <3>2. PICK v \in R : vote[v][q] # d  BY <3>1
    <3>3. v \in Nodes /\ vote'[v][q] = d  BY <2>1, <3>2 DEF QuorumAssumption
    <3>4. v = n0 /\ q = a0  BY <3>2, <3>3, Grows
    <3>5. a # a0  BY <1>1, <3>4
    <3>6. pre[m][a] = b  BY <2>3, <2>6, <3>5, Grows
    <3>7. \E r \in Attempts, e \in Values : r > a /\ e # b /\ Voted(r, e)
      <4>1. CASE vote[m][q] = d
        <5>1. /\ q > a
              /\ pre[m][a] # None
              /\ vote[m][q] \notin {None, pre[m][a]}
          BY <1>1, <2>3, <3>6, <4>1
        <5>. QED  BY <2>3, <3>6, <5>1 DEF LocksKept
      <4>2. CASE vote[m][q] # d
        <5>1. m = n0  BY <2>3, <4>2, Grows
        <5>2. Unlocked(m, d)  BY <2>3, <3>4, <4>2, <5>1, NewVote
        <5>3. pre[m][a] \notin {None, d}  BY <1>1, <3>6
        <5>. QED  BY <3>6, <5>2, <5>3 DEF Unlocked
      <4>. QED  BY <4>1, <4>2
    <3>8. Excluded(a, b, Q)  BY <3>7 DEF EarlierExcluded
    <3>. QED  BY <1>2, <3>8
  <2>. QED  BY <2>5, <2>6
<1>. QED  BY <1>3, <1>4

LEMMA StepIInv ==
    ASSUME QuorumAssumption, IInv, [Next]_vars
    PROVE  IInv'
<1>1. CASE UNCHANGED vars
  BY <1>1 DEF IInv, vars, TypeOK, PrecommitsVoted, NothingAhead, LocksKept, EarlierExcluded,
              Excluded, Voted
<1>2. CASE Next
  <2>1. PICK n0 \in Nodes, a0 \in Attempts : Act(n0, a0)  BY <1>2 DEF Next
  <2>2. TypeOK'  BY <2>1, Grows DEF IInv
  <2>. QED  BY <2>1, <2>2, StepPrecommits, StepAhead, StepLocks, StepExcluded DEF IInv
<1>. QED  BY <1>1, <1>2

(* Two quorums never precommit different values: the later of the two       *)
(* attempts has a quorum of votes, which excludes the earlier decision.     *)
LEMMA IInvAgreement ==
    ASSUME QuorumAssumption, IInv
    PROVE  Agreement
<1>. USE DEF IInv
<1>1. ASSUME NEW a \in Attempts, NEW Q \in Quorums, NEW b \in Values,
             \A n \in Q : pre[n][a] = b
      PROVE  Voted(a, b)
  <2>1. PICK n \in Q : n \in Nodes  BY DEF QuorumAssumption
  <2>. QED  BY <1>1, <2>1, Zenon DEF PrecommitsVoted, QuorumAssumption
<1>2. ASSUME NEW a \in Attempts, NEW Q \in Quorums, NEW b \in Values,
             \A n \in Q : pre[n][a] = b,
             NEW q \in Attempts, NEW d \in Values, Voted(q, d), q > a
      PROVE  d = b
  BY <1>2 DEF EarlierExcluded, Excluded
<1>3. ASSUME NEW a \in Attempts, NEW b \in Values, NEW d \in Values, Voted(a, b), Voted(a, d)
      PROVE  d = b
  BY <1>3 DEF Voted, QuorumAssumption
<1>. SUFFICES ASSUME NEW b \in Values, NEW c \in Values, Decided(b), Decided(c)
              PROVE  b = c
  BY DEF Agreement
<1>4. PICK a \in Attempts, Q \in Quorums : \A n \in Q : pre[n][a] = b  BY DEF Decided
<1>5. PICK q \in Attempts, R \in Quorums : \A n \in R : pre[n][q] = c  BY DEF Decided
<1>6. Voted(a, b) /\ Voted(q, c)  BY <1>1, <1>4, <1>5
<1>7. a \in Nat /\ q \in Nat  BY DEF QuorumAssumption
<1>8. CASE a = q  BY <1>3, <1>6, <1>8
<1>9. CASE q > a  BY <1>2, <1>4, <1>6, <1>9
<1>10. CASE a > q  BY <1>2, <1>5, <1>6, <1>10
<1>. QED  BY <1>7, <1>8, <1>9, <1>10

(* Whatever the number of nodes and attempts, at most one candidate of a    *)
(* round is precommitted by a quorum: what the CHECK at                     *)
(* validator-session-state.cpp 738 relies on.                               *)
THEOREM VotingAgreement ==
    ASSUME QuorumAssumption
    PROVE  Spec => []Agreement
<1>1. Init => IInv  BY InitIInv
<1>2. IInv /\ [Next]_vars => IInv'  BY StepIInv
<1>3. IInv => Agreement  BY IInvAgreement
<1>. QED  BY <1>1, <1>2, <1>3, PTL DEF Spec

(* A node that votes against what it has precommitted always has a newer    *)
(* quorum for another candidate behind it: last_precommit_ is reset by      *)
(* forward_action_to_attempt and merge for no other reason.                 *)
THEOREM VotingLocks ==
    ASSUME QuorumAssumption
    PROVE  Spec => []LocksKept
<1>1. Init => IInv  BY InitIInv
<1>2. IInv /\ [Next]_vars => IInv'  BY StepIInv
<1>3. IInv => LocksKept  BY DEF IInv
<1>. QED  BY <1>1, <1>2, <1>3, PTL DEF Spec
=============================================================================
