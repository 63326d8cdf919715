--------------------------- MODULE ValidatorSession ---------------------------
(***************************************************************************)
(* Validators that agree on blocks (validator-session.cpp).  A node makes  *)
(* blocks of the catchain, each of which carries messages and depends on   *)
(* blocks of other nodes; the catchain delivers them in causal order, so   *)
(* that what a node knows is the state its operators compute (module       *)
(* SessionState).  Nodes are slow, restart and have clocks that differ;    *)
(* none forks its chain (the catchain blames a node that does).            *)
(***************************************************************************)
EXTENDS SessionState, SequencesExt

CONSTANTS
    Atts,           \* attempts (readings of the clocks)
    MaxRounds       \* bound: rounds

ASSUME AttemptAssumption ==
    IsFiniteSet(Atts) /\ Atts \subseteq Nat \ {0} /\ MaxRounds \in Nat

VARIABLES
    state,          \* the state after the last block of a node
    vote, pre       \* history: what a node has voted for and precommitted in round 0

vars == <<state, vote, pre>>

Init ==
    /\ state = [n \in Nodes |-> EmptyState]
    /\ vote = [n \in Nodes |-> [a \in Atts |-> None]]
    /\ pre = vote

(* What a node may know when it makes a block: its own state and, of every  *)
(* other node, the last block or nothing new.  A node that has restarted    *)
(* knows its own blocks and receives the others again.                      *)
Views(n) ==
    LET Known[m \in 0..N] ==
            IF m = 0 THEN {state[n]}
            ELSE UNION {{s, Merge(s, state[m - 1])} : s \in Known[m - 1]}
    IN  Known[N]

(***************************************************************************)
(* process_blocks.                                                         *)
(***************************************************************************)
Msg(s, type, cand) == [type |-> type, round |-> RoundOf(s), cand |-> cand]

(* The candidates a node has validated by now are approved, and when the    *)
(* keyring has answered the precommitted one is signed.                     *)
Messages(n, s, submit, approve, sign) ==
    (IF submit THEN <<Msg(s, "SUBMIT", n)>> ELSE << >>)
      \o [i \in 1..Cardinality(approve) |-> Msg(s, "APPROVE", SetToSeq(approve)[i])]
      \o (IF sign THEN <<Msg(s, "COMMIT", s.cur.block)>> ELSE << >>)

Apply(s, n, a, msgs) == FoldLeft(LAMBDA t, msg : Action(t, n, a, msg), s, msgs)

Said(n, s, a, submit, approve, sign) == Apply(s, n, a, Messages(n, s, submit, approve, sign))

VotedFor(s, n, a, cand) ==
    IF NeedVoteFor(s, n, a) THEN Apply(s, n, a, <<Msg(s, "VOTEFOR", cand)>>) ELSE s

(* generate_vote_for takes any approved candidate.                          *)
VoteForChoices(s, n, a) ==
    IF NeedVoteFor(s, n, a) THEN {c \in DOMAIN s.cur.sent : IsApproved(s.cur, c)} ELSE {None}

(* The loop that ends with EMPTY: a vote and a precommit at most go before. *)
Do(s, n, a) == Apply(s, n, a, <<CreateAction(s, n, a)>>)

(* Mutant: a block says one thing.                                          *)
DoOnce(s, n, a) == Do(s, n, a)

DoAll(s, n, a) == FoldLeft(LAMBDA t, i : Do(t, n, a), s, <<1, 2, 3>>)

VoteIn(s, n, a) ==
    LET at == AttemptOf(s.cur, a)
        voted == {c \in DOMAIN at.votes : n \in at.votes[c]}
    IN  IF voted = {} THEN None ELSE Min(voted)

PreIn(s, n, a) ==
    IF n \in AttemptOf(s.cur, a).pre THEN VotedBlock(AttemptOf(s.cur, a)) ELSE None

MaySubmit(n, s) == MayPropose(n, RoundOf(s)) /\ n \notin DOMAIN s.cur.sent
MaySign(n, s) == s.cur.block # None /\ n \notin s.cur.signs

(* Blocks that only carry EMPTY are left out: they relay what the others    *)
(* receive anyway.                                                          *)
Busy(s, t, n, a) ==
    s # t \/ NeedVoteFor(t, n, a) \/ CreateAction(t, n, a).type # "EMPTY"

Publish(n, a, made) == \E s \in {made} :
    /\ state' = [state EXCEPT ![n] = s]
    /\ IF RoundOf(s) = 0
         THEN /\ vote' = [vote EXCEPT ![n][a] = VoteIn(s, n, a)]
              /\ pre' = [pre EXCEPT ![n][a] = PreIn(s, n, a)]
         ELSE UNCHANGED <<vote, pre>>

MakeBlock(n, s, a) ==
    /\ RoundOf(s) < MaxRounds
    /\ a >= s.att[n]
    /\ \E submit \in {FALSE, MaySubmit(n, s)}, sign \in {FALSE, MaySign(n, s)},
          approve \in SUBSET ChooseBlocksToApprove(s, n) :
       \E t \in {Said(n, s, a, submit, approve, sign)} :
          /\ Busy(s, t, n, a)
          /\ \E cand \in VoteForChoices(t, n, a) : Publish(n, a, DoAll(VotedFor(t, n, a, cand), n, a))

Next == \E n \in Nodes : \E s \in Views(n), a \in Atts : MakeBlock(n, s, a)

Spec == Init /\ [][Next]_vars

-----------------------------------------------------------------------------
(* The block of a round as a state has it: precommitted, or committed.      *)
BlockOf(s, round) ==
    IF RoundOf(s) > round THEN s.old[round + 1].block
    ELSE IF RoundOf(s) = round THEN s.cur.block ELSE None

Pairs == {p \in Nodes \X Nodes : p[1] < p[2]}

(* Two states never hold different blocks for a round, and neither do the   *)
(* states that a third node gets by merging any two of them: a node commits *)
(* what all the others commit.                                              *)
Agreement ==
    Cardinality(({BlockOf(state[n], 0) : n \in Nodes} \cup
                 {BlockOf(Merge(state[p[1]], state[p[2]]), 0) : p \in Pairs}) \ {None}) <= 1

(* No CHECK of merge, of choose_block_to_vote and of                        *)
(* forward_action_to_attempt fails, whichever blocks meet: a node that      *)
(* fails one aborts, and the same blocks abort it again after the restart.  *)
ChecksHold ==
    \A p \in Pairs : LET m == Merge(state[p[1]], state[p[2]])
                     IN  MergeChecks(state[p[1]], state[p[2]], m) /\ LocksNameQuorums(m.cur)

(* A committed block has the approvals of a quorum, although those who      *)
(* signed may have learnt of it from locks and VOTEFOR only.                *)
CommittedApproved ==
    \A n \in Nodes : \A k \in DOMAIN state[n].old :
        /\ state[n].old[k].approved \in Quorums
        /\ state[n].old[k].signs \in Quorums

(* The state after a merge does not depend on the order of the blocks:      *)
(* finished_processing takes another order than process_blocks and reports  *)
(* a node when the hashes differ.                                           *)
MergeCommutes ==
    \A p \in Pairs : Merge(state[p[1]], state[p[2]]) = Merge(state[p[2]], state[p[1]])

(* The messages of a block say all that make_all would add to it, so that   *)
(* whoever preprocesses the block gets the state whose hash is in it.       *)
Reproducible ==
    [][\A n \in Nodes : state'[n] # state[n] =>
          NothingImplicit(state'[n], n, state'[n].att[n])]_vars

V == INSTANCE Voting WITH Values <- Nodes \cup {Skip}, Attempts <- Atts,
                          cur <- [n \in Nodes |-> state[n].att[n]]

ASSUME QuorumsIntersect == V!QuorumAssumption

(* Every block is a step of Voting: a node never votes twice in an attempt, *)
(* precommits only what a quorum has voted for, and leaves a candidate it   *)
(* has precommitted only for a newer quorum.                                *)
ImplementsVoting == V!Spec
=============================================================================
