----------------------------- MODULE SessionState -----------------------------
(***************************************************************************)
(* The state of a validator session (validator-session-state.cpp) as       *)
(* operators: what a message does to it (action), what a node does next    *)
(* (create_action), and how the states of two blocks of the catchain join  *)
(* (merge).  Every node computes the same operators, so that the state     *)
(* after a block is a function of the block and what it depends on.        *)
(*                                                                         *)
(* A candidate is Skip (the null block, the least id) or the one block its *)
(* proposer submits in the round; signatures are valid.  A round is        *)
(*   sent    candidate -> who approved it                                  *)
(*   att     attempt -> [votes, pre, for]: votes by candidate, who has     *)
(*           precommitted, the candidate of VOTEFOR                        *)
(*   first   first attempt of a node, 0 for none                           *)
(*   last    last precommit of a node, the lock, 0 for none                *)
(*   block   the precommitted candidate                                    *)
(*   signs   who signed it                                                 *)
(***************************************************************************)
EXTENDS Integers, Sequences, FiniteSets, FiniteSetsExt

CONSTANTS
    N,                  \* nodes, numbered from 0
    Weight,             \* their weights
    RoundCandidates,    \* how many nodes may submit a block in a round
    MaxRoundAttempts,   \* attempts before the slow mode
    None                \* no candidate

ASSUME SessionAssumption ==
    /\ N \in Nat \ {0} /\ RoundCandidates \in 1..N /\ MaxRoundAttempts \in Nat
    /\ Weight \in [0..N - 1 -> Nat \ {0}]

Nodes == 0..N - 1
Skip == -1

Heavy(S) == MapThenSumSet(LAMBDA n : Weight[n], S)
CutoffWeight == (Heavy(Nodes) * 2) \div 3 + 1
Quorums == {S \in SUBSET Nodes : Heavy(S) >= CutoffWeight}

(* get_node_priority: the place of n among the proposers of a round.        *)
Priority(n, seqno) == (n - seqno) % N
MayPropose(n, seqno) == Priority(n, seqno) < RoundCandidates
PriorityOf(cand, seqno) == IF cand = Skip THEN RoundCandidates ELSE Priority(cand, seqno)

VoteForAuthor(a) == a % N

EmptyAttempt == [votes |-> << >>, pre |-> {}, for |-> None]
EmptyRound ==
    [sent |-> << >>, att |-> << >>, first |-> [n \in Nodes |-> 0],
     last |-> [n \in Nodes |-> 0], block |-> None, signs |-> {}]
EmptyState == [att |-> [n \in Nodes |-> 0], old |-> << >>, cur |-> EmptyRound]

(* The vectors of the code: the entry of a key, and a vector with an entry. *)
At(f, k, none) == IF k \in DOMAIN f THEN f[k] ELSE none
With(f, k, v) == [x \in DOMAIN f \cup {k} |-> IF x = k THEN v ELSE f[x]]
Union(f, g) == [x \in DOMAIN f \cup DOMAIN g |-> At(f, x, {}) \cup At(g, x, {})]

Later(a, b) == IF a >= b THEN a ELSE b
RoundOf(s) == Len(s.old)

(***************************************************************************)
(* The attempt.                                                            *)
(***************************************************************************)
VoteReceivedFrom(at, n) == \E c \in DOMAIN at.votes : n \in at.votes[c]

VotedBlock(at) ==
    LET voted == {c \in DOMAIN at.votes : at.votes[c] \in Quorums}
    IN  IF voted = {} THEN None ELSE Min(voted)

(* Mutant: a single approval is enough.                                     *)
ApprovedByAny(r, cand) == cand \in DOMAIN r.sent /\ r.sent[cand] # {}

IsApproved(r, cand) == cand \in DOMAIN r.sent /\ r.sent[cand] \in Quorums

AttemptOf(r, a) == At(r.att, a, EmptyAttempt)

(* The newest attempt of att where a quorum has voted, 0 for none.          *)
NewestVoted(att) ==
    LET voted == {a \in DOMAIN att : VotedBlock(att[a]) # None}
    IN  IF voted = {} THEN 0 ELSE Max(voted)

ByPriority(r, seqno) ==
    LET approved == {c \in DOMAIN r.sent : IsApproved(r, c)}
    IN  IF approved = {} THEN None
        ELSE CHOOSE c \in approved :
                \A d \in approved : PriorityOf(c, seqno) <= PriorityOf(d, seqno)

SlowMode(r, n, a) ==
    \/ r.first[n] > 0 /\ r.first[n] + MaxRoundAttempts <= a
    \/ MaxRoundAttempts = 0

(* Mutant: a node votes as if it had precommitted nothing.                  *)
ForgetsLock(r, seqno, n, a, for) ==
    CASE DOMAIN r.sent = {} -> None
      [] DOMAIN r.sent # {} /\ SlowMode(r, n, a) -> for
      [] OTHER -> IF NewestVoted(r.att) # 0
                    THEN VotedBlock(r.att[NewestVoted(r.att)])
                    ELSE ByPriority(r, seqno)

(* The locked candidate; in the fast mode the newest candidate with a       *)
(* quorum or the best approved one; in the slow mode the one of VOTEFOR.    *)
ChooseBlockToVote(r, seqno, n, a, for) ==
    CASE DOMAIN r.sent = {} -> None
      [] DOMAIN r.sent # {} /\ r.last[n] > 0 -> VotedBlock(AttemptOf(r, r.last[n]))
      [] DOMAIN r.sent # {} /\ r.last[n] = 0 /\ SlowMode(r, n, a) -> for
      [] OTHER -> IF NewestVoted(r.att) # 0
                    THEN VotedBlock(r.att[NewestVoted(r.att)])
                    ELSE ByPriority(r, seqno)

(* What n does next in attempt at: it votes, else it precommits, else it    *)
(* is done (EMPTY).                                                         *)
ToVote(at, r, seqno, n, a) ==
    IF VoteReceivedFrom(at, n) THEN None ELSE ChooseBlockToVote(r, seqno, n, a, at.for)

(* Mutant: a node precommits once it has voted.                             *)
PrecommitsUnvoted(at, n) == n \notin at.pre /\ VoteReceivedFrom(at, n)

MayPrecommit(at, n) == n \notin at.pre /\ VotedBlock(at) # None

(* make_one: what the state expects of n is done, whatever n says.          *)
MakeOneInAttempt(at, r, seqno, n, a) ==
    LET c == ToVote(at, r, seqno, n, a)
    IN  CASE c # None -> [at EXCEPT !.votes = With(@, c, At(@, c, {}) \cup {n})]
          [] c = None /\ MayPrecommit(at, n) -> [at EXCEPT !.pre = @ \cup {n}]
          [] OTHER -> at

VoteForAccepted(at, r, n, a, cand) ==
    /\ at.for = None
    /\ n = VoteForAuthor(a)
    /\ ~(r.first[n] = 0 /\ MaxRoundAttempts > 0)
    /\ ~(r.first[n] + MaxRoundAttempts > a /\ MaxRoundAttempts = 0)
    /\ IsApproved(r, cand)

AttemptAction(at, r, seqno, n, a, msg) ==
    CASE msg.type # "VOTEFOR" -> MakeOneInAttempt(at, r, seqno, n, a)
      [] msg.type = "VOTEFOR" /\ VoteForAccepted(at, r, n, a, msg.cand) ->
            [at EXCEPT !.for = msg.cand]
      [] OTHER -> at

MergeAttempt(x, y) ==
    [votes |-> Union(x.votes, y.votes), pre |-> x.pre \cup y.pre,
     for |-> CASE x.for = None -> y.for
               [] y.for = None -> x.for
               [] OTHER -> Min({x.for, y.for})]

(***************************************************************************)
(* The round.                                                              *)
(***************************************************************************)
(* The lock of n after what it did in attempt a: a new quorum for another   *)
(* candidate opens the locks up to a, a precommit of n sets its lock.       *)
Relock(r, at, n, a) ==
    LET e == Max({r.last[m] : m \in Nodes})
        eq == e = 0 \/ VotedBlock(at) = None \/ VotedBlock(at) = VotedBlock(AttemptOf(r, e))
        last == IF eq THEN r.last ELSE [m \in Nodes |-> IF r.last[m] > a THEN r.last[m] ELSE 0]
    IN  IF n \in at.pre /\ last[n] < a /\ (a > e \/ eq) THEN [last EXCEPT ![n] = a] ELSE last

ForwardToAttempt(r, seqno, n, a, msg) ==
    IF r.block # None THEN r
    ELSE LET at == AttemptAction(AttemptOf(r, a), r, seqno, n, a, msg)
         IN  [r EXCEPT !.block = IF at.pre \in Quorums THEN VotedBlock(at) ELSE None,
                       !.last = Relock(r, at, n, a),
                       !.att = With(@, a, at)]

SetFirstAttempt(r, n, a) ==
    IF r.first[n] = 0 \/ r.first[n] > a THEN [r EXCEPT !.first[n] = a] ELSE r

RoundAction(r0, seqno, n, a, msg) ==
    LET r == SetFirstAttempt(r0, n, a)
    IN  CASE msg.type = "SUBMIT" ->
               IF MayPropose(n, seqno) /\ n \notin DOMAIN r.sent
                 THEN [r EXCEPT !.sent = With(@, n, {})] ELSE r
          [] msg.type = "APPROVE" ->
               IF msg.cand = Skip \/ msg.cand \in DOMAIN r.sent
                 THEN [r EXCEPT !.sent = With(@, msg.cand, At(@, msg.cand, {}) \cup {n})] ELSE r
          [] msg.type = "COMMIT" ->
               IF r.block # None /\ r.block = msg.cand
                 THEN [r EXCEPT !.signs = @ \cup {n}] ELSE r
          [] OTHER -> ForwardToAttempt(r, seqno, n, a, msg)

(* Mutant: locks up to the newest quorum are open, whatever it is for.      *)
OpenUpToNewest(att) == NewestVoted(att)

(* The newest attempt whose candidate differs from the newest one: locks    *)
(* up to it are open.                                                       *)
OpenUpTo(att) ==
    LET new == NewestVoted(att)
        other == {a \in DOMAIN att : VotedBlock(att[a]) \notin {None, VotedBlock(att[new])}}
    IN  IF new = 0 \/ other = {} THEN 0 ELSE Max(other)

MergeFirst(x, y) == IF x = 0 \/ y = 0 THEN x + y ELSE Min({x, y})

(* Mutant: the lock of the left state is taken.                             *)
LeftLast(x, y, open) == IF x > open THEN x ELSE 0

MergeLast(x, y, open) == IF Later(x, y) > open THEN Later(x, y) ELSE 0

MergeRound(x, y) ==
    IF x = y THEN x
    ELSE LET att == [a \in DOMAIN x.att \cup DOMAIN y.att |->
                        CASE a \notin DOMAIN x.att -> y.att[a]
                          [] a \notin DOMAIN y.att -> x.att[a]
                          [] OTHER -> MergeAttempt(x.att[a], y.att[a])]
             pre == {a \in DOMAIN att : att[a].pre \in Quorums}
         IN  [sent |-> Union(x.sent, y.sent),
              att |-> att,
              first |-> [n \in Nodes |-> MergeFirst(x.first[n], y.first[n])],
              last |-> [n \in Nodes |-> MergeLast(x.last[n], y.last[n], OpenUpTo(att))],
              block |-> CASE x.block # None -> x.block
                          [] x.block = None /\ y.block # None -> y.block
                          [] OTHER -> IF pre = {} THEN None ELSE VotedBlock(att[Max(pre)]),
              signs |-> x.signs \cup y.signs]

(***************************************************************************)
(* The state: old rounds, and the current one.                             *)
(***************************************************************************)
OldRound(r) == [block |-> r.block, signs |-> r.signs, approved |-> At(r.sent, r.block, {})]

(* A round that a quorum has signed is closed.                              *)
Close(s) ==
    IF s.cur.signs \in Quorums
      THEN [s EXCEPT !.old = Append(@, OldRound(s.cur)), !.cur = EmptyRound]
      ELSE s

MergeOld(o, p) ==
    [o EXCEPT !.signs = @ \cup p.signs, !.approved = @ \cup p.approved]

MergeOldRound(o, r) ==
    [o EXCEPT !.signs = @ \cup r.signs, !.approved = @ \cup At(r.sent, o.block, {})]

Merge(x, y) ==
    IF x = y THEN x
    ELSE LET i == Min({RoundOf(x), RoundOf(y)}) + 1
             ahead == IF RoundOf(x) >= RoundOf(y) THEN x ELSE y
             behind == IF RoundOf(x) >= RoundOf(y) THEN y ELSE x
             old == [k \in DOMAIN ahead.old |->
                        CASE k < i -> MergeOld(x.old[k], y.old[k])
                          [] k = i -> MergeOldRound(ahead.old[k], behind.cur)
                          [] OTHER -> ahead.old[k]]
         IN  Close([att |-> [n \in Nodes |-> Later(x.att[n], y.att[n])],
                    old |-> old,
                    cur |-> IF RoundOf(x) = RoundOf(y) THEN MergeRound(x.cur, y.cur)
                            ELSE ahead.cur])

OldAction(o, n, msg) ==
    CASE msg.type = "APPROVE" /\ msg.cand = o.block -> [o EXCEPT !.approved = @ \cup {n}]
      [] msg.type = "COMMIT" /\ msg.cand = o.block -> [o EXCEPT !.signs = @ \cup {n}]
      [] OTHER -> o

Action(s, n, att, msg) ==
    LET a == Later(att, s.att[n])
        t == [s EXCEPT !.att[n] = a]
    IN  CASE msg.round > RoundOf(s) -> t
          [] msg.round = RoundOf(s) ->
                Close([t EXCEPT !.cur = RoundAction(@, RoundOf(s), n, a, msg)])
          [] OTHER -> [t EXCEPT !.old[msg.round + 1] = OldAction(@, n, msg)]

(* create_action: the next message of n.                                    *)
CreateAction(s, n, a) ==
    LET r == s.cur
        at == AttemptOf(r, a)
        c == ToVote(at, r, RoundOf(s), n, a)
        msg(type, cand) == [type |-> type, round |-> RoundOf(s), cand |-> cand]
    IN  CASE r.block # None -> msg("EMPTY", None)
          [] r.block = None /\ c # None -> msg("VOTE", c)
          [] r.block = None /\ c = None /\ MayPrecommit(at, n) -> msg("PRECOMMIT", VotedBlock(at))
          [] OTHER -> msg("EMPTY", None)

(* make_one for a node that has said nothing more: whether anything is left *)
(* that its block should have contained.                                    *)
NothingImplicit(s, n, a) ==
    /\ s.att[n] >= a
    /\ s.cur.first[n] # 0 /\ s.cur.first[n] <= a
    /\ \/ s.cur.block # None
       \/ MakeOneInAttempt(AttemptOf(s.cur, a), s.cur, RoundOf(s), n, a) = AttemptOf(s.cur, a)

ChooseBlocksToApprove(s, n) ==
    {c \in DOMAIN s.cur.sent \cup {Skip} : n \notin At(s.cur.sent, c, {})}

NeedVoteFor(s, n, a) ==
    /\ n = VoteForAuthor(a)
    /\ s.cur.block = None
    /\ MaxRoundAttempts > 0 => s.cur.first[n] # 0 /\ s.cur.first[n] + MaxRoundAttempts <= a
    /\ AttemptOf(s.cur, a).for = None
    /\ \E c \in DOMAIN s.cur.sent : IsApproved(s.cur, c)

(***************************************************************************)
(* The CHECKs.  A node that fails one stops.                               *)
(***************************************************************************)
(* The CHECKs of ValidatorSessionRoundState::merge, for the join m of x     *)
(* and y, and those of OldRoundState::create when the round closes.         *)
MergeChecks(x, y, m) ==
    /\ RoundOf(x) = RoundOf(y) /\ x.cur.block # None /\ y.cur.block # None =>
         x.cur.block = y.cur.block
    /\ RoundOf(x) = RoundOf(y) /\ RoundOf(m) = RoundOf(x) /\ NewestVoted(m.cur.att) = 0 =>
         \A n \in Nodes : x.cur.last[n] = 0 /\ y.cur.last[n] = 0
    /\ \A a \in DOMAIN m.cur.att :
         m.cur.att[a].pre \in Quorums => VotedBlock(m.cur.att[a]) # None
    /\ \A k \in DOMAIN m.old : m.old[k].block # None

(* choose_block_to_vote and forward_action_to_attempt: a lock names an      *)
(* attempt where a quorum has voted.                                        *)
LocksNameQuorums(r) ==
    \A n \in Nodes : r.last[n] # 0 => VotedBlock(AttemptOf(r, r.last[n])) # None
=============================================================================
