------------------------------ MODULE MCSession ------------------------------
EXTENDS ValidatorSession
MCWeight == [n \in 0..N - 1 |-> IF n = 0 THEN 3 ELSE 1]

(* Node 0 has submitted its block at attempt 4, and every node has approved *)
(* it and Skip, knowing nothing else of the others; node 2 did so at        *)
(* attempt 5, after a first block at attempt 4.                             *)
AttOf(n) == IF n = 2 THEN 5 ELSE 4
Approving(n) ==
    [EmptyState EXCEPT
        !.att = [m \in Nodes |-> IF m \in {0, n} THEN AttOf(m) ELSE 0],
        !.cur = [@ EXCEPT !.sent = With(With(<< >>, Skip, {n}), 0, {n}),
                          !.att = [a \in {4, AttOf(n)} |-> EmptyAttempt],
                          !.first = [m \in Nodes |-> IF m \in {0, n} THEN 4 ELSE 0]]]

(* Nothing is submitted yet, and node 2 is ahead of the attempts of this    *)
(* instance: it has made one block and makes no other.                      *)
Starting(n) ==
    IF n # 2 THEN EmptyState
    ELSE [EmptyState EXCEPT
            !.att[2] = 6,
            !.cur = [@ EXCEPT !.att = With(<< >>, 6, EmptyAttempt), !.first[2] = 6]]

MCInit ==
    /\ state \in {[n \in Nodes |-> Approving(n)], [n \in Nodes |-> Starting(n)]}
    /\ vote = [n \in Nodes |-> [a \in Atts |-> None]]
    /\ pre = vote
MCSpec == MCInit /\ [][Next]_vars
=============================================================================
