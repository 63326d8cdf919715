-------------------------------- MODULE MCAdnl --------------------------------
(***************************************************************************)
(* AdnlPeer for TLC.                                                       *)
(***************************************************************************)
EXTENDS AdnlPeer

CONSTANTS a, b      \* model values: the nodes

MCMaxStart == [n \in Node |-> IF n = b THEN 2 ELSE 1]
=============================================================================
