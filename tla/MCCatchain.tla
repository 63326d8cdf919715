------------------------------ MODULE MCCatchain ------------------------------
(***************************************************************************)
(* Catchain for TLC.                                                       *)
(***************************************************************************)
EXTENDS Catchain

CONSTANTS x, y   \* model values: the nodes

(* Only x crashes.                                                          *)
MCMaxLife == [n \in Nodes |-> IF n = x THEN 2 ELSE 1]

MCMaxHeight == [n \in Nodes |-> 2]
=============================================================================
