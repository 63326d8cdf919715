----------------------------- MODULE MCElections -----------------------------
(* An instance of Elections for TLC: terms of four units of time, elections *)
(* that begin three units and close two units before the end of a term.     *)
EXTENDS Elections

CONSTANTS a1, a2

MCStakers == {<<a1, 1>>, <<a2, 2>>}

MCGenesis == [since |-> 0, until |-> 4, list |-> << <<1, 16>> >>]
=============================================================================
