-------------------------- MODULE MCPairSettlement --------------------------
(* Small instances of PairSettlement: this machine's root is r1, and the   *)
(* holder of r2 has signed a roster for itself and one for a network.      *)
EXTENDS PairSettlement, TLC

CONSTANTS r1, r2, o1, o2, p1, p2, none

MCWorld == {[root |-> r2, seq |-> 1, lone |-> TRUE, by |-> None],
            [root |-> r2, seq |-> 2, lone |-> FALSE, by |-> None]}
=============================================================================
