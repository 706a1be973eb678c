----------------------------- MODULE MCHostTurn -----------------------------
(* Instances of HostTurn for TLC. *)
EXTENDS HostTurn, TLC

CONSTANTS p1, p2

OneHandler == {p1}
=============================================================================
