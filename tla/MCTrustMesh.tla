---------------------------- MODULE MCTrustMesh ----------------------------
(* Small instances of TrustMesh: machines are ranked in the order ma, mb, mc. *)
EXTENDS TrustMesh, TLC

CONSTANTS ma, mb, mc, none, r1, r2, r3

MCRank == (ma :> 1 @@ mb :> 2 @@ mc :> 3)
=============================================================================
