---------------------------- MODULE MCCliInstall ----------------------------
(* Instances of CliInstall for TLC. *)
EXTENDS CliInstall, TLC

CONSTANTS old, rc, stable

MCHolder == {"updater", "keeper", "host"}
\* A promoted candidate: stable has the bytes of rc.
Promoted == old :> 1 @@ rc :> 2 @@ stable :> 2
=============================================================================
