------------------------------ MODULE MCUpgrade ------------------------------
(* Upgrade, with the constants of Upgrade.cfg, for TLC. *)
EXTENDS Upgrade
=============================================================================
