------------------------------- MODULE MCTray -------------------------------
(* An instance of Tray for TLC: MCTray.cfg gives the constants.            *)
EXTENDS Tray
=============================================================================
