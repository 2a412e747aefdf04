-------------------------- MODULE MCUEMacHistory --------------------------
(* Instantiates UEMacHistory for TLC with the constants of MCUEMac.        *)
EXTENDS MCUEMac, UEMacHistory
=============================================================================
