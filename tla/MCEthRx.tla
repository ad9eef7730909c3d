------------------------------- MODULE MCEthRx -------------------------------
(* The instance of EthRx for TLC; its constants are in the cfg files.        *)
EXTENDS EthRx
=============================================================================
