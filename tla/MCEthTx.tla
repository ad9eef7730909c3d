------------------------------- MODULE MCEthTx -------------------------------
(* Who calls low_level_output in a run.                                      *)
EXTENDS EthTx

OneCaller == {"main"}
TwoCallers == {"main", "eth"}
=============================================================================
