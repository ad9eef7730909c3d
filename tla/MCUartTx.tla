------------------------------ MODULE MCUartTx ------------------------------
(* Instances of UartTx for TLC.                                            *)
EXTENDS UartTx

MCMainOnly == {"main"}
=============================================================================
