---------------------------- MODULE MCTcpReceive ----------------------------
(* TcpReceive for TLC: the constants are given in the configuration.         *)
EXTENDS TcpReceive
=============================================================================
