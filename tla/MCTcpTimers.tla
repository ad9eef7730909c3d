----------------------------- MODULE MCTcpTimers -----------------------------
(* The instance of TcpTimers for TLC; its constants are in the cfg files.   *)
EXTENDS TcpTimers
=============================================================================
