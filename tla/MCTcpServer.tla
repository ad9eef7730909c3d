----------------------------- MODULE MCTcpServer -----------------------------
(***************************************************************************)
(* The clients of a run: a and b connect from the port the check looks     *)
(* for, x from another one.                                                *)
(***************************************************************************)
EXTENDS TcpServer

CONSTANTS a, b, x

Three == {a, b, x}
AtPort == {a, b}
=============================================================================
