------------------------------ MODULE MCTcpSend ------------------------------
(***************************************************************************)
(* What the program writes in a run: little or much at first, and then as  *)
(* much as fits behind it in its segment, in its pbuf, or in neither.      *)
(***************************************************************************)
EXTENDS TcpSend

Messages == {<<0, 1>>, <<0, 3>>, <<1, 4>>, <<3, 2>>}
=============================================================================
