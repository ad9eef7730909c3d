------------------------------ MODULE MCForward ------------------------------
(* The instance of Forward for TLC; its constants are numbers in the cfg.    *)
EXTENDS Forward
=============================================================================
