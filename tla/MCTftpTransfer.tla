--------------------------- MODULE MCTftpTransfer ---------------------------
(* Transfers with two connections. *)
EXTENDS TftpTransfer

CONSTANTS connA, connB
=============================================================================
