-------------------------------- MODULE MCDlq -------------------------------
(* Instance of Dlq, and of the inbox in it, for TLC. *)
EXTENDS Dlq
=============================================================================
