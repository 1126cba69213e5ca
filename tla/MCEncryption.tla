----------------------------- MODULE MCEncryption -----------------------------
(* TLC instance of Encryption on its own.                                     *)
EXTENDS Encryption
==============================================================================
