------------------------------ MODULE MCRdpSession ------------------------------
(* TLC instance of RdpSession.                                                *)
EXTENDS RdpSession
==============================================================================
