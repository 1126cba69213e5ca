--------------------------- MODULE MCSshConnection ---------------------------
(* TLC instance of SshConnection: model values for attempts and terminals.    *)
EXTENDS SshConnection
==============================================================================
