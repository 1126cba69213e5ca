----------------------------- MODULE MCFileTransfer -----------------------------
(* TLC instance of FileTransfer alone, with a single job.                      *)
EXTENDS FileTransfer
==============================================================================
