--------------------------- MODULE MCTransferQueue ---------------------------
(* TLC instance of TransferQueue.  No symmetry: a liveness property is        *)
(* checked, and the tasks are ordered by their creation.                      *)
EXTENDS TransferQueue, TLC
==============================================================================
