------------------------------ MODULE MCTransfers ------------------------------
(* TLC instance of Transfers.  No symmetry: a liveness property is checked,    *)
(* and the tasks are ordered by their creation.                                *)
EXTENDS Transfers
==============================================================================
