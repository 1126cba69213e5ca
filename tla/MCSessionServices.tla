--------------------------- MODULE MCSessionServices ---------------------------
(* TLC instance of SessionServices.  No symmetry: a liveness property is      *)
(* checked.                                                                   *)
EXTENDS SessionServices
==============================================================================
