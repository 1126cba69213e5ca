------------------------------ MODULE MCStorage ------------------------------
(* TLC instance of Storage.                                                   *)
EXTENDS Storage, TLC

CONSTANTS p1, p2, p3, p4, p5, g1, g2, x1

(* A connection in a group of a group, with a password and a proxy; another    *)
(* that keeps its proxy in itself, as does the one of the old file.            *)
MCStored ==
    [profiles |->
        p1 :> [group |-> g2, proxy |-> x1, pass |-> <<p1, "pass", 0>>,
               inline |-> NoInline, rev |-> 0] @@
        p2 :> [group |-> Root, proxy |-> None, pass |-> None,
               inline |-> <<p2, "inline", 0>>, rev |-> 0],
     groups |-> g1 :> [parent |-> Root, rev |-> 0] @@ g2 :> [parent |-> g1, rev |-> 0],
     proxies |-> x1 :> [pass |-> <<x1, "pass", 0>>, old |-> FALSE, rev |-> 0],
     vault |-> {<<x1, "pass", 0>>, <<p1, "pass", 0>>, <<p2, "inline", 0>>}]

MCOldFile ==
    [profiles |-> p3 :> [group |-> Root, proxy |-> None, pass |-> None,
                         inline |-> <<p3, "inline", 0>>, rev |-> 0],
     groups |-> <<>>, proxies |-> <<>>, secrets |-> {<<p3, "inline", 0>>}]

(* The files in the editor are alike, and so are the windows.                  *)
Symmetry == Permutations(Files) \cup Permutations(Windows)
==============================================================================
