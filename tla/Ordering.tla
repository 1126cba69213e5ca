------------------------------- MODULE Ordering -------------------------------
(* Numbers put in order, and the elements of a sequence at some of its places. *)
(* Both are written without recursion, so that they can be reasoned about.     *)
EXTENDS Naturals, Sequences, FiniteSets, SequencesExt

InOrder(q) == \A i, j \in DOMAIN q : i < j => q[i] < q[j]

(* sortQueuedFrames, and any other numbers in their order                      *)
Sorted(numbers) == CHOOSE q \in [1..Cardinality(numbers) -> numbers] :
                       InOrder(q) /\ ToSet(q) = numbers

(* The elements of q at the given places, in the order they have in q          *)
At(q, places) ==
    LET kept == Sorted(places) IN [n \in 1..Cardinality(places) |-> q[kept[n]]]
===============================================================================
