-------------------------------- MODULE Lists --------------------------------
(***************************************************************************)
(* The loops over a Vec that copy the entries to be kept to a new one.     *)
(* (Filter(list, kept) is SelectSeq with a set for the test, by positions  *)
(* and not by recursion, so that it can be reasoned about.)                *)
(***************************************************************************)
EXTENDS Integers, Sequences, FiniteSets

\* The positions of the entries of a list that are in a set.
Positions(list, ids) == {j \in 1..Len(list) : list[j] \in ids}

\* The place of a position among others.
Place(j, places) == Cardinality({i \in places : i <= j})

\* The entries of a list that are in a set, in their order.
Filter(list, ids) ==
    LET kept == Positions(list, ids)
    IN  [k \in 1..Cardinality(kept) |-> list[CHOOSE j \in kept : Place(j, kept) = k]]
=============================================================================
