------------------------------- MODULE IdList -------------------------------
(***************************************************************************)
(* What listings that are read page by page promise their readers: entries *)
(* are only ever added at the end, and an entry that stays keeps its place *)
(* among the others.  A reader that has passed an entry therefore never    *)
(* meets it again.                                                         *)
(***************************************************************************)
EXTENDS Lists, SequencesExt

CONSTANT Keys    \* there is a listing for each key

VARIABLE lists

Init == lists = [k \in Keys |-> <<>>]

\* push_back of one id, or of several at once.
AddIds(k) ==
    /\ IsStrictPrefix(lists[k], lists'[k])
    /\ IsInjective(lists'[k])

RemoveIds(k) ==
    \E kept \in SUBSET ToSet(lists[k]) : lists'[k] = Filter(lists[k], kept)

Next == \A k \in Keys : lists'[k] = lists[k] \/ AddIds(k) \/ RemoveIds(k)

Spec == Init /\ [][Next]_lists
=============================================================================
