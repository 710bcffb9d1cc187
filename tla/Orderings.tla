----------------------------- MODULE Orderings -----------------------------
(***************************************************************************)
(* The ways to go through a finite set in an order: what VecDeque::retain  *)
(* and the pops of a BinaryHeap do to the places of a queue.  It is stated *)
(* as a set to choose from, and not with SelectSeq or SetToSortSeq, so     *)
(* that a proof can use what the chosen sequence is.                       *)
(***************************************************************************)
EXTENDS Integers, FiniteSets

Orders(S, before(_, _)) ==
    {at \in [1 .. Cardinality(S) -> S] :
        \A i, j \in 1 .. Cardinality(S) : i < j => before(at[i], at[j])}

(* Indexes, from the front.                                                *)
InOrder(S) == Orders(S, LAMBDA i, j : i < j)
=============================================================================
