------------------------------- MODULE Lists --------------------------------
(***************************************************************************)
(* Lists, in a form that proofs can use.  Code that walks a linked list    *)
(* and deletes some of its entries leaves the others in their order.       *)
(* SelectSeq says the same, but by a recursion that the provers cannot     *)
(* follow: here it is the place of an entry among those that stay that is  *)
(* counted.  Code that does something for each entry is a function of how  *)
(* many entries were done, where FoldLeft is a function of sets of places. *)
(***************************************************************************)
EXTENDS Integers, Sequences, FiniteSets

\* Which of the places kept the place i is
Rank(kept, i) == Cardinality({k \in kept : k <= i})

\* The entries of s at the places kept
Selection(s, kept) ==
    [n \in 1 .. Cardinality(kept) |-> s[CHOOSE i \in kept : Rank(kept, i) = n]]

\* base after op was done for each entry of s, in their order
Iterated(op(_, _), base, s) ==
    LET after[n \in 0 .. Len(s)] == IF n = 0 THEN base ELSE op(after[n - 1], s[n])
    IN  after[Len(s)]
=============================================================================
