----------------------------- MODULE ListFilter ------------------------------
(***************************************************************************)
(* Array.prototype.filter: the items of a list at the places that are      *)
(* kept, in their order.  Sequences!SelectSeq is the same, by a recursion  *)
(* that no proof can look into.                                            *)
(***************************************************************************)
EXTENDS Naturals, Sequences, FiniteSets

UpTo(places, i) == {j \in places : j <= i}
NthPlace(places, n) == CHOOSE i \in places : Cardinality(UpTo(places, i)) = n
Only(list, places) == [n \in 1..Cardinality(places) |-> list[NthPlace(places, n)]]
=============================================================================
