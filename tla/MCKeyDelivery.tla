---------------------------- MODULE MCKeyDelivery ----------------------------
(* KeyDelivery on a small instance: one article, its author and one reader.  *)
EXTENDS KeyDelivery, TLC

CONSTANTS a1, author, reader, r1, r2

MCOwner == [a \in {a1} |-> author]
MCDuration == [t \in {"24h"} |-> 2]
MCTerms == {"24h", "unlimited"}
MCRequests == {r1, r2}
Slots == Permutations(MCRequests)
=============================================================================
