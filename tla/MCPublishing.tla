----------------------------- MODULE MCPublishing -----------------------------
(* Publishing on a small instance: one author with two tabs.                 *)
EXTENDS Publishing, TLC

CONSTANTS alice, h0, h1, h2, t1, t2, id1, id2, short, accented, scope

\* 128 characters is what the form lets through; with one accent, 129 bytes.
MCBytes == short :> 20 @@ accented :> 129 @@ scope :> 40 @@ id1 :> 43 @@ id2 :> 43
MCAuthor == [t \in {t1, t2} |-> alice]
MCArweaveId == <<id1, id2>>
RentForOne == [w \in {alice} |-> 1]
RentForTwo == [w \in {alice} |-> 2]
=============================================================================
