------------------------------ MODULE MCJournal ------------------------------
(* Journal with one author and two uploads of one content: a public one, and *)
(* a private one as a second attempt makes it.                               *)
EXTENDS Journal, TLC

CONSTANTS alice, h0, h1, i1, i2, first, second, title

MCBytes == first :> 43 @@ second :> 43 @@ title :> 20
MCBody == [u \in {first, second} |->
             [author |-> alice, content |-> h1, intuition |-> i1, title |-> title,
              isPublic |-> u = first]]

\* The pages of getArticles: together the list, each item on one page.
ASSUME PagesPartition ==
  \A n \in 0..5, limit \in 1..3 :
    LET all == [i \in 1..n |-> i]
        pages == (n + limit - 1) \div limit
    IN /\ FlattenSeq([p \in 1..pages |-> Page(all, p, limit)]) = all
       /\ \A p \in 1..pages : Page(all, p, limit) # <<>>
       /\ Page(all, pages + 1, limit) = <<>>

\* ListFilter's Only selects what Sequences!SelectSeq does.
ASSUME FilterIsSelection ==
  \A n \in 0..3 : \A items \in [1..n -> 1..3] :
    Only(items, {i \in DOMAIN items : items[i] # 1}) = SelectSeq(items, LAMBDA x : x # 1)
=============================================================================
