------------------------------ MODULE Reading ------------------------------
(***************************************************************************)
(* What the API reads: articles.controller.ts (getArticles,                *)
(* getArticleContent, verifyArticle) over getContent (ArweaveFetch) and    *)
(* blockchain.service.ts over the on-chain program (AuroraProgram).        *)
(*                                                                         *)
(* Arweave never changes: Body says what each upload is.  A public upload  *)
(* carries its text and declared intuition, a private one a ciphertext and *)
(* no intuition (preparePublish).  The chain changes while a verification  *)
(* waits for a gateway.                                                    *)
(***************************************************************************)
EXTENDS AuroraProgram, ArweaveFetch, FiniteSets, Sequences

CONSTANTS Uploads,     \* Arweave ids
          Body,        \* Body[u]: what upload u says of itself
          ListLimit,   \* the 500 of getPublicArticles
          aiScope      \* the AI scope, the same for all

ASSUME ReadingAssumption ==
  /\ Uploads \subseteq Strings
  /\ Body \in [Uploads -> [author: Keys, content: Hashes, intuition: Hashes,
                           title: Strings, isPublic: BOOLEAN]]
  /\ ListLimit \in Nat \ {0}
  /\ aiScope \in Strings

VARIABLES turned       \* history: addresses whose author turned is_public

readingVars == <<accounts, clock, signer, turned>>

-----------------------------------------------------------------------------
(* blockchain.service.ts *)

AddressOf(u) == <<Body[u].author, Body[u].content>>

\* publishArticle: registers upload u under a declared intuition of the author's.
publishArticle(u, intuition) ==
  /\ publish_article(Body[u].author,
       [content_hash |-> Body[u].content, intuition_hash |-> intuition,
        arweave_id |-> u, title |-> Body[u].title, ai_scope |-> aiScope,
        is_public |-> Body[u].isPublic])
  /\ UNCHANGED turned

\* updateVisibility: the address is derived from the signer's own key.
updateVisibility(address, is_public) ==
  /\ update_visibility(address[1], address, is_public)
  /\ turned' = turned \cup {address}

\* getArticle: null when there is no account.
getArticle(author, hash) == accounts[<<author, hash>>]

\* getPublicArticles: public accounts, newest first, at most ListLimit.
NewerFirst(a, b) == accounts[a].timestamp >= accounts[b].timestamp
NewestFirst(addresses) ==
  CHOOSE s \in [1..Cardinality(addresses) -> addresses] :
    \A i, j \in DOMAIN s : i < j => s[i] # s[j] /\ NewerFirst(s[i], s[j])
Slice(s, first, last) == SubSeq(s, first, IF last < Len(s) THEN last ELSE Len(s))
getPublicArticles ==
  LET public == {a \in Addresses : accounts[a] # NoArticle /\ accounts[a].is_public}
  IN Slice(NewestFirst(public), 1, ListLimit)

\* getArticles: a page of them, of one author or of all.
Page(all, page, limit) == Slice(all, (page - 1) * limit + 1, page * limit)
getArticles(page, limit) == Page(getPublicArticles, page, limit)

-----------------------------------------------------------------------------
(* A request for an upload: the fetch it makes and the reply it comes to *)

Verdicts == {"verified", "diverges", "unrecorded"}
Reply == Verdicts \cup {"none", "article", "gave up", "error"}
Request == [upload: Uploads, at: {"fetch", "chain", "reply"}, fetch: Fetch, reply: Reply]

NewRequest(u) == [upload |-> u, at |-> "fetch", fetch |-> NewFetch, reply |-> "none"]
Replied(r, reply) == [r EXCEPT !.at = "reply", !.reply = reply]

\* A try of getContent that misses: the next one, or the end.
Missed(r) == IF GivesUp(r.fetch)
               THEN [Replied(r, "gave up") EXCEPT !.fetch = Asked(r.fetch)]
               ELSE [r EXCEPT !.fetch = AfterMiss(r.fetch)]

\* getArticleContent: what becomes of request r with an answer of a gateway.
\* JSON that is no article has neither content nor title.
ContentAnswered(r, answer) ==
  CASE answer = "article" -> Replied(r, "article")
    [] answer = "miss" -> Missed(r)
    [] OTHER -> Replied(r, "error")

\* verifyArticle goes on to the chain with an upload that names its author,
\* content and declared intuition.  The row it first looks for in the database
\* holds the id it was given.
VerifyAnswered(r, answer) ==
  CASE answer = "article" /\ Body[r.upload].isPublic -> [r EXCEPT !.at = "chain"]
    [] answer = "miss" -> Missed(r)
    [] OTHER -> Replied(r, "error")

\* verifyArticle: the comparison with the record at the author and content
\* that the upload claims.
RecordNamesAny(a, u) == TRUE
RecordNames(a, u) == a.arweave_id = u
SameHashesSwapped(a, u) == /\ a.content_hash = Body[u].intuition
                           /\ a.intuition_hash = Body[u].content
SameHashes(a, u) == /\ a.content_hash = Body[u].content
                    /\ a.intuition_hash = Body[u].intuition
Matches(a, u) == SameHashes(a, u) /\ RecordNames(a, u) /\ a.is_public = Body[u].isPublic
Verdict(u) ==
  LET a == getArticle(Body[u].author, Body[u].content)
  IN IF a = NoArticle THEN "unrecorded"
     ELSE IF Matches(a, u) THEN "verified" ELSE "diverges"

=============================================================================
