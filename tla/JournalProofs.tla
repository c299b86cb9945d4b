---------------------------- MODULE JournalProofs ----------------------------
(***************************************************************************)
(* Proofs about Journal and what it composes, for any uploads, gateways,   *)
(* retries, verifications under way, toasts and length of the list.        *)
(***************************************************************************)
EXTENDS Journal, AuroraProgramProofs, ListFilterProofs

(* A request for an upload *)

\* What was asked is told by the place the two loops have come to.
FetchOK(f) ==
  \A g \in Gateway :
    f.asked[g] = IF g < f.gateway THEN MaxRetries + 1
                 ELSE IF g = f.gateway THEN f.attempt ELSE 0

RequestOK(r) ==
  /\ r.at = "fetch" => FetchOK(r.fetch)
  /\ r.at # "reply" => r.reply = "none"
  /\ r.reply = "gave up" => TriedAll(r.fetch)

LEMMA NewRequestOK ==
  ASSUME NEW u \in Uploads
  PROVE  /\ NewRequest(u) \in Request /\ RequestOK(NewRequest(u))
         /\ NewRequest(u).upload = u /\ NewRequest(u).reply = "none"
<1>1. NewFetch \in Fetch
  BY FetchAssumption DEF NewFetch, Fetch, Gateway
<1>2. FetchOK(NewFetch)
  BY FetchAssumption DEF FetchOK, NewFetch, Gateway
<1>3. NewRequest(u) \in Request
  BY <1>1 DEF NewRequest, Request, Reply
<1>4. QED
  BY <1>2, <1>3 DEF NewRequest, RequestOK

\* One try more of the gateway the loops are at.
LEMMA AskedType ==
  ASSUME NEW f \in Fetch, FetchOK(f)
  PROVE  /\ Asked(f).gateway = f.gateway /\ Asked(f).attempt = f.attempt
         /\ Asked(f).asked \in [Gateway -> 0..(MaxRetries + 1)]
         /\ \A g \in Gateway :
              Asked(f).asked[g] = IF g < f.gateway THEN MaxRetries + 1
                                  ELSE IF g = f.gateway THEN f.attempt + 1 ELSE 0
<1> DEFINE asked == [f.asked EXCEPT ![f.gateway] = @ + 1]
<1>1. /\ f.gateway \in Gateway /\ f.attempt \in 0..MaxRetries
      /\ f.asked \in [Gateway -> 0..(MaxRetries + 1)] /\ Gateway \subseteq Nat
  BY FetchAssumption DEF Fetch, Gateway
<1>2. f.asked[f.gateway] = f.attempt
  <2>1. \A n \in Nat : ~(n < n)
    OBVIOUS
  <2>2. ~(f.gateway < f.gateway)
    BY <1>1, <2>1
  <2>3. QED
    BY <1>1, <2>2 DEF FetchOK
<1>3. f.attempt + 1 \in 0..(MaxRetries + 1)
  BY <1>1, FetchAssumption
<1>4. /\ asked \in [Gateway -> 0..(MaxRetries + 1)]
      /\ \A g \in Gateway :
           asked[g] = IF g < f.gateway THEN MaxRetries + 1
                      ELSE IF g = f.gateway THEN f.attempt + 1 ELSE 0
  <2>1. /\ asked \in [Gateway -> 0..(MaxRetries + 1)]
        /\ asked[f.gateway] = f.attempt + 1
        /\ \A g \in Gateway \ {f.gateway} : asked[g] = f.asked[g]
    BY <1>1, <1>2, <1>3
  <2> HIDE DEF asked
  <2>2. ASSUME NEW g \in Gateway
        PROVE  asked[g] = IF g < f.gateway THEN MaxRetries + 1
                          ELSE IF g = f.gateway THEN f.attempt + 1 ELSE 0
    <3>1. CASE g = f.gateway
      BY <1>1, <2>1, <3>1
    <3>2. CASE g # f.gateway
      BY <2>1, <3>2 DEF FetchOK
    <3>3. QED
      BY <3>1, <3>2
  <2>3. QED
    BY <2>1, <2>2
<1> HIDE DEF asked
<1>5. Asked(f) = [f EXCEPT !.asked = asked]
  BY <1>1 DEF Asked, Fetch, asked
<1>6. QED
  BY <1>1, <1>4, <1>5 DEF Fetch

LEMMA AfterMissOK ==
  ASSUME NEW f \in Fetch, FetchOK(f), ~GivesUp(f)
  PROVE  AfterMiss(f) \in Fetch /\ FetchOK(AfterMiss(f))
<1>1. /\ f.gateway \in 1..NGateways /\ f.attempt \in 0..MaxRetries
      /\ NGateways \in Nat /\ MaxRetries \in Nat
  BY FetchAssumption DEF Fetch, Gateway
<1>2. /\ Asked(f) \in [gateway: Gateway, attempt: 0..MaxRetries,
                       asked: [Gateway -> 0..(MaxRetries + 1)]]
  BY <1>1, AskedType DEF Fetch, Asked
<1>3. CASE LastAttempt(f)
  <2>1. f.gateway + 1 \in Gateway /\ f.attempt = MaxRetries
    BY <1>1, <1>3 DEF GivesUp, LastAttempt, LastGateway, Gateway
  <2>2. AfterMiss(f) = [Asked(f) EXCEPT !.gateway = f.gateway + 1, !.attempt = 0]
    BY <1>2, <1>3, AskedType DEF AfterMiss, NextGateway
  <2>3. /\ AfterMiss(f) \in Fetch
        /\ AfterMiss(f).gateway = f.gateway + 1 /\ AfterMiss(f).attempt = 0
        /\ AfterMiss(f).asked = Asked(f).asked
    <3> DEFINE asked == Asked(f)
    <3>1. asked \in Fetch /\ 0 \in 0..MaxRetries
      BY <1>1, <1>2 DEF Fetch
    <3>2. AfterMiss(f) = [asked EXCEPT !.gateway = f.gateway + 1, !.attempt = 0]
      BY <2>2
    <3> HIDE DEF asked
    <3>3. /\ AfterMiss(f) \in Fetch
          /\ AfterMiss(f).gateway = f.gateway + 1 /\ AfterMiss(f).attempt = 0
          /\ AfterMiss(f).asked = asked.asked
      BY <2>1, <3>1, <3>2 DEF Fetch
    <3>4. QED
      BY <3>3 DEF asked
  <2>4. FetchOK(AfterMiss(f))
    BY <1>1, <2>1, <2>3, AskedType DEF FetchOK, Gateway
  <2>5. QED
    BY <2>3, <2>4
<1>4. CASE ~LastAttempt(f)
  <2>1. f.attempt + 1 \in 0..MaxRetries
    BY <1>1, <1>4 DEF LastAttempt
  <2>2. AfterMiss(f) = [Asked(f) EXCEPT !.attempt = f.attempt + 1]
    BY <1>2, <1>4, AskedType DEF AfterMiss, NextAttempt
  <2>3. /\ AfterMiss(f) \in Fetch
        /\ AfterMiss(f).gateway = f.gateway /\ AfterMiss(f).attempt = f.attempt + 1
        /\ AfterMiss(f).asked = Asked(f).asked
    BY <1>1, <1>2, <2>1, <2>2, AskedType DEF Fetch
  <2>4. FetchOK(AfterMiss(f))
    BY <1>1, <2>3, AskedType DEF FetchOK
  <2>5. QED
    BY <2>3, <2>4
<1>5. QED
  BY <1>3, <1>4

\* After the last try of the last gateway, every one was given all its tries.
LEMMA GivesUpTriedAll ==
  ASSUME NEW f \in Fetch, FetchOK(f), GivesUp(f)
  PROVE  Asked(f) \in Fetch /\ TriedAll(Asked(f))
<1>1. /\ f.gateway = NGateways /\ f.attempt = MaxRetries
      /\ NGateways \in Nat /\ MaxRetries \in Nat
  BY FetchAssumption DEF GivesUp, LastAttempt, LastGateway
<1>2. Asked(f) \in Fetch
  BY AskedType DEF Fetch, Asked
<1>3. \A g \in Gateway : g < f.gateway \/ g = f.gateway
  BY <1>1 DEF Gateway
<1>4. QED
  BY <1>1, <1>2, <1>3, AskedType DEF TriedAll

LEMMA RepliedOK ==
  ASSUME NEW r \in Request, NEW reply \in Reply \ {"gave up"}
  PROVE  /\ Replied(r, reply) \in Request /\ RequestOK(Replied(r, reply))
         /\ Replied(r, reply).upload = r.upload /\ Replied(r, reply).reply = reply
  BY DEF Replied, Request, RequestOK

LEMMA MissedOK ==
  ASSUME NEW r \in Request, RequestOK(r), r.at = "fetch"
  PROVE  /\ Missed(r) \in Request /\ RequestOK(Missed(r))
         /\ Missed(r).upload = r.upload /\ Missed(r).reply \in {"none", "gave up"}
<1>1. r.fetch \in Fetch /\ FetchOK(r.fetch) /\ r.reply = "none"
  BY DEF Request, RequestOK
<1>2. CASE GivesUp(r.fetch)
  <2> DEFINE f == Asked(r.fetch)
  <2>1. f \in Fetch /\ TriedAll(f)
    BY <1>1, <1>2, GivesUpTriedAll
  <2>2. Missed(r) = [r EXCEPT !.at = "reply", !.reply = "gave up", !.fetch = f]
    BY <1>2 DEF Missed, Replied, Request
  <2> HIDE DEF f
  <2>3. QED
    BY <2>1, <2>2 DEF Request, Reply, RequestOK
<1>3. CASE ~GivesUp(r.fetch)
  <2> DEFINE f == AfterMiss(r.fetch)
  <2>1. f \in Fetch /\ FetchOK(f)
    BY <1>1, <1>3, AfterMissOK
  <2>2. Missed(r) = [r EXCEPT !.fetch = f]
    BY <1>3 DEF Missed
  <2> HIDE DEF f
  <2>3. QED
    BY <1>1, <2>1, <2>2 DEF Request, RequestOK
<1>4. QED
  BY <1>2, <1>3

\* What an answer of a gateway makes of a request: one that may go on.
LEMMA ContentAnsweredOK ==
  ASSUME NEW r \in Request, RequestOK(r), r.at = "fetch", NEW answer \in Answers
  PROVE  /\ ContentAnswered(r, answer) \in Request /\ RequestOK(ContentAnswered(r, answer))
         /\ ContentAnswered(r, answer).upload = r.upload
<1>1. CASE answer = "article"
  BY <1>1, RepliedOK DEF ContentAnswered, Reply
<1>2. CASE answer = "miss"
  BY <1>2, MissedOK DEF ContentAnswered
<1>3. CASE answer \notin {"article", "miss"}
  BY <1>3, RepliedOK DEF ContentAnswered, Reply
<1>4. QED
  BY <1>1, <1>2, <1>3

LEMMA VerifyAnsweredOK ==
  ASSUME NEW r \in Request, RequestOK(r), r.at = "fetch", NEW answer \in Answers
  PROVE  /\ VerifyAnswered(r, answer) \in Request /\ RequestOK(VerifyAnswered(r, answer))
         /\ VerifyAnswered(r, answer).upload = r.upload
         /\ VerifyAnswered(r, answer).reply \notin Verdicts
<1>1. CASE answer = "article" /\ Body[r.upload].isPublic
  <2>1. VerifyAnswered(r, answer) = [r EXCEPT !.at = "chain"]
    BY <1>1 DEF VerifyAnswered
  <2>2. QED
    BY <2>1 DEF Request, RequestOK, Verdicts
<1>2. CASE answer = "miss"
  BY <1>2, MissedOK DEF VerifyAnswered, Verdicts
<1>3. CASE answer # "miss" /\ ~(answer = "article" /\ Body[r.upload].isPublic)
  <2>1. VerifyAnswered(r, answer) = Replied(r, "error")
    BY <1>3 DEF VerifyAnswered
  <2>2. "error" \in Reply \ {"gave up"} /\ "error" \notin Verdicts
    BY DEF Reply, Verdicts
  <2>3. QED
    BY <2>1, <2>2, RepliedOK
<1>4. QED
  BY <1>1, <1>2, <1>3

-----------------------------------------------------------------------------
(* The list *)

Sorted(s, r) == \A i, j \in DOMAIN s : i < j => s[i] # s[j] /\ r[s[i]] >= r[s[j]]
Sortable(S, r) == \E s \in [1..Cardinality(S) -> S] : Sorted(s, r)

\* A finite set can be put in the order that NewestFirst chooses: the one with
\* the least r goes last.  By the least cardinality at which it could not.
LEMMA SortedExists ==
  ASSUME NEW S, IsFiniteSet(S), NEW r \in [S -> Nat]
  PROVE  Sortable(S, r)
<1> DEFINE T == {n \in Nat : \E U \in SUBSET S : Cardinality(U) = n /\ ~Sortable(U, r)}
<1>1. SUFFICES ASSUME ~Sortable(S, r) PROVE FALSE
  OBVIOUS
<1>2. Cardinality(S) \in T
  BY <1>1, FS_CardinalityType
<1>3. PICK m \in T : \A k \in T : m <= k
  BY <1>2, LeastNatural
<1>4. PICK U \in SUBSET S : Cardinality(U) = m /\ ~Sortable(U, r)
  BY <1>3
<1>5. IsFiniteSet(U) /\ m \in Nat
  BY <1>3, <1>4, FS_Subset
<1>6. U # {}
  <2> SUFFICES ASSUME U = {} PROVE FALSE
    OBVIOUS
  <2>1. Cardinality(U) = 0
    BY FS_EmptySet
  <2>2. [i \in 1..0 |-> 0] \in [1..0 -> U] /\ Sorted([i \in 1..0 |-> 0], r)
    BY DEF Sorted
  <2>3. QED
    BY <1>4, <2>1, <2>2 DEF Sortable
<1>7. PICK x \in U : \A y \in U : r[x] <= r[y]
  <2> DEFINE R == {r[y] : y \in U}
  <2>1. R \in SUBSET Nat /\ R # {}
    BY <1>6
  <2>2. PICK least \in R : \A k \in R : least <= k
    BY <2>1, LeastNatural
  <2>3. QED
    BY <2>2
<1> DEFINE V == U \ {x}
<1>8. m # 0 /\ Cardinality(V) = m - 1
  BY <1>4, <1>5, <1>6, FS_EmptySet, FS_RemoveElement
<1>9. m - 1 \in Nat /\ m - 1 \notin T
  BY <1>3, <1>5, <1>8
<1>10. Sortable(V, r)
  BY <1>8, <1>9
<1>11. PICK s \in [1..(m - 1) -> V] : Sorted(s, r)
  BY <1>8, <1>10 DEF Sortable
<1> DEFINE t == [i \in 1..m |-> IF i = m THEN x ELSE s[i]]
<1>12. /\ t \in [1..m -> U] /\ t[m] = x
       /\ \A i \in 1..(m - 1) : t[i] = s[i] /\ s[i] \in V
  <2>1. \A i \in 1..m : i = m \/ i \in 1..(m - 1)
    BY <1>5
  <2>2. \A i \in 1..(m - 1) : i \in 1..m /\ i # m
    BY <1>5
  <2>3. m \in 1..m
    BY <1>5, <1>8
  <2>4. QED
    BY <1>11, <2>1, <2>2, <2>3
<1>13. Sorted(t, r)
  <2> SUFFICES ASSUME NEW i \in 1..m, NEW j \in 1..m, i < j
               PROVE  t[i] # t[j] /\ r[t[i]] >= r[t[j]]
    BY <1>12 DEF Sorted
  <2>1. i \in 1..(m - 1) /\ (j = m \/ j \in 1..(m - 1))
    BY <1>5
  <2> HIDE DEF t
  <2>2. CASE j = m
    <3>1. t[i] \in V /\ t[j] = x
      BY <1>12, <2>1, <2>2
    <3>2. t[i] \in U /\ t[i] # x /\ r[x] <= r[t[i]]
      BY <1>7, <3>1
    <3>3. r[x] \in Nat /\ r[t[i]] \in Nat
      BY <3>2
    <3>4. QED
      BY <3>1, <3>2, <3>3
  <2>3. CASE j \in 1..(m - 1)
    BY <1>11, <1>12, <2>1, <2>3 DEF Sorted
  <2>4. QED
    BY <2>1, <2>2, <2>3
<1>14. QED
  BY <1>4, <1>12, <1>13 DEF Sortable

\* A slice of a list, wherever it ends.
LEMMA SliceType ==
  ASSUME NEW S, NEW s \in Seq(S), NEW last \in Nat
  PROVE  Slice(s, 1, last) \in Seq(S)
<1> DEFINE n == IF last < Len(s) THEN last ELSE Len(s)
<1>1. Len(s) \in Nat /\ \A i \in 1..Len(s) : s[i] \in S
  BY LenProperties, ElementOfSeq
<1>2. n \in Int /\ \A i \in 1..n : i \in 1..Len(s)
  BY <1>1
<1>3. 1 \in Int /\ n \in Int /\ \A i \in 1..n : s[i] \in S
  BY <1>1, <1>2
<1> HIDE DEF n
<1>4. SubSeq(s, 1, n) \in Seq(S)
  BY <1>3, SubSeqProperties
<1>5. QED
  BY <1>4 DEF Slice, n

Registered == {a \in Addresses : accounts[a] # NoArticle}

\* getPublicArticles lists registered articles, whatever their number.
LEMMA ArticlesType ==
  ASSUME ProgramTypeOK, IsFiniteSet(Registered)
  PROVE  getArticles(1, 100) \in Seq(Registered)
<1> DEFINE public == {a \in Addresses : accounts[a] # NoArticle /\ accounts[a].is_public}
           r == [a \in public |-> accounts[a].timestamp]
           n == Cardinality(public)
           all == NewestFirst(public)
<1>1. public \subseteq Registered /\ IsFiniteSet(public) /\ n \in Nat
  <2>1. public \in SUBSET Registered
    BY DEF Registered
  <2>2. IsFiniteSet(public)
    BY <2>1, FS_Subset
  <2>3. QED
    BY <2>1, <2>2, FS_CardinalityType
<1>2. r \in [public -> Nat]
  BY DEF ProgramTypeOK, Article
<1>3. \E s \in [1..n -> public] : Sorted(s, r)
  BY <1>1, <1>2, SortedExists DEF Sortable
<1>4. \E s \in [1..n -> public] :
        \A i, j \in DOMAIN s : i < j => s[i] # s[j] /\ NewerFirst(s[i], s[j])
  BY <1>3 DEF Sorted, NewerFirst
<1>5. all \in [1..n -> public]
  BY <1>4 DEF NewestFirst
<1>6. all \in Seq(Registered)
  <2>1. all = [i \in 1..n |-> all[i]] /\ \A i \in 1..n : all[i] \in Registered
    BY <1>1, <1>5
  <2> HIDE DEF all, n, public
  <2>2. QED
    BY <1>1, <2>1, IsASeq
<1> HIDE DEF all, n, public, r
<1>7. getPublicArticles \in Seq(Registered)
  <2>1. getPublicArticles = Slice(all, 1, ListLimit)
    BY DEF getPublicArticles, all, public
  <2>2. QED
    BY <1>6, <2>1, SliceType, ReadingAssumption
<1>8. QED
  <2>1. getArticles(1, 100) = Slice(getPublicArticles, (1 - 1) * 100 + 1, 1 * 100)
    BY DEF getArticles, Page
  <2>2. (1 - 1) * 100 + 1 = 1 /\ 1 * 100 = 100
    OBVIOUS
  <2>3. getArticles(1, 100) = Slice(getPublicArticles, 1, 100)
    BY <2>1, <2>2
  <2>4. QED
    BY <1>7, <2>3, SliceType

-----------------------------------------------------------------------------
(* The program under the journal *)

\* What publishArticle asks of the program is an instruction of its author's.
LEMMA PublishesArticle ==
  ASSUME NEW u \in Uploads, NEW intuition \in Intuitions, publishArticle(u, intuition),
         ProgramTypeOK
  PROVE  /\ ProgramNext
         /\ AddressOf(u) \in Addresses /\ accounts[AddressOf(u)] = NoArticle
         /\ \E a \in Article :
              /\ accounts' = [accounts EXCEPT ![AddressOf(u)] = a]
              /\ a.arweave_id = u /\ a.is_public = Body[u].isPublic
              /\ a.timestamp = clock
         /\ UNCHANGED <<clock, turned>>
<1> DEFINE author == Body[u].author
           ix == [content_hash |-> Body[u].content, intuition_hash |-> intuition,
                  arweave_id |-> u, title |-> Body[u].title, ai_scope |-> aiScope,
                  is_public |-> Body[u].isPublic]
<1>1. /\ author \in Keys /\ Body[u].content \in Hashes
      /\ intuition \in Hashes /\ u \in Strings /\ Body[u].title \in Strings
      /\ aiScope \in Strings /\ Body[u].isPublic \in BOOLEAN
  BY ReadingAssumption, JournalAssumption
<1>2. ix \in Instruction /\ ix.content_hash = Body[u].content
      /\ ix.arweave_id = u /\ ix.is_public = Body[u].isPublic
  BY <1>1 DEF Instruction
<1>3. publish_article(author, ix) /\ UNCHANGED turned
  BY DEF publishArticle
<1> HIDE DEF author, ix
<1>4. ProgramNext
  BY <1>1, <1>2, <1>3 DEF ProgramNext
<1>5. AddressOf(u) = <<author, ix.content_hash>> /\ AddressOf(u) \in Addresses
  BY <1>1, <1>2 DEF AddressOf, author, Addresses
<1>6. /\ Written(author, ix) \in Article
      /\ Written(author, ix).arweave_id = u /\ Written(author, ix).is_public = Body[u].isPublic
      /\ Written(author, ix).timestamp = clock
  <2>1. Written(author, ix) \in Article
    BY <1>1, <1>2, WrittenType DEF ProgramTypeOK
  <2>2. QED
    BY <1>2, <2>1 DEF Written, Record
<1>7. /\ accounts' = [accounts EXCEPT ![AddressOf(u)] = Written(author, ix)]
      /\ accounts[AddressOf(u)] = NoArticle /\ clock' = clock
  BY <1>3, <1>5 DEF publish_article, CanPublish, Vacant
<1>8. QED
  BY <1>3, <1>4, <1>5, <1>6, <1>7

\* What updateVisibility asks of it, and that the turn is noted.
LEMMA TurnsVisibility ==
  ASSUME NEW at \in Addresses, NEW is_public \in BOOLEAN, updateVisibility(at, is_public)
  PROVE  /\ ProgramNext
         /\ accounts[at] # NoArticle
         /\ accounts' = [accounts EXCEPT ![at].is_public = is_public]
         /\ turned' = turned \cup {at} /\ clock' = clock
<1>1. at[1] \in Keys
  BY DEF Addresses
<1>2. update_visibility(at[1], at, is_public) /\ turned' = turned \cup {at}
  BY DEF updateVisibility
<1>3. QED
  BY <1>1, <1>2 DEF ProgramNext, update_visibility

\* But for the steps on chain, the journal reads.
LEMMA NextReads ==
  ASSUME Next, ~ChainStep
  PROVE  UNCHANGED readingVars
<1>1. ASSUME NEW id \in Ids, ToastTimer(id) \/ ToastClose(id) PROVE UNCHANGED readingVars
  BY <1>1 DEF ToastTimer, ToastClose
<1>2. CASE Mount \/ ListArrives \/ ViewProgress \/ ContentLost \/ Retry \/ CloseView
  BY <1>2 DEF Mount, ListArrives, ViewProgress, ContentTry, ContentArrives, ContentLost,
              Retry, CloseView
<1>3. ASSUME NEW a \in Addresses, Open(a) PROVE UNCHANGED readingVars
  BY <1>3 DEF Open
<1>4. ASSUME NEW c \in Checks, Verify(c) \/ VerifyAny(c) \/ CheckProgress(c) \/ VerifyLost(c)
      PROVE  UNCHANGED readingVars
  BY <1>4 DEF Verify, VerifyAny, CheckProgress, VerifyTry, VerifyCompare, VerifyArrives,
              VerifyLost
<1>5. QED
  BY <1>1, <1>2, <1>3, <1>4 DEF Next

\* All the journal does on chain, the program does: the API reads it and changes
\* nothing of it.
THEOREM JournalRunsTheProgram == Spec => ProgramSpec
<1>1. Init => ProgramInit
  BY DEF Init
<1>2. ProgramTypeOK /\ [Next]_vars => [ProgramNext]_programVars
  <2> SUFFICES ASSUME ProgramTypeOK, [Next]_vars
               PROVE  ProgramNext \/ UNCHANGED programVars
    OBVIOUS
  <2>1. CASE ChainStep
    BY <2>1, PublishesArticle, TurnsVisibility DEF ChainStep
  <2>2. CASE UNCHANGED readingVars
    BY <2>2 DEF readingVars, programVars
  <2>3. CASE UNCHANGED vars
    BY <2>3 DEF vars, readingVars, programVars
  <2>4. Next => ChainStep \/ UNCHANGED readingVars
    BY NextReads
  <2>5. QED
    BY <2>1, <2>2, <2>3, <2>4
<1>3. ProgramInit => ProgramTypeOK
  BY ProgramAssumption DEF ProgramInit, ProgramTypeOK
<1>4. ProgramTypeOK /\ [ProgramNext]_programVars => ProgramTypeOK'
  BY ProgramStepType
<1>5. QED
  BY <1>1, <1>2, <1>3, <1>4, PTL DEF Spec, ProgramSpec

-----------------------------------------------------------------------------
(* Toasts *)

Distinct(items) ==
  \A i, j \in 1..Len(items) : items[i].id = items[j].id => i = j

\* As many ids as toasts: no two toasts have the same.
LEMMA DistinctIds ==
  ASSUME NEW items \in Seq(Toast)
  PROVE  /\ IsFiniteSet(IdsOf(items)) /\ Cardinality(IdsOf(items)) <= Len(items)
         /\ Cardinality(IdsOf(items)) = Len(items) <=> Distinct(items)
<1> DEFINE n == Len(items)
           f == [i \in 1..n |-> items[i].id]
<1>1. n \in Nat /\ DOMAIN items = 1..n
  BY LenProperties
<1>2. f \in Surjection(1..n, IdsOf(items))
  BY <1>1 DEF Surjection, IdsOf
<1>3. IsFiniteSet(1..n) /\ Cardinality(1..n) = n
  <2>1. 1 \in Int /\ n \in Int /\ n = (IF 1 > n THEN 0 ELSE n - 1 + 1)
    BY <1>1
  <2>2. QED
    BY <2>1, FS_Interval
<1>4. /\ IsFiniteSet(IdsOf(items)) /\ Cardinality(IdsOf(items)) <= n
      /\ Cardinality(IdsOf(items)) = n <=> f \in Injection(1..n, IdsOf(items))
  BY <1>2, <1>3, FS_Surjection
<1>5. f \in Injection(1..n, IdsOf(items)) <=> Distinct(items)
  BY <1>2 DEF Injection, IsInjective, Surjection, Distinct
<1>6. QED
  BY <1>4, <1>5

\* There is an id that no toast has.
LEMMA FreshIdExists ==
  ASSUME ToastsTypeOK
  PROVE  FreshId \in Ids \ IdsOf(toasts)
<1>1. MaxToasts \in Nat /\ Len(toasts) \in Nat /\ Len(toasts) <= MaxToasts
  BY ToastsAssumption, LenProperties DEF ToastsTypeOK
<1>2. IsFiniteSet(Ids) /\ Cardinality(Ids) = MaxToasts + 1
  <2>1. /\ 1 \in Int /\ MaxToasts + 1 \in Int
        /\ MaxToasts + 1 = (IF 1 > MaxToasts + 1 THEN 0 ELSE MaxToasts + 1 - 1 + 1)
    BY <1>1
  <2>2. QED
    BY <2>1, FS_Interval DEF Ids
<1>3. IsFiniteSet(IdsOf(toasts)) /\ Cardinality(IdsOf(toasts)) <= Len(toasts)
      /\ Cardinality(IdsOf(toasts)) \in Nat
  BY DistinctIds, FS_CardinalityType DEF ToastsTypeOK
<1>4. Ids \ IdsOf(toasts) # {}
  <2> SUFFICES ASSUME Ids \subseteq IdsOf(toasts) PROVE FALSE
    OBVIOUS
  <2>1. Cardinality(Ids) <= Cardinality(IdsOf(toasts))
    BY <1>3, FS_Subset
  <2>2. QED
    BY <1>1, <1>2, <1>3, <2>1
<1>5. Ids \ IdsOf(toasts) \in SUBSET Nat
  BY <1>1 DEF Ids
<1>6. \E id \in Ids \ IdsOf(toasts) : \A other \in Ids \ IdsOf(toasts) : id <= other
  BY <1>4, <1>5, LeastNatural
<1>7. QED
  BY <1>6 DEF FreshId

\* A toast is shown, and the oldest goes if there is no room.
LEMMA ToastShown ==
  ASSUME ToastsTypeOK, NEW message \in Messages, toast(message)
  PROVE  ToastsTypeOK'
<1> DEFINE shown == [id |-> FreshId, message |-> message]
           all == <<shown>> \o toasts
           n == IF Len(all) < MaxToasts THEN Len(all) ELSE MaxToasts
           items == SubSeq(all, 1, n)
<1>1. FreshId \in Ids /\ FreshId \notin IdsOf(toasts)
  BY FreshIdExists
<1>2. shown \in Toast /\ shown.id = FreshId
  BY <1>1 DEF Toast
<1>3. MaxToasts \in Nat /\ Len(toasts) \in Nat /\ toasts \in Seq(Toast)
      /\ DOMAIN toasts = 1..Len(toasts)
  BY ToastsAssumption, LenProperties DEF ToastsTypeOK
<1>4. Distinct(toasts)
  BY DistinctIds DEF ToastsTypeOK
<1> HIDE DEF shown
<1>5. <<shown>> \in Seq(Toast) /\ Len(<<shown>>) = 1 /\ <<shown>>[1] = shown
  BY <1>2
<1>6. /\ all \in Seq(Toast) /\ Len(all) = 1 + Len(toasts)
      /\ \A i \in 1..(1 + Len(toasts)) :
           all[i] = IF i <= 1 THEN <<shown>>[i] ELSE toasts[i - 1]
  BY <1>3, <1>5, ConcatProperties
<1>7. toasts' = items /\ timers' \subseteq IdsOf(items)
  <2>1. items = Newest(<<[id |-> FreshId, message |-> message]>> \o toasts)
    BY DEF Newest, shown
  <2>2. QED
    BY <2>1 DEF toast
<1> HIDE DEF all
<1>8. \A i \in 1..Len(all) : \/ (i = 1 /\ all[i].id = FreshId)
                             \/ (i - 1 \in 1..Len(toasts) /\ all[i].id = toasts[i - 1].id)
  <2> SUFFICES ASSUME NEW i \in 1..Len(all)
               PROVE  \/ (i = 1 /\ all[i].id = FreshId)
                      \/ (i - 1 \in 1..Len(toasts) /\ all[i].id = toasts[i - 1].id)
    OBVIOUS
  <2>1. CASE i = 1
    BY <1>2, <1>5, <1>6, <2>1
  <2>2. CASE i # 1
    <3>1. ~(i <= 1) /\ i - 1 \in 1..Len(toasts)
      BY <1>3, <1>6, <2>2
    <3>2. QED
      BY <1>6, <3>1
  <2>3. QED
    BY <2>1, <2>2
<1>9. \A k \in 1..Len(toasts) : toasts[k].id # FreshId
  BY <1>1, <1>3 DEF IdsOf
<1>10. Distinct(all)
  <2> SUFFICES ASSUME NEW i \in 1..Len(all), NEW j \in 1..Len(all), all[i].id = all[j].id
               PROVE  i = j
    BY DEF Distinct
  <2>1. CASE i = 1 \/ j = 1
    BY <1>8, <1>9, <2>1
  <2>2. CASE i # 1 /\ j # 1
    <3>1. i - 1 \in 1..Len(toasts) /\ j - 1 \in 1..Len(toasts)
          /\ toasts[i - 1].id = toasts[j - 1].id
      BY <1>8, <2>2
    <3>2. i - 1 = j - 1
      BY <1>4, <3>1 DEF Distinct
    <3>3. i \in Int /\ j \in Int
      BY <1>3, <1>6
    <3>4. QED
      BY <3>2, <3>3
  <2>3. QED
    BY <2>1, <2>2
<1>11. n \in Nat /\ n <= MaxToasts /\ \A i \in 1..n : i \in 1..Len(all)
  BY <1>3, <1>6
<1> HIDE DEF n
<1>12. \A i \in 1..n : all[i] \in Toast
  BY <1>6, <1>11, ElementOfSeq
<1>13. items \in Seq(Toast) /\ Len(items) = n /\ \A i \in 1..n : items[i] = all[i]
  <2>1. 1 \in Int /\ n \in Int /\ n - 1 + 1 = n /\ (IF 1 <= n THEN n - 1 + 1 ELSE 0) = n
        /\ \A i \in 1..n : 1 + i - 1 = i
    BY <1>11
  <2>2. /\ items \in Seq(Toast) /\ Len(items) = (IF 1 <= n THEN n - 1 + 1 ELSE 0)
        /\ \A i \in 1..(n - 1 + 1) : items[i] = all[1 + i - 1]
    BY <1>12, <2>1, SubSeqProperties
  <2>3. QED
    BY <2>1, <2>2
<1> HIDE DEF items
<1>14. Distinct(items)
  BY <1>10, <1>11, <1>13 DEF Distinct
<1>15. Cardinality(IdsOf(items)) = Len(items)
  BY <1>13, <1>14, DistinctIds
<1>16. QED
  BY <1>7, <1>11, <1>13, <1>15 DEF ToastsTypeOK, IdsOf

\* A toast is taken away: the others stay, each with its timer.
LEMMA ToastRemoved ==
  ASSUME ToastsTypeOK, NEW id, remove(id)
  PROVE  ToastsTypeOK'
<1> DEFINE places == {i \in DOMAIN toasts : toasts[i].id # id}
           items == Only(toasts, places)
<1>1. /\ toasts \in Seq(Toast) /\ Len(toasts) \in Nat /\ MaxToasts \in Nat
      /\ DOMAIN toasts = 1..Len(toasts) /\ Len(toasts) <= MaxToasts
  BY ToastsAssumption, LenProperties DEF ToastsTypeOK
<1>2. Distinct(toasts)
  BY DistinctIds DEF ToastsTypeOK
<1>3. places \in SUBSET DOMAIN toasts
  OBVIOUS
<1>4. toasts' = items /\ timers' = timers \ {id}
  BY DEF remove
<1>5. \A k \in timers \ {id} : \E i \in places : toasts[i].id = k
  BY DEF ToastsTypeOK, IdsOf
<1> HIDE DEF places
<1>6. /\ items \in Seq(Toast) /\ Len(items) = Cardinality(places)
      /\ DOMAIN items = 1..Cardinality(places) /\ Cardinality(places) \in 0..Len(toasts)
  BY <1>1, <1>3, OnlyProperties
<1>7. \A m \in 1..Cardinality(places) :
        NthPlace(places, m) \in places /\ items[m] = toasts[NthPlace(places, m)]
  BY <1>1, <1>3, OnlyProperties
<1>8. \A m, k \in 1..Cardinality(places) :
        NthPlace(places, m) = NthPlace(places, k) => m = k
  BY <1>1, <1>3, OnlyProperties
<1>9. \A i \in places : \E m \in 1..Cardinality(places) : NthPlace(places, m) = i
  BY <1>1, <1>3, OnlyProperties
<1> HIDE DEF items
<1>10. Distinct(items)
  BY <1>1, <1>2, <1>3, <1>6, <1>7, <1>8 DEF Distinct
<1>11. timers' \subseteq IdsOf(items)
  BY <1>4, <1>5, <1>6, <1>7, <1>9 DEF IdsOf
<1>12. Cardinality(IdsOf(items)) = Len(items) /\ Len(items) <= MaxToasts
  BY <1>1, <1>6, <1>10, DistinctIds
<1>13. QED
  BY <1>4, <1>6, <1>11, <1>12 DEF ToastsTypeOK, IdsOf

LEMMA ToastsStepType ==
  ASSUME ToastsTypeOK, [Next]_vars
  PROVE  ToastsTypeOK'
<1>1. ASSUME NEW id \in Ids, ToastTimer(id) \/ ToastClose(id)
      PROVE  ToastsTypeOK'
  BY <1>1, ToastRemoved DEF ToastTimer, ToastClose, TimerFires, Close
<1>2. ASSUME NEW c \in Checks, VerifyArrives(c) \/ VerifyLost(c)
      PROVE  ToastsTypeOK'
  <2>1. "error" \in Messages /\ Announced(check[c].reply) \in Messages
    BY JournalAssumption DEF Announced
  <2>2. toast("error") \/ toast(Announced(check[c].reply))
    BY <1>2 DEF VerifyArrives, VerifyLost, AnnounceLoss
  <2>3. QED
    BY <2>1, <2>2, ToastShown
<1>3. CASE UNCHANGED toastVars
  BY <1>3 DEF toastVars, ToastsTypeOK, IdsOf
<1>4. [Next]_vars => \/ \E id \in Ids : ToastTimer(id) \/ ToastClose(id)
                     \/ \E c \in Checks : VerifyArrives(c) \/ VerifyLost(c)
                     \/ UNCHANGED toastVars
  BY DEF Next, vars, ChainStep, Mount, ListArrives, Open, ViewProgress, ContentTry,
         ContentArrives, ContentLost, Retry, CloseView, Verify, VerifyAny, CheckProgress,
         VerifyTry, VerifyCompare
<1>5. QED
  BY <1>1, <1>2, <1>3, <1>4

-----------------------------------------------------------------------------
(* What is recorded *)

\* What the journal relies on of the chain: there are finitely many accounts,
\* each names an upload, and is as public as that until its author turns it.
ChainOK ==
  /\ turned \subseteq Addresses /\ IsFiniteSet(Registered)
  /\ \A a \in Registered :
       /\ accounts[a].arweave_id \in Uploads
       /\ a \notin turned => accounts[a].is_public = Body[accounts[a].arweave_id].isPublic

\* A record stays, what it names with it.
RecordsStay ==
  /\ Registered \subseteq Registered' /\ turned \subseteq turned'
  /\ \A a \in Registered : /\ accounts'[a].arweave_id = accounts[a].arweave_id
                           /\ accounts'[a].intuition_hash = accounts[a].intuition_hash

LEMMA ChainStepOK ==
  ASSUME ProgramTypeOK, ChainOK, ChainStep
  PROVE  ChainOK' /\ RecordsStay
<1>1. accounts \in [Addresses -> Article \cup {NoArticle}] /\ NoArticle \notin Article
      /\ Registered \subseteq Addresses
  BY NoArticleAssumption DEF ProgramTypeOK, Registered
<1>2. ASSUME NEW u \in Uploads, NEW intuition \in Intuitions, publishArticle(u, intuition)
      PROVE  ChainOK' /\ RecordsStay
  <2> DEFINE at == AddressOf(u)
  <2>1. at \in Addresses /\ accounts[at] = NoArticle /\ turned' = turned
    BY <1>2, PublishesArticle
  <2>2. PICK a \in Article : /\ accounts' = [accounts EXCEPT ![at] = a]
                             /\ a.arweave_id = u /\ a.is_public = Body[u].isPublic
    BY <1>2, PublishesArticle
  <2> HIDE DEF at
  <2>3. accounts'[at] = a /\ \A b \in Addresses \ {at} : accounts'[b] = accounts[b]
    BY <1>1, <2>1, <2>2
  <2>4. Registered' = Registered \cup {at} /\ at \notin Registered
    BY <1>1, <2>1, <2>2, <2>3 DEF Registered
  <2>5. IsFiniteSet(Registered')
    BY <2>4, FS_AddElement DEF ChainOK
  <2>6. \A b \in Registered : accounts'[b] = accounts[b]
    BY <1>1, <2>3, <2>4
  <2>7. RecordsStay
    BY <2>1, <2>4, <2>6 DEF RecordsStay
  <2>8. \A b \in Registered' :
          /\ accounts'[b].arweave_id \in Uploads
          /\ b \notin turned' => accounts'[b].is_public = Body[accounts'[b].arweave_id].isPublic
    BY <1>2, <2>1, <2>2, <2>3, <2>4, <2>6 DEF ChainOK
  <2>9. QED
    BY <2>1, <2>5, <2>7, <2>8 DEF ChainOK
<1>3. ASSUME NEW at \in Addresses, NEW is_public \in BOOLEAN, updateVisibility(at, is_public)
      PROVE  ChainOK' /\ RecordsStay
  <2>1. /\ accounts[at] # NoArticle /\ turned' = turned \cup {at}
        /\ accounts' = [accounts EXCEPT ![at].is_public = is_public]
    BY <1>3, TurnsVisibility
  <2>2. accounts[at] \in Article
    BY <1>1, <2>1
  <2>3. /\ accounts'[at] = [accounts[at] EXCEPT !.is_public = is_public]
        /\ \A b \in Addresses \ {at} : accounts'[b] = accounts[b]
    BY <1>1, <2>1
  <2>4. /\ accounts'[at] \in Article
        /\ accounts'[at].arweave_id = accounts[at].arweave_id
        /\ accounts'[at].intuition_hash = accounts[at].intuition_hash
    BY <2>2, <2>3 DEF Article
  <2>5. Registered' = Registered
    BY <1>1, <2>1, <2>3, <2>4 DEF Registered
  <2>6. RecordsStay
    BY <1>1, <2>1, <2>3, <2>4, <2>5 DEF RecordsStay
  <2>7. \A b \in Registered' :
          /\ accounts'[b].arweave_id \in Uploads
          /\ b \notin turned' => accounts'[b].is_public = Body[accounts'[b].arweave_id].isPublic
    BY <1>1, <2>1, <2>3, <2>4, <2>5 DEF ChainOK
  <2>8. QED
    BY <1>3, <2>1, <2>5, <2>6, <2>7 DEF ChainOK
<1>4. QED
  BY <1>2, <1>3 DEF ChainStep

-----------------------------------------------------------------------------
(* The page *)

ListOK == list \in {Loading, LoadFailed} \cup Seq(Registered)
ViewOK ==
  view # Closed => view \in View /\ view.article \in Registered /\ RequestOK(view.request)

\* A list of registered articles stays one.
LEMMA ListStays ==
  ASSUME NEW S, NEW T, S \subseteq T, NEW s \in Seq(S)
  PROVE  s \in Seq(T)
<1>1. Len(s) \in Nat /\ s \in [1..Len(s) -> S]
  BY LenProperties
<1>2. s = [i \in 1..Len(s) |-> s[i]] /\ \A i \in 1..Len(s) : s[i] \in T
  BY <1>1
<1>3. [i \in 1..Len(s) |-> s[i]] \in Seq(T)
  BY <1>1, <1>2, IsASeq
<1>4. QED
  BY <1>2, <1>3

\* Every card, under whatever filter, is of a registered article.
LEMMA CardsRegistered ==
  ASSUME ListOK
  PROVE  Cards \subseteq Registered
<1> SUFFICES ASSUME NEW f \in Filters, NEW a \in Range(Filtered(f))
             PROVE  a \in Registered
  BY DEF Cards
<1>1. CASE list \in {Loading, LoadFailed}
  <2>1. Filtered(f) = <<>>
    BY <1>1 DEF Filtered
  <2>2. QED
    BY <2>1 DEF Range
<1>2. CASE list \notin {Loading, LoadFailed}
  <2> DEFINE places == {i \in DOMAIN list : f.author \in {Nobody, list[i][1]}}
             kept == Only(list, places)
  <2>1. list \in Seq(Registered) /\ places \in SUBSET DOMAIN list
    BY <1>2 DEF ListOK
  <2> HIDE DEF places
  <2>2. kept \in Seq(Registered)
    BY <2>1, OnlyProperties
  <2>3. Filtered(f) = IF f.sort = "newest" THEN kept ELSE Reverse(kept)
    BY <1>2 DEF Filtered, places
  <2> HIDE DEF kept
  <2>4. Len(kept) \in Nat /\ DOMAIN kept = 1..Len(kept)
        /\ \A i \in 1..Len(kept) : kept[i] \in Registered
    BY <2>2, LenProperties, ElementOfSeq
  <2>5. CASE Filtered(f) = kept
    BY <2>4, <2>5 DEF Range
  <2>6. CASE Filtered(f) = Reverse(kept)
    <3>1. Filtered(f) = [i \in 1..Len(kept) |-> kept[(Len(kept) - i) + 1]]
      BY <2>6 DEF Reverse
    <3>2. \A i \in 1..Len(kept) : (Len(kept) - i) + 1 \in 1..Len(kept)
      BY <2>4
    <3>3. PICK i \in 1..Len(kept) : a = kept[(Len(kept) - i) + 1]
      BY <3>1 DEF Range
    <3>4. QED
      BY <2>4, <3>2, <3>3
  <2>7. QED
    BY <2>3, <2>5, <2>6
<1>3. QED
  BY <1>1, <1>2

\* A new request of the modal, its error taken away.
LEMMA LoadOK ==
  ASSUME NEW v \in View
  PROVE  /\ Load(v) \in View /\ Load(v).article = v.article
         /\ RequestOK(Load(v).request)
<1> DEFINE r == NewRequest(v.request.upload)
<1>1. v.request \in Request /\ v.request.upload \in Uploads
  BY DEF View, Request
<1>2. r \in Request /\ RequestOK(r)
  BY <1>1, NewRequestOK
<1>3. Load(v) = [v EXCEPT !.isLoading = TRUE, !.error = FALSE, !.request = r]
  BY DEF Load, View
<1> HIDE DEF r
<1>4. QED
  BY <1>2, <1>3 DEF View

LEMMA ViewStepOK ==
  ASSUME ProgramTypeOK, ChainOK, ListOK, ViewOK, Next, UNCHANGED readingVars
  PROVE  ViewOK'
<1>1. Registered' = Registered
  BY DEF readingVars, Registered
<1>2. CASE \E a \in Addresses : Open(a)
  <2>1. PICK a \in Addresses : Open(a)
    BY <1>2
  <2> DEFINE r == NewRequest(UploadOf(a))
  <2>2. a \in Registered
    BY <2>1, CardsRegistered DEF Open
  <2>3. UploadOf(a) \in Uploads
    BY <2>2 DEF ChainOK, UploadOf
  <2>4. r \in Request /\ RequestOK(r)
    BY <2>3, NewRequestOK
  <2>5. view' = [article |-> a, content |-> FALSE, error |-> FALSE, isLoading |-> TRUE,
                 retryCount |-> 0, request |-> r]
    BY <2>1 DEF Open
  <2> HIDE DEF r
  <2>6. 0 \in 0..MaxRetry
    BY JournalAssumption
  <2>7. QED
    BY <1>1, <2>2, <2>4, <2>5, <2>6 DEF ViewOK, View
<1>3. CASE ContentTry
  <2>1. view # Closed /\ view.request.at = "fetch" /\ view \in View
        /\ view.request \in Request /\ RequestOK(view.request) /\ view.article \in Registered
    BY <1>3 DEF ContentTry, ViewOK, View
  <2>2. PICK answer \in Answers :
          view' = [view EXCEPT !.request = ContentAnswered(view.request, answer)]
    BY <1>3 DEF ContentTry
  <2> DEFINE r == ContentAnswered(view.request, answer)
  <2>3. r \in Request /\ RequestOK(r)
    BY <2>1, ContentAnsweredOK
  <2>4. view' = [view EXCEPT !.request = r]
    BY <2>2
  <2> HIDE DEF r
  <2>5. QED
    BY <1>1, <2>1, <2>3, <2>4 DEF ViewOK, View
<1>4. CASE ContentArrives \/ ContentLost
  <2>1. view # Closed /\ view \in View /\ RequestOK(view.request) /\ view.article \in Registered
    BY <1>4 DEF ContentArrives, ContentLost, ViewOK
  <2>2. view' = Shown(view) \/ view' = Failed(view)
    BY <1>4 DEF ContentArrives, ContentLost
  <2>3. CASE view' = Failed(view)
    BY <1>1, <2>1, <2>3 DEF ViewOK, View, Failed
  <2>4. CASE view' = Shown(view)
    <3> DEFINE arrived == [view EXCEPT !.content = TRUE, !.isLoading = FALSE]
               again == Reset(arrived)
    <3>1. /\ arrived \in View /\ arrived.article = view.article
          /\ arrived.request = view.request
      BY <2>1 DEF View
    <3>2. view' = arrived \/ view' = Load(again)
      BY <2>4 DEF Shown
    <3> HIDE DEF arrived
    <3>3. again \in View /\ again.article = view.article
      <4>1. 0 \in 0..MaxRetry
        BY JournalAssumption
      <4>2. QED
        BY <3>1, <4>1 DEF Reset, View
    <3> HIDE DEF again
    <3>4. CASE view' = arrived
      BY <1>1, <2>1, <3>1, <3>4 DEF ViewOK
    <3>5. CASE view' = Load(again)
      BY <1>1, <2>1, <3>3, <3>5, LoadOK DEF ViewOK
    <3>6. QED
      BY <3>2, <3>4, <3>5
  <2>5. QED
    BY <2>2, <2>3, <2>4
<1>5. CASE Retry
  <2> DEFINE v == [view EXCEPT !.retryCount = @ + 1]
  <2>1. view \in View /\ view.article \in Registered /\ view.retryCount < MaxRetry
    BY <1>5 DEF Retry, ViewOK
  <2>2. view.retryCount + 1 \in 0..MaxRetry
    BY <2>1, JournalAssumption DEF View
  <2>3. v \in View /\ v.article = view.article
    BY <2>1, <2>2 DEF View
  <2>4. view' = Load(v)
    BY <1>5 DEF Retry
  <2> HIDE DEF v
  <2>5. QED
    BY <1>1, <2>1, <2>3, <2>4, LoadOK DEF ViewOK
<1>6. CASE Mount \/ CloseView
  BY <1>6 DEF Mount, CloseView, ViewOK
<1>7. CASE UNCHANGED view
  BY <1>1, <1>7 DEF ViewOK
<1>8. QED
  <2>1. \/ \E a \in Addresses : Open(a)
        \/ ContentTry \/ ContentArrives \/ ContentLost \/ Retry \/ Mount \/ CloseView
        \/ UNCHANGED view
    BY DEF Next, ChainStep, journalVars, ToastTimer, ToastClose, ListArrives, ViewProgress,
           Verify, VerifyAny, CheckProgress, VerifyTry, VerifyCompare, VerifyArrives, VerifyLost
  <2>2. QED
    BY <1>2, <1>3, <1>4, <1>5, <1>6, <1>7, <2>1

-----------------------------------------------------------------------------
(* Verifications *)

\* What a reply says is so: of the record, and of who turned it.
Found(u) ==
  LET a == accounts[AddressOf(u)]
  IN a # NoArticle /\ a.arweave_id = u /\ a.intuition_hash = Body[u].intuition
Diverged(u) ==
  LET a == accounts[AddressOf(u)]
  IN /\ AddressOf(u) \in Registered
     /\ a.arweave_id = u /\ a.intuition_hash = Body[u].intuition
          => AddressOf(u) \in turned
ReplyOK(r) ==
  /\ r.reply = "verified" => Found(r.upload)
  /\ r.reply = "diverges" => Diverged(r.upload)
ChecksOK ==
  /\ check \in [Checks -> Request \cup {Idle}]
  /\ \A c \in Checks : check[c] # Idle => RequestOK(check[c]) /\ ReplyOK(check[c])

LEMMA UploadAddress ==
  ASSUME NEW u \in Uploads
  PROVE  AddressOf(u) \in Addresses
  BY ReadingAssumption DEF AddressOf, Addresses

\* Comparing with the record finds what the reply then says.
LEMMA VerdictOK ==
  ASSUME ProgramTypeOK, RecordMatchesAddress, ChainOK, NEW u \in Uploads
  PROVE  /\ Verdict(u) \in Verdicts
         /\ Verdict(u) = "verified" => Found(u)
         /\ Verdict(u) = "diverges" => Diverged(u)
<1> DEFINE at == AddressOf(u)
           a == accounts[at]
<1>1. at \in Addresses /\ at = <<Body[u].author, Body[u].content>>
  BY UploadAddress DEF AddressOf
<1>2. Verdict(u) = IF a = NoArticle THEN "unrecorded"
                   ELSE IF Matches(a, u) THEN "verified" ELSE "diverges"
  BY <1>1 DEF Verdict, getArticle
<1> HIDE DEF at
<1>3. CASE a = NoArticle
  BY <1>2, <1>3 DEF Verdicts
<1>4. CASE a # NoArticle /\ Matches(a, u)
  <2>1. a.arweave_id = u /\ a.intuition_hash = Body[u].intuition
    BY <1>4 DEF Matches, RecordNames, SameHashes
  <2>2. QED
    BY <1>2, <1>4, <2>1 DEF Verdicts, Found, at
<1>5. CASE a # NoArticle /\ ~Matches(a, u)
  <2>1. at \in Registered
    BY <1>1, <1>5 DEF Registered
  <2>2. a.content_hash = Body[u].content
    BY <1>1, <1>5 DEF RecordMatchesAddress
  <2>3. a.arweave_id = u /\ a.intuition_hash = Body[u].intuition => at \in turned
    <3> SUFFICES ASSUME a.arweave_id = u, a.intuition_hash = Body[u].intuition
                 PROVE  at \in turned
      OBVIOUS
    <3>1. a.is_public # Body[u].isPublic
      BY <1>5, <2>2 DEF Matches, RecordNames, SameHashes
    <3>2. QED
      BY <2>1, <3>1 DEF ChainOK
  <2>4. QED
    BY <1>2, <1>5, <2>1, <2>3 DEF Verdicts, Diverged, at
<1>6. QED
  BY <1>3, <1>4, <1>5

\* A verification takes a step, or ends.
LEMMA CheckChanged ==
  ASSUME ChecksOK, UNCHANGED readingVars, NEW c \in Checks, NEW r \in Request \cup {Idle},
         r # Idle => RequestOK(r) /\ ReplyOK(r), check' = [check EXCEPT ![c] = r]
  PROVE  ChecksOK'
<1>1. check' \in [Checks -> Request \cup {Idle}]
  BY DEF ChecksOK
<1>2. \A q \in Request : ReplyOK(q) => ReplyOK(q)'
  BY DEF ReplyOK, Found, Diverged, Registered, readingVars
<1>3. ASSUME NEW d \in Checks, check'[d] # Idle
      PROVE  RequestOK(check'[d]) /\ ReplyOK(check[d])'
  <2>1. CASE d = c
    <3>1. check'[d] = r /\ r \in Request
      BY <1>3, <2>1 DEF ChecksOK
    <3>2. RequestOK(r) /\ ReplyOK(r)'
      BY <1>2, <1>3, <3>1
    <3>3. QED
      BY <3>1, <3>2 DEF ReplyOK, Found, Diverged, Registered
  <2>2. CASE d # c
    <3>1. check'[d] = check[d] /\ check[d] # Idle
      BY <1>3, <2>2 DEF ChecksOK
    <3>2. RequestOK(check[d]) /\ ReplyOK(check[d])
      BY <3>1 DEF ChecksOK
    <3>3. QED
      BY <3>1, <3>2 DEF ReplyOK, Found, Diverged, Registered, readingVars
  <2>3. QED
    BY <2>1, <2>2
<1>4. QED
  BY <1>1, <1>3 DEF ChecksOK

LEMMA CheckStepOK ==
  ASSUME ProgramTypeOK, RecordMatchesAddress, ChainOK, ListOK, ViewOK, ChecksOK, Next,
         UNCHANGED readingVars
  PROVE  ChecksOK'
<1>1. ASSUME NEW c \in Checks, Verify(c) \/ VerifyAny(c)
      PROVE  ChecksOK'
  <2>1. PICK u \in Uploads : check' = [check EXCEPT ![c] = NewRequest(u)]
    <3>1. CASE VerifyAny(c)
      BY <3>1 DEF VerifyAny
    <3>2. CASE Verify(c)
      <4>1. PICK a \in IF view = Closed THEN Cards ELSE {view.article} :
              check' = [check EXCEPT ![c] = NewRequest(UploadOf(a))]
        BY <3>2 DEF Verify
      <4>2. a \in Registered
        BY CardsRegistered DEF ViewOK
      <4>3. UploadOf(a) \in Uploads
        BY <4>2 DEF ChainOK, UploadOf
      <4>4. QED
        BY <4>1, <4>3
    <3>3. QED
      BY <1>1, <3>1, <3>2
  <2>2. NewRequest(u) \in Request /\ RequestOK(NewRequest(u)) /\ ReplyOK(NewRequest(u))
    BY NewRequestOK DEF ReplyOK
  <2>3. QED
    BY <2>1, <2>2, CheckChanged
<1>2. ASSUME NEW c \in Checks, VerifyTry(c)
      PROVE  ChecksOK'
  <2>1. check[c] \in Request /\ RequestOK(check[c]) /\ check[c].at = "fetch"
    BY <1>2 DEF VerifyTry, ChecksOK
  <2>2. PICK answer \in Answers : check' = [check EXCEPT ![c] = VerifyAnswered(check[c], answer)]
    BY <1>2, <2>1 DEF VerifyTry, ChecksOK
  <2> DEFINE r == VerifyAnswered(check[c], answer)
  <2>3. r \in Request /\ RequestOK(r) /\ r.reply \notin Verdicts
    BY <2>1, VerifyAnsweredOK
  <2>4. ReplyOK(r)
    BY <2>3 DEF ReplyOK, Verdicts
  <2> HIDE DEF r
  <2>5. check' = [check EXCEPT ![c] = r]
    BY <2>2 DEF r
  <2>6. QED
    BY <2>3, <2>4, <2>5, CheckChanged
<1>3. ASSUME NEW c \in Checks, VerifyCompare(c)
      PROVE  ChecksOK'
  <2>1. check[c] \in Request /\ check[c].upload \in Uploads
    BY <1>3 DEF VerifyCompare, ChecksOK, Request
  <2>2. PICK reply \in {Verdict(check[c].upload), "error"} :
          check' = [check EXCEPT ![c] = Replied(check[c], reply)]
    BY <1>3, <2>1 DEF VerifyCompare, ChecksOK
  <2>3. /\ reply \in Reply \ {"gave up"}
        /\ reply = "verified" => Found(check[c].upload)
        /\ reply = "diverges" => Diverged(check[c].upload)
    BY <2>1, VerdictOK DEF Reply, Verdicts
  <2> DEFINE r == Replied(check[c], reply)
  <2>4. /\ r \in Request /\ RequestOK(r) /\ r.upload = check[c].upload /\ r.reply = reply
    BY <2>1, <2>3, RepliedOK
  <2>5. ReplyOK(r)
    BY <2>3, <2>4 DEF ReplyOK
  <2> HIDE DEF r
  <2>6. check' = [check EXCEPT ![c] = r]
    BY <2>2 DEF r
  <2>7. QED
    BY <2>4, <2>5, <2>6, CheckChanged
<1>4. ASSUME NEW c \in Checks, VerifyArrives(c) \/ VerifyLost(c)
      PROVE  ChecksOK'
  <2>1. check' = [check EXCEPT ![c] = Idle]
    BY <1>4 DEF VerifyArrives, VerifyLost
  <2>2. QED
    BY <2>1, CheckChanged
<1>5. CASE UNCHANGED check
  BY <1>5 DEF ChecksOK, ReplyOK, Found, Diverged, Registered, readingVars
<1>6. QED
  <2>1. \/ \E c \in Checks : \/ Verify(c) \/ VerifyAny(c) \/ VerifyTry(c) \/ VerifyCompare(c)
                             \/ VerifyArrives(c) \/ VerifyLost(c)
        \/ UNCHANGED check
    BY DEF Next, ChainStep, journalVars, ToastTimer, ToastClose, Mount, ListArrives, Open,
           ViewProgress, ContentTry, ContentArrives, ContentLost, Retry, CloseView,
           CheckProgress
  <2>2. QED
    BY <1>1, <1>2, <1>3, <1>4, <1>5, <2>1

\* What was found stays so: the record is permanent.
LEMMA FoundStays ==
  ASSUME ProgramTypeOK, ChecksOK, RecordsStay, UNCHANGED check
  PROVE  ChecksOK'
<1>1. ASSUME NEW u \in Uploads
      PROVE  (Found(u) => Found(u)') /\ (Diverged(u) => Diverged(u)')
  <2> DEFINE at == AddressOf(u)
  <2>1. at \in Addresses
    BY UploadAddress
  <2>2. at \in Registered => /\ at \in Registered'
                             /\ accounts'[at].arweave_id = accounts[at].arweave_id
                             /\ accounts'[at].intuition_hash = accounts[at].intuition_hash
                             /\ at \in turned => at \in turned'
    BY DEF RecordsStay
  <2> HIDE DEF at
  <2>3. accounts[at] # NoArticle <=> at \in Registered
    BY <2>1 DEF Registered
  <2>4. at \in Registered' => accounts'[at] # NoArticle
    BY DEF Registered
  <2>5. QED
    BY <2>2, <2>3, <2>4 DEF Found, Diverged, at
<1>2. \A c \in Checks : check[c] # Idle => ReplyOK(check[c])'
  <2> SUFFICES ASSUME NEW c \in Checks, check[c] # Idle
               PROVE  ReplyOK(check[c])'
    OBVIOUS
  <2>1. check[c] \in Request /\ ReplyOK(check[c])
    BY DEF ChecksOK
  <2> DEFINE u == check[c].upload
  <2>2. u \in Uploads
    BY <2>1 DEF Request
  <2>3. (Found(u) => Found(u)') /\ (Diverged(u) => Diverged(u)')
    BY <1>1, <2>2
  <2>4. QED
    BY <2>1, <2>3 DEF ReplyOK
<1>3. QED
  BY <1>2 DEF ChecksOK

-----------------------------------------------------------------------------
(* The inductive invariant *)

JournalInv == ToastsTypeOK /\ ChainOK /\ ListOK /\ ViewOK /\ ChecksOK

LEMMA JournalStep ==
  ASSUME ProgramTypeOK, RecordMatchesAddress, JournalInv, [Next]_vars
  PROVE  JournalInv'
<1>1. ToastsTypeOK'
  BY ToastsStepType DEF JournalInv
<1>2. CASE ChainStep
  <2>1. ChainOK' /\ RecordsStay /\ UNCHANGED <<list, view, check>>
    BY <1>2, ChainStepOK DEF JournalInv, ChainStep, journalVars
  <2>2. ListOK'
    BY <2>1, ListStays DEF JournalInv, ListOK, RecordsStay
  <2>3. ViewOK'
    BY <2>1 DEF JournalInv, ViewOK, RecordsStay
  <2>4. ChecksOK'
    BY <2>1, FoundStays DEF JournalInv
  <2>5. QED
    BY <1>1, <2>1, <2>2, <2>3, <2>4 DEF JournalInv
<1>3. CASE Next /\ UNCHANGED readingVars
  <2>1. Registered' = Registered
    BY <1>3 DEF readingVars, Registered
  <2>2. ChainOK'
    BY <1>3, <2>1 DEF JournalInv, ChainOK, readingVars
  <2>3. ListOK'
    <3>1. CASE ListArrives
      BY <2>1, <3>1, ArticlesType DEF ListArrives, ListOK, JournalInv, ChainOK
    <3>2. CASE Mount
      BY <3>2 DEF Mount, ListOK
    <3>3. CASE UNCHANGED list
      BY <2>1, <3>3 DEF ListOK, JournalInv
    <3>4. ListArrives \/ Mount \/ UNCHANGED list
      BY <1>3 DEF Next, ChainStep, journalVars, ToastTimer, ToastClose, Open, ViewProgress,
                  ContentTry, ContentArrives, ContentLost, Retry, CloseView, Verify, VerifyAny,
                  CheckProgress, VerifyTry, VerifyCompare, VerifyArrives, VerifyLost
    <3>5. QED
      BY <3>1, <3>2, <3>3, <3>4
  <2>4. ViewOK' /\ ChecksOK'
    BY <1>3, ViewStepOK, CheckStepOK DEF JournalInv
  <2>5. QED
    BY <1>1, <2>2, <2>3, <2>4 DEF JournalInv
<1>4. CASE UNCHANGED vars
  BY <1>1, <1>4 DEF vars, readingVars, toastVars, journalVars, JournalInv, ChainOK, ListOK, ViewOK,
                    ChecksOK, ReplyOK, Found, Diverged, Registered
<1>5. Next => ChainStep \/ UNCHANGED readingVars
  BY NextReads
<1>6. QED
  BY <1>2, <1>3, <1>4, <1>5

LEMMA JournalInit ==
  ASSUME Init
  PROVE  JournalInv
<1>1. Registered = {}
  BY DEF Init, ProgramInit, Registered
<1>2. ChainOK
  BY <1>1, FS_EmptySet DEF ChainOK, Init
<1>3. ToastsTypeOK
  <2>1. toasts = <<>> /\ timers = {} /\ toasts \in Seq(Toast) /\ Len(toasts) = 0
    BY EmptySeq DEF Init, ToastsInit
  <2>2. IdsOf(toasts) = {}
    BY <2>1 DEF IdsOf
  <2>3. QED
    BY <2>1, <2>2, FS_EmptySet, ToastsAssumption DEF ToastsTypeOK
<1>4. QED
  BY <1>2, <1>3 DEF JournalInv, Init, ListOK, ViewOK, ChecksOK

LEMMA JournalInvHolds == Spec => [](ProgramTypeOK /\ RecordMatchesAddress /\ JournalInv)
<1>1. ProgramTypeOK /\ RecordMatchesAddress /\ JournalInv /\ [Next]_vars => JournalInv'
  BY JournalStep
<1>2. Init => JournalInv
  BY JournalInit
<1>3. Spec => []ProgramTypeOK /\ []RecordMatchesAddress
  BY JournalRunsTheProgram, ProgramTypeCorrect, AddressMatches
<1>4. QED
  BY <1>1, <1>2, <1>3, PTL DEF Spec

\* The state of the journal keeps its types: its list holds addresses, no two
\* toasts have one id, and every timer has its toast.
THEOREM JournalTypeCorrect == Spec => []JournalTypeOK
<1>1. ProgramTypeOK /\ JournalInv => JournalTypeOK
  <2> SUFFICES ASSUME ProgramTypeOK, JournalInv PROVE JournalTypeOK
    OBVIOUS
  <2>1. list \in {Loading, LoadFailed} \cup Seq(Addresses)
    BY ListStays DEF JournalInv, ListOK, Registered
  <2>2. QED
    BY <2>1 DEF JournalInv, JournalTypeOK, ProgramTypeOK, ChainOK, ViewOK, ChecksOK
<1>2. QED
  BY <1>1, JournalInvHolds, PTL

\* Who is told "verified" can find the record, still when the answer arrives.
THEOREM VerifiedRecorded == Spec => []VerifiedIsRecorded
<1>1. JournalInv => VerifiedIsRecorded
  BY DEF JournalInv, ChecksOK, ReplyOK, Found, VerifiedIsRecorded
<1>2. QED
  BY <1>1, JournalInvHolds, PTL

\* An upload registered as it is diverges only by a turn of its author's.
THEOREM OnlyTurning == Spec => []OnlyTurningBreaksIt
<1>1. JournalInv => OnlyTurningBreaksIt
  BY DEF JournalInv, ChecksOK, ReplyOK, Diverged, OnlyTurningBreaksIt
<1>2. QED
  BY <1>1, JournalInvHolds, PTL

\* "Not found" is said only after every gateway was given every try.
THEOREM GivesUpLast == Spec => []GivesUpAfterAll
<1>1. JournalInv => GivesUpAfterAll
  BY DEF JournalInv, ChecksOK, ViewOK, RequestOK, GivesUpAfterAll
<1>2. QED
  BY <1>1, JournalInvHolds, PTL

=============================================================================
