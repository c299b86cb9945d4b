------------------------------ MODULE Publishing ------------------------------
(***************************************************************************)
(* Publishing an article: the editor's PublishModal.tsx, the endpoint      *)
(* POST /api/articles/publish/prepare (articles.controller.ts,             *)
(* preparePublish) with the upload it makes to Arweave, and the on-chain   *)
(* program of AuroraProgram.                                               *)
(*                                                                         *)
(* Nothing makes the three stores one: the API writes Arweave and          *)
(* PostgreSQL, the browser writes the chain, and each can fail or be       *)
(* abandoned after the other has succeeded.  A click of the button is an   *)
(* attempt; it has a browser side (handlePublish, one stretch between two  *)
(* awaits at a time), a server side (the handler) and a transaction, and   *)
(* these go on without each other when a tab is reloaded or a reply lost.  *)
(***************************************************************************)
EXTENDS AuroraProgram, FiniteSets

CONSTANTS Tabs,        \* browser tabs with the modal open
          Author,      \* Author[t]: the wallet connected in tab t
          Titles,      \* what authors enter as a title
          Contents,    \* the hashes of the contents they publish
          Attempts,    \* clicks of the Publish button
          NoAttempt,   \* the attempt of a tab that has made none
          ArweaveId,   \* ArweaveId[i]: the id of the upload that attempt i makes
          aiScope,     \* the AI scope and the hash of the declared
          intuition,   \* intuition: they have no influence here
          Balance      \* Balance[w]: how many articles a wallet can pay rent for

ASSUME PublishingAssumption ==
  /\ Author \in [Tabs -> Keys]
  /\ Titles \subseteq Strings
  /\ Contents \subseteq Hashes \ {ZeroHash}
  /\ aiScope \in Strings /\ intuition \in Hashes
  /\ NoAttempt \notin Attempts
  /\ ArweaveId \in [Attempts -> Strings]
  /\ \A i, j \in Attempts : ArweaveId[i] = ArweaveId[j] => i = j
  /\ Balance \in [Keys -> Nat]

VARIABLES modal,       \* PublishModal's state in each tab
          clicks,      \* what was published with each click made so far
          job,         \* the preparePublish handler of each attempt
          stored,      \* attempts whose upload is on Arweave
          rows,        \* attempts with a row in Article, status PUBLISHED
          secrets,     \* attempts with a row in ArticleSecret
          tx,          \* the transaction of each attempt
          funds        \* what each wallet can still pay for

chain == <<accounts, clock, signer, funds>>
server == <<job, stored, rows, secrets>>
publishVars == <<chain, server, modal, clicks, tx>>

-----------------------------------------------------------------------------

\* step and isPublishing are React state; at is the await handlePublish has
\* come to, "none" when it is not running.
Awaits == {"none", "signMessage", "prepare", "blockhash", "simulate", "send", "confirm"}
Modal == [step: {"form", "uploading", "publishing", "success"},
          isPublishing: BOOLEAN, at: Awaits, attempt: Attempts \cup {NoAttempt}]

\* The catch block and the two early returns of handlePublish.
FormStillBusy(t) == [modal[t] EXCEPT !.step = "form", !.at = "none"]
Form(t) == [modal[t] EXCEPT !.step = "form", !.at = "none", !.isPublishing = FALSE]
NewForm == [step |-> "form", isPublishing |-> FALSE, at |-> "none", attempt |-> NoAttempt]

Shows(t, m) == modal' = [modal EXCEPT ![t] = m]
GoesTo(t, step, at) == Shows(t, [modal[t] EXCEPT !.step = step, !.at = at])
BackToForm(t) == Shows(t, Form(t))

\* preparePublish, by what it does next; "failed" is a reply that is not ok.
Jobs == {"none", "check", "upload", "row", "secret", "reply", "failed"}
Running == {"check", "upload", "row", "secret"}

Click == [author: Keys, content: Contents, title: Titles, isPublic: BOOLEAN]

\* buildPublishArticleIx: the instruction that registers attempt i.
Ix(i) == [content_hash |-> clicks[i].content, intuition_hash |-> intuition,
          arweave_id |-> ArweaveId[i], title |-> clicks[i].title,
          ai_scope |-> aiScope, is_public |-> clicks[i].isPublic]

\* What a run of the transaction would do in the present state of the chain.
WouldSucceed(i) == /\ CanPublish(clicks[i].author, Ix(i))
                   /\ funds[clicks[i].author] > 0

PublishTypeOK ==
  /\ ProgramTypeOK
  /\ modal \in [Tabs -> Modal]
  /\ DOMAIN clicks \subseteq Attempts /\ clicks \in [DOMAIN clicks -> Click]
  /\ job \in [Attempts -> Jobs]
  /\ stored \subseteq DOMAIN clicks /\ rows \subseteq stored /\ secrets \subseteq rows
  /\ tx \in [Attempts -> {"none", "sent", "landed", "failed", "expired"}]
  /\ funds \in [Keys -> Nat]
  /\ \A t \in Tabs : modal[t].at # "none" => /\ modal[t].isPublishing
                                             /\ modal[t].attempt \in DOMAIN clicks

PublishInit ==
  /\ ProgramInit
  /\ modal = [t \in Tabs |-> NewForm]
  /\ clicks = [i \in {} |-> NewForm]
  /\ job = [i \in Attempts |-> "none"]
  /\ stored = {} /\ rows = {} /\ secrets = {}
  /\ tx = [i \in Attempts |-> "none"]
  /\ funds = Balance

-----------------------------------------------------------------------------
(* handlePublish, in the browser *)

\* The button is enabled and the fields are filled in.  What is published is
\* captured here, whatever becomes of the form while handlePublish runs.
Publish(t) ==
  /\ modal[t].step = "form" /\ ~modal[t].isPublishing
  /\ \E i \in Attempts \ DOMAIN clicks, content \in Contents, title \in Titles,
        isPublic \in BOOLEAN :
       /\ clicks' = [j \in DOMAIN clicks \cup {i} |->
                       IF j = i THEN [author |-> Author[t], content |-> content,
                                      title |-> title, isPublic |-> isPublic]
                                ELSE clicks[j]]
       /\ Shows(t, [step |-> "uploading", isPublishing |-> TRUE,
                    at |-> "signMessage", attempt |-> i])
  /\ UNCHANGED <<chain, server, tx>>

\* The wallet signs the canonical payload and the request goes out, or the
\* wallet refuses and handlePublish throws.
SignMessage(t) ==
  /\ modal[t].at = "signMessage"
  /\ \/ /\ GoesTo(t, "uploading", "prepare")
        /\ job' = [job EXCEPT ![modal[t].attempt] = "check"]
     \/ /\ BackToForm(t)
        /\ UNCHANGED job
  /\ UNCHANGED <<chain, clicks, tx, stored, rows, secrets>>

\* The reply arrives: handlePublish goes on with it if it is ok and throws if not.
PrepareReply(t) ==
  /\ modal[t].at = "prepare"
  /\ \/ job[modal[t].attempt] = "reply" /\ GoesTo(t, "publishing", "blockhash")
     \/ job[modal[t].attempt] = "failed" /\ BackToForm(t)
  /\ UNCHANGED <<chain, server, clicks, tx>>

\* fetch rejects, while the handler runs on.
PrepareFails(t) ==
  /\ modal[t].at = "prepare"
  /\ BackToForm(t)
  /\ UNCHANGED <<chain, server, clicks, tx>>

LatestBlockhash(t) ==
  /\ modal[t].at = "blockhash"
  /\ GoesTo(t, "publishing", "simulate") \/ BackToForm(t)
  /\ UNCHANGED <<chain, server, clicks, tx>>

\* A simulation that errs, or a balance below rent and fee, is the end; one
\* that throws ("some RPCs/extensions can block simulation") is not.
Simulate(t) ==
  /\ modal[t].at = "simulate"
  /\ \/ GoesTo(t, "publishing", "send")
     \/ ~WouldSucceed(modal[t].attempt) /\ BackToForm(t)
  /\ UNCHANGED <<chain, server, clicks, tx>>

\* sendTransaction: the wallet refuses, or the node's own preflight (it is not
\* skipped); or the transaction is sent; or it is sent and the call throws.
SendTransaction(t) ==
  LET i == modal[t].attempt
  IN /\ modal[t].at = "send"
     /\ \/ /\ WouldSucceed(i)
           /\ tx' = [tx EXCEPT ![i] = "sent"]
           /\ GoesTo(t, "publishing", "confirm") \/ BackToForm(t)
        \/ BackToForm(t) /\ UNCHANGED tx
     /\ UNCHANGED <<chain, server, clicks>>

\* What confirmTransaction waits for: that the transaction was processed.  Its
\* result carries the error of one that failed, and nobody looks at it.
Confirmed(i) == tx[i] \in {"landed", "failed"}

\* isPublishing stays set: the page is left two seconds later.
ConfirmTransaction(t) ==
  /\ modal[t].at = "confirm"
  /\ Confirmed(modal[t].attempt)
  /\ GoesTo(t, "success", "none")
  /\ UNCHANGED <<chain, server, clicks, tx>>

\* The connection fails, or the block height passes lastValidBlockHeight.
ConfirmThrows(t) ==
  /\ modal[t].at = "confirm"
  /\ BackToForm(t)
  /\ UNCHANGED <<chain, server, clicks, tx>>

ConfirmExpires(t) ==
  /\ modal[t].at = "confirm" /\ tx[modal[t].attempt] = "expired"
  /\ ConfirmThrows(t)

\* The page is loaded again, by its user or by the redirect after a success.
Reload(t) ==
  /\ modal[t] # NewForm
  /\ Shows(t, NewForm)
  /\ UNCHANGED <<chain, server, clicks, tx>>

-----------------------------------------------------------------------------
(* preparePublish, in the API *)

AfterCheckRow == "row"
AfterCheck == "upload"

\* The fields, the age of createdAt and the signature are checked; a private
\* article must come with its key and ciphertext.
CheckPayload(i) ==
  /\ job[i] = "check"
  /\ \E next \in {AfterCheck, "failed"} : job' = [job EXCEPT ![i] = next]
  /\ UNCHANGED <<chain, modal, clicks, tx, stored, rows, secrets>>

Upload(i) ==
  /\ job[i] = "upload"
  /\ stored' = stored \cup {i}
  /\ job' = [job EXCEPT ![i] = "row"]
  /\ UNCHANGED <<chain, modal, clicks, tx, rows, secrets>>

\* Only a private article has a key to keep.
AfterRowReply(i) == "reply"
AfterRow(i) == IF clicks[i].isPublic THEN "reply" ELSE "secret"

\* prisma.article.upsert, with status PUBLISHED.
SaveRow(i) ==
  /\ job[i] = "row"
  /\ rows' = rows \cup {i}
  /\ job' = [job EXCEPT ![i] = AfterRow(i)]
  /\ UNCHANGED <<chain, modal, clicks, tx, stored, secrets>>

\* encryptArticleKey and prisma.articleSecret.upsert.
SaveSecret(i) ==
  /\ job[i] = "secret"
  /\ secrets' = secrets \cup {i}
  /\ job' = [job EXCEPT ![i] = "reply"]
  /\ UNCHANGED <<chain, modal, clicks, tx, stored, rows>>

\* The handler throws, or the process stops: the upload or the statement that
\* was under way may have been carried out.  Nothing is undone.
JobFails(i) ==
  /\ job[i] \in Running
  /\ job' = [job EXCEPT ![i] = "failed"]
  /\ \E done \in BOOLEAN :
       /\ stored' = IF done /\ job[i] = "upload" THEN stored \cup {i} ELSE stored
       /\ rows' = IF done /\ job[i] = "row" THEN rows \cup {i} ELSE rows
       /\ secrets' = IF done /\ job[i] = "secret" THEN secrets \cup {i} ELSE secrets
  /\ UNCHANGED <<chain, modal, clicks, tx>>

-----------------------------------------------------------------------------
(* The cluster *)

\* The transaction is executed: publish_article succeeds and the rent is paid,
\* or it is recorded as failed and changes nothing.
Execute(i) ==
  /\ tx[i] = "sent"
  /\ IF WouldSucceed(i)
     THEN /\ publish_article(clicks[i].author, Ix(i))
          /\ tx' = [tx EXCEPT ![i] = "landed"]
          /\ funds' = [funds EXCEPT ![clicks[i].author] = @ - 1]
     ELSE /\ tx' = [tx EXCEPT ![i] = "failed"]
          /\ UNCHANGED chain
  /\ UNCHANGED <<server, modal, clicks>>

\* Its blockhash is too old.
Expire(i) ==
  /\ tx[i] = "sent"
  /\ tx' = [tx EXCEPT ![i] = "expired"]
  /\ UNCHANGED <<chain, server, modal, clicks>>

-----------------------------------------------------------------------------

\* What goes on once the wallet has answered.
Handler(i) == CheckPayload(i) \/ Upload(i) \/ SaveRow(i) \/ SaveSecret(i) \/ JobFails(i)
Browser(t) == \/ PrepareReply(t) \/ PrepareFails(t) \/ LatestBlockhash(t) \/ Simulate(t)
              \/ ConfirmTransaction(t) \/ ConfirmThrows(t)
Cluster(i) == Execute(i) \/ Expire(i)

PublishNext ==
  \/ \E t \in Tabs : \/ Publish(t)
                     \/ SignMessage(t)
                     \/ SendTransaction(t)
                     \/ Browser(t)
                     \/ Reload(t)
  \/ \E i \in Attempts : Handler(i) \/ Cluster(i)

\* The API answers or its connection breaks; the RPC node answers; a
\* transaction is executed or its blockhash expires.  The wallet may keep its
\* user waiting, and the user may do nothing.  A call that does not throw is
\* not assumed to: only the step that waits for something to happen is fair.
Fairness ==
  /\ \A i \in Attempts : WF_publishVars(Handler(i)) /\ WF_publishVars(Cluster(i))
  /\ \A t \in Tabs :
       /\ WF_publishVars(PrepareReply(t))
       /\ WF_publishVars(LatestBlockhash(t))
       /\ WF_publishVars(Simulate(t))
       /\ WF_publishVars(ConfirmTransaction(t))
       /\ WF_publishVars(ConfirmExpires(t))

PublishSpec == PublishInit /\ [][PublishNext]_publishVars /\ Fairness

-----------------------------------------------------------------------------
(* Properties *)

\* What the chain registers can be read and managed: the account names an
\* upload that is on Arweave, made for the same author and content, with a row
\* in the database of the same visibility and, if private, with its key.  The
\* three are written by two programs with nothing but their order to join them.
RecordIsBacked ==
  \A address \in Addresses : accounts[address] # NoArticle =>
    \E i \in stored \cap rows :
      /\ ArweaveId[i] = accounts[address].arweave_id
      /\ <<clicks[i].author, clicks[i].content>> = address
      /\ clicks[i].isPublic = accounts[address].is_public
      /\ ~clicks[i].isPublic => i \in secrets

\* However often a wallet tries, in one tab or two, it pays for an article
\* once: a retry after a lost answer does not pay again.
RetryPaysOnce ==
  \A w \in Keys :
    funds[w] + Cardinality({h \in Hashes : accounts[<<w, h>>] # NoArticle}) = Balance[w]

\* What the author of a transaction that succeeded was promised stays so: its
\* address names the upload of this very attempt, whatever a retry or another
\* tab publishes of the same content, before or after.
LandedIsRegistered ==
  \A i \in Attempts : tx[i] = "landed" =>
    LET record == accounts[<<clicks[i].author, clicks[i].content>>]
    IN record # NoArticle /\ record.arweave_id = ArweaveId[i]

\* Once the wallet has answered a prompt, the author gets the form back with a
\* button to press, or a success, or the wallet's next prompt.
PublishEnds ==
  \A t \in Tabs :
    modal[t].at \in {"prepare", "blockhash", "simulate", "confirm"} ~>
      \/ modal[t].step = "form" /\ ~modal[t].isPublishing
      \/ modal[t].step = "success"
      \/ modal[t].at = "send"

\* As docs/E2E_TESTING.md expects of a confirmed publication ("Transaction
\* confirmed on Solana", "Verify article account exists").
SuccessMeansOnChain ==
  \A t \in Tabs : modal[t].step = "success" =>
    LET c == clicks[modal[t].attempt]
    IN accounts[<<c.author, c.content>>] # NoArticle

\* As docs/USE_CASES.md has it: metadata is saved, with status PUBLISHED, after
\* the smart contract has registered the article (steps 9 to 11 of UC03).
PublishedMeansOnChain ==
  \A i \in rows : accounts[<<clicks[i].author, clicks[i].content>>] # NoArticle

=============================================================================
