------------------------------ MODULE Journal ------------------------------
(***************************************************************************)
(* The public journal (app/journal/page.tsx): its list, the modal that     *)
(* shows an article (ArticleViewModal.tsx) and the verification of one,    *)
(* whose verdict comes as a toast; over the API of Reading.                *)
(*                                                                         *)
(* The modal is mounted while an article is open and keeps its state as    *)
(* long.  Its effect runs again when retryCount changes, and a run that    *)
(* was cancelled, or whose modal is gone, changes nothing: only the        *)
(* current run is kept.  A verification goes on whatever becomes of the    *)
(* page, with the modal or without.                                        *)
(***************************************************************************)
EXTENDS Reading, Toasts, SequencesExt

CONSTANTS Checks,      \* verifications under way at a time
          Nobody,      \* no filter by author
          Closed,      \* no article is open
          Idle,        \* a verification that is not under way
          Intuitions,  \* the hashes of the intuitions authors register
          Loading, LoadFailed,  \* the list before it is there
          MaxRetry     \* bound on retryCount

ASSUME JournalAssumption ==
  /\ Intuitions \subseteq Hashes /\ Messages = {"success", "error"}
  /\ MaxRetry \in Nat

VARIABLES list,      \* the journal's items: addresses, or Loading or LoadFailed
          view,      \* the open article and its modal
          check      \* Idle or the request of each verification

journalVars == <<list, view, check>>
vars == <<readingVars, toastVars, journalVars>>

Filters == [author: Keys \cup {Nobody}, sort: {"newest", "oldest"}]
\* content, error and retryCount are the modal's; request is what its current
\* run of the effect waits for, and isLoading is TRUE exactly while it waits.
View == [article: Addresses, content: BOOLEAN, error: BOOLEAN, isLoading: BOOLEAN,
         retryCount: 0..MaxRetry, request: Request]

JournalTypeOK ==
  /\ accounts \in [Addresses -> Article \cup {NoArticle}] /\ turned \subseteq Addresses
  /\ ToastsTypeOK
  /\ list \in {Loading, LoadFailed} \cup Seq(Addresses)
  /\ view = Closed \/ view \in View
  /\ check \in [Checks -> Request \cup {Idle}]

Init ==
  /\ ProgramInit /\ turned = {}
  /\ ToastsInit
  /\ list = Loading
  /\ view = Closed
  /\ check = [c \in Checks |-> Idle]

-----------------------------------------------------------------------------
(* The list *)

\* The page is opened, or opened again.  Its modal is gone; a verification is not.
Mount ==
  /\ list' = Loading
  /\ view' = Closed
  /\ UNCHANGED <<readingVars, toastVars, check>>

\* The answer to page=1&limit=100; what happens on chain between the API's
\* reading and this is no different from what happens after it.
ListArrives ==
  /\ list = Loading
  /\ list' \in {getArticles(1, 100), LoadFailed}
  /\ UNCHANGED <<readingVars, toastVars, view, check>>

\* The cards under filter f (SearchFilter): of one author or of all, oldest
\* first when that is chosen.
Filtered(f) ==
  IF list \in {Loading, LoadFailed} THEN <<>>
  ELSE LET kept == Only(list, {i \in DOMAIN list : f.author \in {Nobody, list[i][1]}})
       IN IF f.sort = "newest" THEN kept ELSE Reverse(kept)

\* The reader may choose any filter before a click, and it decides nothing else.
Cards == UNION {Range(Filtered(f)) : f \in Filters}

-----------------------------------------------------------------------------
(* ArticleViewModal *)

\* The upload that the item names.  A record is permanent, and the item with it.
UploadOf(a) == accounts[a].arweave_id

\* The effect: a new request, the error taken away, the content left.
Load(v) == [v EXCEPT !.isLoading = TRUE, !.error = FALSE, !.request = NewRequest(@.upload)]

Open(a) ==
  /\ view = Closed /\ a \in Cards
  /\ view' = [article |-> a, content |-> FALSE, error |-> FALSE, isLoading |-> TRUE,
              retryCount |-> 0, request |-> NewRequest(UploadOf(a))]
  /\ UNCHANGED <<readingVars, toastVars, list, check>>

\* The API works on the request: one try of a gateway.
ContentTry ==
  /\ view # Closed /\ view.isLoading /\ view.request.at = "fetch"
  /\ \E answer \in Answers :
       view' = [view EXCEPT !.request = ContentAnswered(view.request, answer)]
  /\ UNCHANGED <<readingVars, toastVars, list, check>>

\* The article arrived.  The reset of retryCount is a change unless it is zero,
\* and the effect runs again for it.
AfterRetry(v) == v.retryCount # 0
CountsOn(v) == [v EXCEPT !.retryCount = IF @ < MaxRetry THEN @ + 1 ELSE @]
Reset(v) == [v EXCEPT !.retryCount = 0]
Shown(v) == LET arrived == [v EXCEPT !.content = TRUE, !.isLoading = FALSE]
            IN IF AfterRetry(v) THEN Load(Reset(arrived)) ELSE arrived
Failed(v) == [v EXCEPT !.error = TRUE, !.isLoading = FALSE]

ContentArrives ==
  /\ view # Closed /\ view.isLoading /\ view.request.at = "reply"
  /\ view' = IF view.request.reply = "article" THEN Shown(view) ELSE Failed(view)
  /\ UNCHANGED <<readingVars, toastVars, list, check>>

\* fetch rejects, whatever the API does.
ContentLost ==
  /\ view # Closed /\ view.isLoading
  /\ view' = Failed(view)
  /\ UNCHANGED <<readingVars, toastVars, list, check>>

\* The Retry button, shown with the error.
Retry ==
  /\ view # Closed /\ view.error /\ ~view.isLoading /\ view.retryCount < MaxRetry
  /\ view' = Load([view EXCEPT !.retryCount = @ + 1])
  /\ UNCHANGED <<readingVars, toastVars, list, check>>

CloseView ==
  /\ view # Closed
  /\ view' = Closed
  /\ UNCHANGED <<readingVars, toastVars, list, check>>

-----------------------------------------------------------------------------
(* Verification, from a card or from the modal *)

Verify(c) ==
  /\ check[c] = Idle
  /\ \E a \in IF view = Closed THEN Cards ELSE {view.article} :
       check' = [check EXCEPT ![c] = NewRequest(UploadOf(a))]
  /\ UNCHANGED <<readingVars, toastVars, list, view>>

\* The endpoint is public: any upload can be asked about.
VerifyAny(c) ==
  /\ check[c] = Idle
  /\ \E u \in Uploads : check' = [check EXCEPT ![c] = NewRequest(u)]
  /\ UNCHANGED <<readingVars, toastVars, list, view>>

VerifyTry(c) ==
  /\ check[c] # Idle /\ check[c].at = "fetch"
  /\ \E answer \in Answers : check' = [check EXCEPT ![c] = VerifyAnswered(@, answer)]
  /\ UNCHANGED <<readingVars, toastVars, list, view>>

\* The record is read and compared, or the RPC node fails.
VerifyCompare(c) ==
  /\ check[c] # Idle /\ check[c].at = "chain"
  /\ \E reply \in {Verdict(check[c].upload), "error"} :
       check' = [check EXCEPT ![c] = Replied(@, reply)]
  /\ UNCHANGED <<readingVars, toastVars, list, view>>

\* onVerify: a toast whatever the reply.
Announced(reply) == IF reply = "verified" THEN "success" ELSE "error"
VerifyArrives(c) ==
  /\ check[c] # Idle /\ check[c].at = "reply"
  /\ toast(Announced(check[c].reply))
  /\ check' = [check EXCEPT ![c] = Idle]
  /\ UNCHANGED <<readingVars, list, view>>

\* fetch rejects, whatever the API does.
SwallowLoss == UNCHANGED toastVars
AnnounceLoss == toast("error")
VerifyLost(c) ==
  /\ check[c] # Idle
  /\ AnnounceLoss
  /\ check' = [check EXCEPT ![c] = Idle]
  /\ UNCHANGED <<readingVars, list, view>>

-----------------------------------------------------------------------------

ChainStep ==
  /\ \/ \E u \in Uploads, intuition \in Intuitions : publishArticle(u, intuition)
     \/ \E a \in Addresses, is_public \in BOOLEAN : updateVisibility(a, is_public)
  /\ UNCHANGED <<toastVars, journalVars>>
ToastTimer(id) == TimerFires(id) /\ UNCHANGED <<readingVars, journalVars>>
ToastClose(id) == Close(id) /\ UNCHANGED <<readingVars, journalVars>>
ViewProgress == ContentTry \/ ContentArrives
CheckProgress(c) == VerifyTry(c) \/ VerifyCompare(c) \/ VerifyArrives(c)

Next ==
  \/ ChainStep
  \/ \E id \in Ids : ToastTimer(id) \/ ToastClose(id)
  \/ Mount \/ ListArrives
  \/ \E a \in Addresses : Open(a)
  \/ ViewProgress \/ ContentLost \/ Retry \/ CloseView
  \/ \E c \in Checks : Verify(c) \/ VerifyAny(c) \/ CheckProgress(c) \/ VerifyLost(c)

\* A gateway answers, or the ten seconds for its headers or undici's limit for
\* a body run out; the API's replies come or the fetch rejects; timers fire.
\* What a reader does is never required, nor that a list arrives.
Fairness == /\ WF_vars(ViewProgress)
            /\ \A c \in Checks : WF_vars(CheckProgress(c))
            /\ \A id \in Ids : WF_vars(ToastTimer(id))

Spec == Init /\ [][Next]_vars /\ Fairness

-----------------------------------------------------------------------------
(* Properties *)

\* Whoever is told "verified" can find the record: the account at the author
\* and content the upload claims names this very upload and its declared
\* intuition.  Still true when the answer arrives, whatever has been turned
\* or registered since the API compared.
VerifiedIsRecorded ==
  \A c \in Checks : check[c] # Idle /\ check[c].reply = "verified" =>
    LET u == check[c].upload
        a == accounts[AddressOf(u)]
    IN a # NoArticle /\ a.arweave_id = u /\ a.intuition_hash = Body[u].intuition

\* A public upload that was registered as it is, intuition and all, is found
\* diverging only if its author has turned is_public.
OnlyTurningBreaksIt ==
  \A c \in Checks : check[c] # Idle /\ check[c].reply = "diverges" =>
    LET u == check[c].upload
        a == accounts[AddressOf(u)]
    IN a.arweave_id = u /\ a.intuition_hash = Body[u].intuition
         => AddressOf(u) \in turned

\* "not found after trying multiple gateways" is said only after every gateway
\* was given every try.
GivesUpAfterAll ==
  /\ \A c \in Checks : check[c] # Idle /\ check[c].reply = "gave up" => TriedAll(check[c].fetch)
  /\ view # Closed /\ view.request.reply = "gave up" => TriedAll(view.request.fetch)

\* The modal does not load for ever, and does not load again for ever after
\* the reset of retryCount.
LoadingEnds == (view # Closed /\ view.isLoading) ~> (view = Closed \/ ~view.isLoading)

\* A reader who asked for a verification is told something, also when the
\* modal was closed or the page left meanwhile.
VerdictReachesReader == \A c \in Checks : check[c] # Idle ~> toasts # <<>>

\* No toast stays: each has a timer that finds it.
ToastsGoAway == \A id \in Ids : id \in IdsOf(toasts) ~> id \notin IdsOf(toasts)
=============================================================================
