---------------------------- MODULE PrivateReader ----------------------------
(***************************************************************************)
(* Opening a private article: app/private/[articleId]/page.tsx over        *)
(* getArticleById, keyChallenge and keyClaim.                              *)
(*                                                                         *)
(* The page's effect runs with each connected account: it asks for the     *)
(* article, for a challenge, for a signature, for the key and for the      *)
(* upload.  A run that was replaced goes on, prompts and claims included;  *)
(* only its effects on the page are dropped.  Each request is made with    *)
(* the token of its moment.  What the API awaits within a request is in    *)
(* KeyDelivery; here a request is answered in one step.                    *)
(***************************************************************************)
EXTENDS Integers

CONSTANTS Readers,       \* the user's accounts
          TheAuthor,     \* the author's wallet
          ReaderRuns,    \* runs of the effect under way at a time
          Nobody,        \* no account, token, run, challenge or answer
          Stale,         \* the nonce of a run that is over
          MaxSwitches    \* bound on mounts and changes of account and token

ASSUME ReaderAssumption == /\ Nobody \notin Readers /\ Nobody \notin ReaderRuns
                           /\ Stale \notin ReaderRuns
                           /\ MaxSwitches \in Nat

VARIABLES article,     \* the row: "missing", "private" or "public"
          access,      \* AccessGrant: whether a wallet's grant is active
          keyCh,       \* keyChallenges: the run whose nonce a wallet's entry holds
          connectedAs, \* publicKey; Nobody when the page is not mounted
          tokenOf,     \* whose token is in localStorage; Nobody when it is
                       \* missing or over
          runs,        \* the runs of the effect
          open,        \* the run that has not been cancelled
          page,        \* isLoading, uiError, title, content
          switches

readVars == <<article, access, keyCh, connectedAs, tokenOf, runs, open, page, switches>>

Whom == Readers \cup {Nobody}
Requests == {"meta", "challenge", "claim", "upload"}
Replies == {200, 400, 401, 403, 404}
\* A run: where it is, with whose token its request was sent, the answer once
\* there is one, and who signed.  History: whether its challenge was replaced,
\* lost or left to expire.
Run == [wallet: Readers, at: Requests \cup {"sign"}, sentAs: Whom,
        reply: Replies \cup {Nobody}, signer: Whom, disturbed: BOOLEAN]

ASSUME NobodyAssumption == Nobody \notin Replies /\ Nobody \notin Run

ErrorKind == {"none", "access", "notfound", "unknown"}
\* History: whose run the verdict on the page is from.
Page == [isLoading: BOOLEAN, uiError: ErrorKind, title: BOOLEAN, content: BOOLEAN, told: Whom]

ReaderTypeOK ==
  /\ article \in {"missing", "private", "public"}
  /\ access \in [Readers -> BOOLEAN]
  /\ keyCh \in [Readers -> ReaderRuns \cup {Stale, Nobody}]
  /\ connectedAs \in Whom /\ tokenOf \in Whom
  /\ runs \in [ReaderRuns -> Run \cup {Nobody}]
  /\ open \in ReaderRuns \cup {Nobody}
  /\ page \in Page
  /\ switches \in 0..MaxSwitches

NewPage == [isLoading |-> TRUE, uiError |-> "none", title |-> FALSE, content |-> FALSE,
            told |-> Nobody]
ReaderInit ==
  /\ article \in {"missing", "private", "public"}
  /\ access = [w \in Readers |-> FALSE]
  /\ keyCh = [w \in Readers |-> Nobody]
  /\ connectedAs = Nobody /\ tokenOf \in Readers
  /\ runs = [r \in ReaderRuns |-> Nobody] /\ open = Nobody
  /\ page = NewPage
  /\ switches = 0

server == <<article, access, keyCh>>
tab == <<connectedAs, tokenOf, switches>>

-----------------------------------------------------------------------------
(* The effect's runs *)

Asking(run, request) == [run EXCEPT !.at = request, !.sentAs = tokenOf, !.reply = Nobody]
NewRun(w) == Asking([wallet |-> w, at |-> "meta", sentAs |-> Nobody, reply |-> Nobody,
                     signer |-> Nobody, disturbed |-> FALSE], "meta")

StartRun(w, p) ==
  \E r \in ReaderRuns :
    /\ runs[r] = Nobody
    /\ runs' = [runs EXCEPT ![r] = NewRun(w)]
    /\ open' = r
    /\ page' = [p EXCEPT !.isLoading = TRUE, !.uiError = "none"]

MountReader(w) ==
  /\ connectedAs = Nobody /\ switches < MaxSwitches
  /\ connectedAs' = w /\ switches' = switches + 1
  /\ StartRun(w, NewPage)
  /\ UNCHANGED <<server, tokenOf>>
SwitchReader(w) ==
  /\ connectedAs \notin {Nobody, w} /\ switches < MaxSwitches
  /\ connectedAs' = w /\ switches' = switches + 1
  /\ StartRun(w, page)
  /\ UNCHANGED <<server, tokenOf>>
UnmountReader ==
  /\ connectedAs # Nobody
  /\ connectedAs' = Nobody /\ open' = Nobody /\ page' = NewPage
  /\ UNCHANGED <<server, tokenOf, runs, switches>>

IsMounted(r) == connectedAs # Nobody
IsOpen(r) == open = r
Applies(r, p) == page' = IF IsOpen(r) THEN p ELSE page
\* Its nonce, if an entry still holds it, is nobody's now.
Gone(r) ==
  /\ runs' = [runs EXCEPT ![r] = Nobody]
  /\ keyCh' = [w \in Readers |-> IF keyCh[w] = r THEN Stale ELSE keyCh[w]]
  /\ UNCHANGED <<article, access, tab, open>>

\* finally: every way out of a run ends the loading.
SettledWhenShown(p) == IF p.uiError = "none" THEN [p EXCEPT !.isLoading = FALSE] ELSE p
Settled(p) == [p EXCEPT !.isLoading = FALSE]
Verdict(r, kind) ==
  /\ Applies(r, Settled([page EXCEPT !.uiError = kind, !.told = runs[r].wallet]))
  /\ Gone(r)

Answered(r, request) == runs[r] # Nobody /\ runs[r].at = request /\ runs[r].reply # Nobody
Continues(r, run, p) ==
  /\ runs' = [runs EXCEPT ![r] = run]
  /\ Applies(r, p)
  /\ UNCHANGED <<server, tab, open>>

\* An answer that is not ok: 403 is no access, 404 is not found for the article
\* only.
KindOf(request, status) == CASE status = 403 -> "access"
                             [] status = 404 /\ request = "meta" -> "notfound"
                             [] OTHER -> "unknown"
Refused(r) ==
  /\ \E request \in {"meta", "challenge", "claim"} : Answered(r, request)
  /\ runs[r].reply # 200
  /\ Verdict(r, KindOf(runs[r].at, runs[r].reply))

MetaArrives(r) ==
  /\ Answered(r, "meta") /\ runs[r].reply = 200
  /\ Continues(r, Asking(runs[r], "challenge"), [page EXCEPT !.title = TRUE])
ChallengeArrives(r) ==
  /\ Answered(r, "challenge") /\ runs[r].reply = 200
  /\ Continues(r, [runs[r] EXCEPT !.at = "sign", !.reply = Nobody], page)

\* The wallet's prompt: its account of now signs.
Signs(r) ==
  /\ runs[r] # Nobody /\ runs[r].at = "sign"
  /\ \E w \in Readers :
       /\ connectedAs # Nobody => w = connectedAs
       /\ Continues(r, [Asking(runs[r], "claim") EXCEPT
                          !.signer = w, !.disturbed = @ \/ tokenOf # runs[r].sentAs], page)
Declines(r) ==
  /\ runs[r] # Nobody /\ runs[r].at = "sign"
  /\ Verdict(r, "unknown")

ClaimArrives(r) ==
  /\ Answered(r, "claim") /\ runs[r].reply = 200
  /\ Continues(r, [NewRun(runs[r].wallet) EXCEPT !.at = "upload", !.sentAs = Nobody], page)

\* preparePublish uploads content as a string: JSON.stringify of the payload
\* when it is private.  The page looks for the payload's fields in it.
UploadedContent == "string"
HasCipher(content) == content = "object"
UploadArrives(r) ==
  /\ Answered(r, "upload")
  /\ IF HasCipher(UploadedContent)
       THEN Applies(r, Settled([page EXCEPT !.content = TRUE])) /\ Gone(r)
       ELSE Verdict(r, "unknown")
\* Everything else that throws: fetches that reject, answers that are no JSON.
Throws(r) ==
  /\ runs[r] # Nobody
  /\ runs[r].at \in Requests
  /\ runs[r].at = "upload" => runs[r].reply = Nobody
  /\ Verdict(r, "unknown")

-----------------------------------------------------------------------------
(* The API and Arweave *)

Waiting(r, request) == runs[r] # Nobody /\ runs[r].at = request /\ runs[r].reply = Nobody
Reply(r, status) == runs' = [runs EXCEPT ![r].reply = status]
serverRest == <<article, access, tab, open, page>>

\* requireAuth refuses a request without a token, or with one that is over.
NoAuth(r) ==
  /\ \E request \in {"meta", "challenge", "claim"} : Waiting(r, request)
  /\ runs[r].sentAs = Nobody
  /\ Reply(r, 401)
  /\ UNCHANGED <<keyCh, serverRest>>

GetArticleById(r) ==
  /\ Waiting(r, "meta") /\ runs[r].sentAs # Nobody
  /\ Reply(r, CASE article = "missing" -> 404
                [] article = "public" \/ runs[r].sentAs = TheAuthor -> 200
                [] OTHER -> IF access[runs[r].sentAs] THEN 200 ELSE 403)
  /\ UNCHANGED <<keyCh, serverRest>>

\* keyChallenge: the new nonce takes the place of the one before.
KeyChallenge(r) ==
  /\ Waiting(r, "challenge") /\ runs[r].sentAs # Nobody
  /\ LET w == runs[r].sentAs
     IN IF ~access[w] THEN Reply(r, 403) /\ UNCHANGED keyCh
        ELSE /\ keyCh' = [keyCh EXCEPT ![w] = r]
             /\ runs' = [s \in ReaderRuns |->
                  IF s = r THEN [runs[s] EXCEPT !.reply = 200]
                  ELSE IF keyCh[w] = s THEN [runs[s] EXCEPT !.disturbed = TRUE]
                  ELSE runs[s]]
  /\ UNCHANGED serverRest

\* keyClaim: the message is rebuilt with the token's wallet, and verified with
\* its key; the challenge is spent by a good signature, or when it has expired.
GoodSignature(r) == runs[r].wallet = runs[r].sentAs /\ runs[r].signer = runs[r].sentAs
Spent(r) == [keyCh EXCEPT ![runs[r].sentAs] = Nobody]
AfterBadNonceSpent(r) == Spent(r)
AfterBadNonce(r) == keyCh
KeyClaim(r) ==
  /\ Waiting(r, "claim") /\ runs[r].sentAs # Nobody
  /\ CASE keyCh[runs[r].sentAs] = Nobody -> Reply(r, 400) /\ UNCHANGED keyCh
       [] keyCh[runs[r].sentAs] \notin {r, Nobody} ->
            Reply(r, 400) /\ keyCh' = AfterBadNonce(r)
       [] OTHER -> IF GoodSignature(r)
                     THEN /\ keyCh' = Spent(r)
                          /\ IF access[runs[r].sentAs] THEN \E s \in {200, 404} : Reply(r, s)
                             ELSE Reply(r, 403)
                     ELSE Reply(r, 401) /\ UNCHANGED keyCh
  /\ UNCHANGED serverRest

\* arweave.net serves the upload; that it cannot is one of Throws.
Serves(r) ==
  /\ Waiting(r, "upload")
  /\ Reply(r, 200)
  /\ UNCHANGED <<keyCh, serverRest>>

\* Challenges expire (and are deleted when used), or are lost with the process.
Disturb(lost) == runs' = [r \in ReaderRuns |->
                   IF runs[r] # Nobody /\ \E w \in lost : keyCh[w] = r
                     THEN [runs[r] EXCEPT !.disturbed = TRUE] ELSE runs[r]]
Loses(lost) ==
  /\ \E w \in lost : keyCh[w] # Nobody
  /\ Disturb(lost)
  /\ keyCh' = [w \in Readers |-> IF w \in lost THEN Nobody ELSE keyCh[w]]
  /\ UNCHANGED serverRest

\* The author grants and revokes, to others; the token is renewed, replaced or cleared.
Access(w) == /\ w # TheAuthor
             /\ access' = [access EXCEPT ![w] = ~@]
             /\ UNCHANGED <<article, keyCh, tab, runs, open, page>>
Token(w) == /\ switches < MaxSwitches /\ switches' = switches + 1
            /\ tokenOf' = w
            /\ UNCHANGED <<server, connectedAs, runs, open, page>>

-----------------------------------------------------------------------------

ApiStep(r) == GetArticleById(r) \/ KeyChallenge(r) \/ KeyClaim(r) \/ NoAuth(r) \/ Serves(r)
PageStep(r) == \/ Refused(r) \/ MetaArrives(r) \/ ChallengeArrives(r) \/ ClaimArrives(r)
               \/ UploadArrives(r) \/ Throws(r)
Prompt(r) == Signs(r) \/ Declines(r)

ReaderNext ==
  \/ \E w \in Readers : MountReader(w) \/ SwitchReader(w) \/ Access(w)
  \/ \E w \in Whom : Token(w)
  \/ UnmountReader
  \/ \E r \in ReaderRuns : ApiStep(r) \/ PageStep(r) \/ Prompt(r)
  \/ \E w \in Readers : Loses({w})
  \/ Loses(Readers)

-----------------------------------------------------------------------------
(* Properties *)

\* What the page tells the user about access is about the account that is
\* connected: a run for the account before never has the last word.
VerdictIsForThisAccount ==
  connectedAs # Nobody /\ page.uiError # "none" => page.told = connectedAs

\* A reader who signs for his own challenge gets a yes or a reason that is his
\* (a grant that was revoked, a key that is not there): the page and the API
\* agree on the message, and the claims of other runs, wrong as they are, never
\* use his challenge up.
HonestClaimPasses ==
  \A r \in ReaderRuns :
    /\ runs[r] # Nobody /\ runs[r].at = "claim" /\ ~runs[r].disturbed
    /\ runs[r].wallet = runs[r].sentAs /\ runs[r].signer = runs[r].sentAs
    => runs[r].reply \notin {400, 401}

\* The page comes to rest, unless it waits for the wallet's prompt or is left.
PageSettles ==
  page.isLoading ~> \/ ~page.isLoading \/ connectedAs = Nobody
                    \/ open # Nobody /\ runs[open] # Nobody /\ runs[open].at = "sign"

\* What the page is for: the key has come and the upload has come, so the
\* article is shown.
ArrivedIsShown ==
  [][\A r \in ReaderRuns :
       /\ article = "private" /\ Answered(r, "upload") /\ runs[r].reply = 200
       /\ IsOpen(r) /\ runs'[r] = Nobody /\ connectedAs' # Nobody
       => page'.content]_readVars
=============================================================================
