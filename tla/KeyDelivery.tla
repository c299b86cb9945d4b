----------------------------- MODULE KeyDelivery -----------------------------
(***************************************************************************)
(* The wallet grants of a private article and the delivery of its key:     *)
(* apps/api/src/controllers/access-control.controller.ts, "Private B".     *)
(*                                                                         *)
(* The API is one event loop.  A handler runs without interruption from    *)
(* one await to the next, so an action here is a stretch between awaits,   *)
(* and requests interleave at the awaits.  A query is two steps where it   *)
(* matters: the database answers (the row is read), and later the handler  *)
(* resumes with that answer.  Grants are rows of PostgreSQL and survive a  *)
(* restart; challenges live in a Map of the process and do not.            *)
(***************************************************************************)
EXTENDS Integers, FiniteSets

CONSTANTS Articles,      \* ids with a row in Article
          Wallets,       \* wallets that may sign in
          Readers,       \* the wallets that grants are made for
          Owner,         \* Article.authorWallet
          Keyed,         \* the articles with a row in ArticleSecret
          Nobody,        \* the ownerWallet of a grant that has no row
          Requests,      \* slots for requests in progress
          Terms,         \* what a client sends as expiresIn
          Duration,      \* the time a term stands for, for those that end
          ChallengeTTL,  \* life of a challenge: 5 minutes
          MaxTime,       \* bound on the clock
          MaxNonces      \* bound on the challenges issued

ASSUME ArticlesAssumption == /\ Owner \in [Articles -> Wallets]
                             /\ Readers \subseteq Wallets
                             /\ Keyed \subseteq Articles
                             /\ Nobody \notin Wallets
ASSUME TimesAssumption == /\ DOMAIN Duration \subseteq Terms
                          /\ Duration \in [DOMAIN Duration -> Nat]
                          /\ ChallengeTTL \in Nat
                          /\ MaxTime \in Nat
                          /\ MaxNonces \in Nat

VARIABLES now,         \* Date.now()
          grants,      \* the AccessGrant rows, by (articleId, viewerWallet)
          challenges,  \* the Map keyChallenges
          req,         \* what the handler of each request has in its locals
          lastNonce,   \* the nonces issued so far: 1..lastNonce
          issued,      \* history: every challenge ever issued
          admitted,    \* history: claims that passed the nonce and signature
          delivered    \* history: <<nonce, pair>>s a key was sent for

vars == <<now, grants, challenges, req, lastNonce, issued, admitted, delivered>>
history == <<lastNonce, issued, admitted, delivered>>

-----------------------------------------------------------------------------

Pairs == Articles \X Readers
Nonces == 1..MaxNonces

Never == -1                        \* null as an expiresAt
NoGrant == [status |-> "none", owner |-> Nobody, expires |-> Never]
NoChallenge == [nonce |-> 0, until |-> 0]

Grant == [status: {"none", "granted", "revoked"},
          owner: Wallets \cup {Nobody},
          expires: Nat \cup {Never}]
Challenge == [nonce: Nat, until: Nat]

Stages == {"idle", "grantUpsert", "revokeLookup", "revokeUpdate",
           "challengeLookup", "challengeReply",
           "claimLookup", "claimRecheck", "claimSecret"}

\* The locals of a handler: the caller of the JWT, the pair it acts on, the
\* expiresAt it computed, the grant row it read and when, the nonce it took.
Request == [stage: Stages, caller: Wallets \cup {Nobody},
            pair: Pairs \cup {<<>>}, expires: Nat \cup {Never},
            seen: Grant, readAt: Nat, nonce: Nat]
Locals(stage, w, p, e, n) ==
  [stage |-> stage, caller |-> w, pair |-> p, expires |-> e,
   seen |-> NoGrant, readAt |-> 0, nonce |-> n]
Idle == Locals("idle", Nobody, <<>>, Never, 0)

\* `new Date(now + ...)` for the three terms that end; "unlimited", and by the
\* default branch of the switch any other string, is null.
ExpirationInThePast(term) == IF term \in DOMAIN Duration THEN now - Duration[term]
                                                          ELSE Never
Expiration(term) == IF term \in DOMAIN Duration THEN now + Duration[term]
                                                ELSE Never

\* The three 403s of keyChallenge and keyClaim: no grant, revoked, expired.
PassesIgnoringRevocation(g, t) ==
  /\ g.status # "none"
  /\ ~(g.expires # Never /\ g.expires <= t)
Passes(g, t) ==
  /\ g.status # "none"
  /\ g.status # "revoked"
  /\ ~(g.expires # Never /\ g.expires <= t)

Becomes(r, rec) == req' = [req EXCEPT ![r] = rec]
Ends(r) == Becomes(r, Idle)

TypeOK ==
  /\ now \in 0..MaxTime
  /\ grants \in [Pairs -> Grant]
  /\ challenges \in [Pairs -> Challenge]
  /\ req \in [Requests -> Request]
  /\ \A r \in Requests : req[r].stage # "idle" => req[r].pair \in Pairs
  /\ lastNonce \in 0..MaxNonces
  /\ issued \subseteq [nonce: Nonces, pair: Pairs, until: Nat]
  /\ admitted \subseteq [nonce: Nat, pair: Pairs, by: Requests]
  /\ delivered \subseteq Nat \X Pairs

Init ==
  /\ now = 0
  /\ grants = [p \in Pairs |-> NoGrant]
  /\ challenges = [p \in Pairs |-> NoChallenge]
  /\ req = [r \in Requests |-> Idle]
  /\ lastNonce = 0
  /\ issued = {}
  /\ admitted = {}
  /\ delivered = {}

-----------------------------------------------------------------------------
(* createGrant *)

\* Up to the upsert: expiresAt is computed before the awaits, then the article
\* is looked up (rows of Article do not change) and must be the caller's.
CreateGrantCall(r) ==
  /\ req[r].stage = "idle"
  /\ \E w \in Wallets, p \in Pairs, term \in Terms :
       /\ Owner[p[1]] = w
       /\ Becomes(r, Locals("grantUpsert", w, p, Expiration(term), 0))
  /\ UNCHANGED <<now, grants, challenges, history>>

\* The upsert: one statement, which also clears revokedAt.
CreateGrantUpsert(r) ==
  /\ req[r].stage = "grantUpsert"
  /\ grants' = [grants EXCEPT ![req[r].pair] =
                  [status |-> "granted", owner |-> req[r].caller,
                   expires |-> req[r].expires]]
  /\ Ends(r)
  /\ UNCHANGED <<now, challenges, history>>

-----------------------------------------------------------------------------
(* revokeGrant *)

RevokeGrantCall(r) ==
  /\ req[r].stage = "idle"
  /\ \E w \in Wallets, p \in Pairs :
       Becomes(r, Locals("revokeLookup", w, p, Never, 0))
  /\ UNCHANGED <<now, grants, challenges, history>>

\* The 404 of a grant with no row, the 403 of a caller who is not its owner.
MayRevokeAnyGrant(g, caller) == g.status # "none"
MayRevoke(g, caller) == g.status # "none" /\ g.owner = caller

\* findUnique and the checks on its row; past them, the update is issued.
RevokeGrantLookup(r) ==
  /\ req[r].stage = "revokeLookup"
  /\ IF MayRevoke(grants[req[r].pair], req[r].caller)
     THEN Becomes(r, [req[r] EXCEPT !.stage = "revokeUpdate"])
     ELSE Ends(r)
  /\ UNCHANGED <<now, grants, challenges, history>>

\* The update, by the id of the row found: it does not look at it again.
RevokeGrantUpdate(r) ==
  /\ req[r].stage = "revokeUpdate"
  /\ grants' = [grants EXCEPT ![req[r].pair].status = "revoked"]
  /\ Ends(r)
  /\ UNCHANGED <<now, challenges, history>>

-----------------------------------------------------------------------------
(* keyChallenge *)

\* The bound on nonces is taken here, so that no handler under way is stuck at it.
KeyChallengeCall(r) ==
  /\ req[r].stage = "idle"
  /\ lastNonce + Cardinality({s \in Requests : req[s].stage \in
                   {"challengeLookup", "challengeReply"}}) < MaxNonces
  /\ \E p \in Pairs :
       Becomes(r, Locals("challengeLookup", p[2], p, Never, 0))
  /\ UNCHANGED <<now, grants, challenges, history>>

\* The database answers findUnique.
KeyChallengeLookup(r) ==
  /\ req[r].stage = "challengeLookup"
  /\ Becomes(r, [req[r] EXCEPT !.stage = "challengeReply",
                               !.seen = grants[req[r].pair]])
  /\ UNCHANGED <<now, grants, challenges, history>>

\* The handler resumes: the checks on the row it was given, then a random
\* nonce (here the next number) replaces the challenge of the pair.
KeyChallengeReply(r) ==
  /\ req[r].stage = "challengeReply"
  /\ Ends(r)
  /\ IF Passes(req[r].seen, now)
     THEN LET p == req[r].pair
              n == lastNonce + 1
              until == now + ChallengeTTL
          IN /\ n \in Nonces
             /\ lastNonce' = n
             /\ challenges' = [challenges EXCEPT ![p] = [nonce |-> n, until |-> until]]
             /\ issued' = issued \cup {[nonce |-> n, pair |-> p, until |-> until]}
     ELSE UNCHANGED <<challenges, lastNonce, issued>>
  /\ UNCHANGED <<now, grants, admitted, delivered>>

-----------------------------------------------------------------------------
(* keyClaim *)

\* `ch.expiresAt < Date.now()`: a challenge is good up to and at its expiresAt.
Stale(ch) == ch.until < now

\* What a claim must show: the nonce of the challenge (signed by the viewer).
AnswersAny(ch, n) == TRUE
Answers(ch, n) == ch.nonce = n

\* keyChallenges.delete
DropNothing(p) == challenges
Drop(p) == [challenges EXCEPT ![p] = NoChallenge]

\* Up to its first await a claim runs alone: it finds the challenge of its
\* pair, compares the nonce, verifies the wallet's signature over wallet,
\* article and nonce, and takes the challenge out of the Map.  n is any nonce
\* ever issued: claims come late, and twice.  A claim with no challenge,
\* another nonce or a bad signature is refused and changes nothing.
KeyClaimCall(r) ==
  /\ req[r].stage = "idle"
  /\ \E p \in Pairs, n \in 1..lastNonce :
       /\ challenges[p] # NoChallenge
       /\ ~Stale(challenges[p])
       /\ Answers(challenges[p], n)
       /\ challenges' = Drop(p)
       /\ admitted' = admitted \cup {[nonce |-> n, pair |-> p, by |-> r]}
       /\ Becomes(r, Locals("claimLookup", p[2], p, Never, n))
  /\ UNCHANGED <<now, grants, lastNonce, issued, delivered>>

\* A claim that finds its challenge expired deletes it and is refused.
KeyClaimExpired ==
  /\ \E p \in Pairs :
       /\ challenges[p] # NoChallenge
       /\ Stale(challenges[p])
       /\ challenges' = Drop(p)
  /\ UNCHANGED <<now, grants, req, history>>

\* The database answers the second findUnique on the grant.
KeyClaimLookup(r) ==
  /\ req[r].stage = "claimLookup"
  /\ Becomes(r, [req[r] EXCEPT !.stage = "claimRecheck",
                               !.seen = grants[req[r].pair], !.readAt = now])
  /\ UNCHANGED <<now, grants, challenges, history>>

\* The handler resumes and checks the row it was given.
KeyClaimRecheck(r) ==
  /\ req[r].stage = "claimRecheck"
  /\ IF Passes(req[r].seen, now)
     THEN Becomes(r, [req[r] EXCEPT !.stage = "claimSecret"])
     ELSE Ends(r)
  /\ UNCHANGED <<now, grants, challenges, history>>

\* The article's secret is read (404 without one), decrypted and sent.
KeyClaimSecret(r) ==
  /\ req[r].stage = "claimSecret"
  /\ delivered' = IF req[r].pair[1] \in Keyed
                  THEN delivered \cup {<<req[r].nonce, req[r].pair>>}
                  ELSE delivered
  /\ Ends(r)
  /\ UNCHANGED <<now, grants, challenges, lastNonce, issued, admitted>>

-----------------------------------------------------------------------------
(* The process and its database *)

\* A query rejects, or decryptArticleKey throws: asyncHandler passes the error
\* on and the request is answered with a 500.
QueryFails(r) ==
  /\ req[r].stage \in Stages \ {"idle"}
  /\ Ends(r)
  /\ UNCHANGED <<now, grants, challenges, history>>

\* The process restarts: the Map and the handlers are gone.  A statement that
\* was already sent may still be carried out by the database.
Restart ==
  /\ \E sent \in SUBSET {r \in Requests :
                         req[r].stage \in {"grantUpsert", "revokeUpdate"}} :
       req' = [r \in Requests |-> IF r \in sent THEN req[r] ELSE Idle]
  /\ challenges' = [p \in Pairs |-> NoChallenge]
  /\ UNCHANGED <<now, grants, history>>

Tick ==
  /\ now < MaxTime
  /\ now' = now + 1
  /\ UNCHANGED <<grants, challenges, req, history>>

\* The steps of a handler that has begun.
Handle(r) ==
  \/ CreateGrantUpsert(r)
  \/ RevokeGrantLookup(r)
  \/ RevokeGrantUpdate(r)
  \/ KeyChallengeLookup(r)
  \/ KeyChallengeReply(r)
  \/ KeyClaimLookup(r)
  \/ KeyClaimRecheck(r)
  \/ KeyClaimSecret(r)
  \/ QueryFails(r)

Next ==
  \/ \E r \in Requests :
       \/ CreateGrantCall(r)
       \/ RevokeGrantCall(r)
       \/ KeyChallengeCall(r)
       \/ KeyClaimCall(r)
       \/ Handle(r)
  \/ KeyClaimExpired
  \/ Restart
  \/ Tick

Spec == Init /\ [][Next]_vars

-----------------------------------------------------------------------------
(* Properties *)

\* A nonce gets at most one claim past the signature check, whatever the order
\* of challenges, claims, failures and restarts (keyClaim consumes the
\* challenge before its first await).
NonceServesOneClaim ==
  \A x, y \in admitted : x.nonce = y.nonce => x = y

\* The claim that is let through answers the newest challenge issued to this
\* article and this wallet, and within the life of that challenge.
ClaimAnswersLatestChallenge ==
  [][\A x \in admitted' \ admitted :
       \E i \in issued :
         /\ i.nonce = x.nonce /\ i.pair = x.pair /\ now <= i.until
         /\ \A j \in issued : j.pair = x.pair => j.nonce <= i.nonce]_vars

\* A grant changes only by a request of the author of its article, although
\* revokeGrant trusts the ownerWallet of the grant's row and never reads the
\* article.
OwnerControlsGrants ==
  [][\A p \in Pairs : grants'[p] # grants[p] =>
       \E r \in Requests : req[r].caller = Owner[p[1]] /\ req'[r] # req[r]]_vars

-----------------------------------------------------------------------------
(* What is promised, and how this state stands for the promise's *)

Opens(g, t) == g.status = "granted" /\ (g.expires = Never \/ t < g.expires)

\* A claim has witnessed access once the database answered with a row that
\* opened at the time of the answer.
ClaimOf(q) ==
  LET as(stage) == [stage |-> stage, pair |-> q.pair, nonce |-> q.nonce]
  IN CASE q.stage = "claimLookup" -> as("begun")
       [] q.stage \in {"claimRecheck", "claimSecret"} ->
            IF Opens(q.seen, q.readAt) THEN as("witnessed") ELSE as("begun")
       [] OTHER -> [stage |-> "none", pair |-> <<>>, nonce |-> 0]

KP == INSTANCE KeyPromise WITH
        access <- [p \in Pairs |-> Opens(grants[p], now)],
        claim <- [r \in Requests |-> ClaimOf(req[r])],
        spent <- {x.nonce : x \in admitted},
        handed <- delivered

\* The endpoints deliver a key only for a claim that saw access open, and take
\* a nonce once: they implement KeyPromise.
Promise == KP!Spec

=============================================================================
