------------------------------ MODULE WalletAuth ------------------------------
(***************************************************************************)
(* Signing in with a wallet: the API's challenge and verify                *)
(* (apps/api/src/controllers/auth.controller.ts) and the browser's two     *)
(* ways to them, AuthGate.tsx around every page and refreshAuthToken of    *)
(* lib/auth/api.ts for an AI request that was refused.                     *)
(*                                                                         *)
(* One browser tab, one API process.  The JWT is kept in localStorage      *)
(* under one key, whoever it is for.  A sign-in asks for a challenge, has  *)
(* the wallet sign it and sends the signature; the user may change the     *)
(* wallet's account or the page between any two of these.                  *)
(***************************************************************************)
EXTENDS Integers

CONSTANTS Wallets,       \* the accounts of the user's wallet
          NoWallet,      \* none is connected
          ChallengeTTL,  \* life of a challenge: 5 minutes
          TokenTTL,      \* life of a JWT: 2 hours
          MaxTime,       \* bound on the clock
          MaxNonces      \* bound on the challenges issued

ASSUME AuthAssumption == /\ NoWallet \notin Wallets
                         /\ {ChallengeTTL, TokenTTL, MaxTime, MaxNonces} \subseteq Nat

VARIABLES now,         \* Date.now()
          challenges,  \* the API's Map: wallet -> challenge
          wallet,      \* publicKey of the wallet adapter
          page,        \* "public" for / and /journal, "private" for the others
          ready,       \* AuthGate's state: its children are shown
          stored,      \* localStorage['aurora-auth-token']
          flow,        \* the sign-in of AuthGate and that of refreshAuthToken
          sent,        \* the verify requests sent: they may come late, or twice
          lastNonce,   \* the nonces issued so far: 1..lastNonce
          issued,      \* history: every challenge issued
          tokens       \* history: every JWT issued, and the nonce it was issued for

authVars == <<now, challenges, wallet, page, ready, stored, flow, sent, lastNonce,
              issued, tokens>>

-----------------------------------------------------------------------------

Nonces == 1..MaxNonces
NoChallenge == [nonce |-> 0, until |-> 0]
NoToken == [sub |-> NoWallet, until |-> 0]

\* authenticate of AuthGate, which isSigningIn admits once at a time, and
\* refreshAuthToken.
Flows == {"gate", "refresh"}

\* at: what the flow awaits.  as: the wallet it began with.  reports: its run
\* of the effect has not been cancelled, so that setReady will be called.
Flow == [at: {"idle", "challenge", "sign", "verify"},
         as: Wallets \cup {NoWallet}, nonce: Nat, reports: BOOLEAN]
Begun(w, reports) == [at |-> "challenge", as |-> w, nonce |-> 0, reports |-> reports]
NoFlow == [at |-> "idle", as |-> NoWallet, nonce |-> 0, reports |-> FALSE]

\* The body of a verify request; signer is the account that signed.
Answer == [as: Wallets, nonce: Nonces, signer: Wallets]

isSigningIn == flow["gate"].at # "idle"

AuthTypeOK ==
  /\ now \in 0..MaxTime
  /\ challenges \in [Wallets -> [nonce: Nat, until: Nat]]
  /\ wallet \in Wallets \cup {NoWallet}
  /\ page \in {"public", "private"} /\ ready \in BOOLEAN
  /\ stored \in [sub: Wallets, until: Nat] \cup {NoToken}
  /\ flow \in [Flows -> Flow]
  /\ \A f \in Flows : flow[f].at # "idle" => flow[f].as \in Wallets
  /\ sent \subseteq Answer
  /\ lastNonce \in 0..MaxNonces
  /\ issued \subseteq [nonce: Nonces, wallet: Wallets, until: Nat]
  /\ tokens \subseteq [nonce: Nonces, sub: Wallets, until: Nat]

AuthInit ==
  /\ now = 0
  /\ challenges = [w \in Wallets |-> NoChallenge]
  /\ wallet = NoWallet /\ page = "public" /\ ready = TRUE
  /\ stored = NoToken
  /\ flow = [f \in Flows |-> NoFlow]
  /\ sent = {} /\ lastNonce = 0 /\ issued = {} /\ tokens = {}

-----------------------------------------------------------------------------
(* AuthGate *)

\* The effect that runs whenever the page's need of a sign-in or the wallet
\* changes.  Its cleanup cancels the run before it.  A stored token is taken
\* as it is; without one authenticate() begins, unless it is already busy, and
\* then answers false.
RunEffect(p, w) ==
  LET cancelled == [flow EXCEPT !["gate"].reports = FALSE]
      begins == p = "private" /\ w # NoWallet /\ stored = NoToken /\ ~isSigningIn
  IN /\ flow' = IF begins THEN [flow EXCEPT !["gate"] = Begun(w, TRUE)] ELSE cancelled
     /\ ready' = CASE p = "public" -> TRUE
                   [] begins -> ready
                   [] OTHER -> w # NoWallet /\ stored # NoToken

\* The user connects, disconnects or changes the account.
WalletChanges ==
  /\ \E w \in (Wallets \cup {NoWallet}) \ {wallet} : wallet' = w /\ RunEffect(page, w)
  /\ UNCHANGED <<now, challenges, page, stored, sent, lastNonce, issued, tokens>>

\* The user goes to another page; AuthGate is part of the layout and stays.
\* The effect does not run again between two pages of the same kind.
Navigate ==
  /\ \E p \in {"public", "private"} \ {page} : page' = p /\ RunEffect(p, wallet)
  /\ UNCHANGED <<now, challenges, wallet, stored, sent, lastNonce, issued, tokens>>

\* The page is loaded again: the flows are gone, the token is not.
Reload ==
  /\ flow' = [f \in Flows |-> NoFlow]
  /\ wallet' = NoWallet
  /\ ready' = (page = "public")
  /\ UNCHANGED <<now, challenges, page, stored, sent, lastNonce, issued, tokens>>

-----------------------------------------------------------------------------
(* refreshAuthToken, after an AI request was answered with an error that *)
(* names a token, a JWT or an expiry                                     *)

CanAsk == page = "private" /\ ready /\ wallet # NoWallet

\* With Phantom it signs in by itself, beside whatever AuthGate does.
RefreshWithPhantom ==
  /\ CanAsk
  /\ flow["refresh"].at = "idle"
  /\ stored' = NoToken
  /\ flow' = [flow EXCEPT !["refresh"] = Begun(wallet, FALSE)]
  /\ UNCHANGED <<now, challenges, wallet, page, ready, sent, lastNonce, issued, tokens>>

\* With another wallet it sends aurora:refresh-auth to AuthGate, whose listener
\* clears the token and authenticates; it does not touch ready.
RefreshByEvent ==
  /\ CanAsk
  /\ stored' = NoToken
  /\ flow' = IF isSigningIn THEN flow
                            ELSE [flow EXCEPT !["gate"] = Begun(wallet, FALSE)]
  /\ UNCHANGED <<now, challenges, wallet, page, ready, sent, lastNonce, issued, tokens>>

-----------------------------------------------------------------------------
(* A sign-in *)

\* The end of authenticate() or refreshAuthToken: isSigningIn is reset, and a
\* run that was not cancelled calls setReady.
Ends(f, success) ==
  /\ flow' = [flow EXCEPT ![f] = NoFlow]
  /\ ready' = IF flow[f].reports THEN success ELSE ready

\* POST /api/auth/challenge: a new challenge replaces the wallet's last one.
authChallenge(f) ==
  LET w == flow[f].as
      n == lastNonce + 1
      until == now + ChallengeTTL
  IN /\ flow[f].at = "challenge"
     /\ n \in Nonces
     /\ lastNonce' = n
     /\ challenges' = [challenges EXCEPT ![w] = [nonce |-> n, until |-> until]]
     /\ issued' = issued \cup {[nonce |-> n, wallet |-> w, until |-> until]}
     /\ \/ /\ flow' = [flow EXCEPT ![f].at = "sign", ![f].nonce = n]
           /\ UNCHANGED ready
        \/ Ends(f, FALSE)    \* the reply is lost
     /\ UNCHANGED <<now, wallet, page, stored, sent, tokens>>

\* The wallet signs with the account it has now, over the address the flow
\* began with, and the answer is sent.
Sign(f) ==
  /\ flow[f].at = "sign" /\ wallet # NoWallet
  /\ flow' = [flow EXCEPT ![f].at = "verify"]
  /\ sent' = sent \cup {[as |-> flow[f].as, nonce |-> flow[f].nonce, signer |-> wallet]}
  /\ UNCHANGED <<now, challenges, wallet, page, ready, stored, lastNonce, issued, tokens>>

\* `ch.expiresAt < nowMs()`
Stale(ch) == ch.until < now

\* The checks of authVerify: the wallet's challenge, its nonce, its signature.
AcceptsAnySigner(m) == challenges[m.as].nonce = m.nonce /\ ~Stale(challenges[m.as])
Accepts(m) == /\ challenges[m.as].nonce = m.nonce
              /\ ~Stale(challenges[m.as])
              /\ m.signer = m.as

\* challenges.delete
DropNothing(w) == challenges
Drop(w) == [challenges EXCEPT ![w] = NoChallenge]

\* The JWT: a subject and an expiry.  Its nonce is history.
TokenForGood(m) == [nonce |-> m.nonce, sub |-> m.as, until |-> -1]
Token(m) == [nonce |-> m.nonce, sub |-> m.as, until |-> now + TokenTTL]

\* POST /api/auth/verify: a good answer consumes the challenge and is paid with
\* a JWT; an expired challenge is deleted; another nonce or signer leaves it.
authVerify ==
  /\ \E m \in sent :
       \/ /\ Accepts(m)
          /\ challenges' = Drop(m.as)
          /\ tokens' = tokens \cup {Token(m)}
       \/ /\ challenges[m.as] # NoChallenge
          /\ Stale(challenges[m.as])
          /\ challenges' = Drop(m.as)
          /\ UNCHANGED tokens
  /\ UNCHANGED <<now, wallet, page, ready, stored, flow, sent, lastNonce, issued>>

\* The reply is ok: setAuthToken.
StoreToken(f) ==
  /\ flow[f].at = "verify"
  /\ \E t \in tokens : /\ t.nonce = flow[f].nonce
                       /\ stored' = [sub |-> t.sub, until |-> t.until]
  /\ Ends(f, TRUE)
  /\ UNCHANGED <<now, challenges, wallet, page, sent, lastNonce, issued, tokens>>

\* The wallet refuses or is no longer there, or a request is refused or lost.
FlowFails(f) ==
  /\ flow[f].at # "idle"
  /\ Ends(f, FALSE)
  /\ UNCHANGED <<now, challenges, wallet, page, stored, sent, lastNonce, issued, tokens>>

-----------------------------------------------------------------------------

\* The API restarts: the Map is gone, JWTs remain good.
Restart ==
  /\ challenges' = [w \in Wallets |-> NoChallenge]
  /\ UNCHANGED <<now, wallet, page, ready, stored, flow, sent, lastNonce, issued, tokens>>

Tick ==
  /\ now < MaxTime
  /\ now' = now + 1
  /\ UNCHANGED <<challenges, wallet, page, ready, stored, flow, sent, lastNonce, issued, tokens>>

AuthNext ==
  \/ WalletChanges
  \/ Navigate
  \/ Reload
  \/ RefreshWithPhantom
  \/ RefreshByEvent
  \/ \E f \in Flows : \/ authChallenge(f)
                      \/ Sign(f)
                      \/ StoreToken(f)
                      \/ FlowFails(f)
  \/ authVerify
  \/ Restart
  \/ Tick

AuthSpec == AuthInit /\ [][AuthNext]_authVars

-----------------------------------------------------------------------------
(* Properties *)

\* A JWT for a wallet is issued only in answer to the newest challenge of that
\* wallet, within its life, signed by that wallet's key, although two flows of
\* a tab share the wallet's one place in the Map and the user changes accounts
\* between the challenge and the signature.
TokenProvesWallet ==
  [][\A t \in tokens' \ tokens :
       /\ [as |-> t.sub, nonce |-> t.nonce, signer |-> t.sub] \in sent
       /\ \E i \in issued :
            /\ i.nonce = t.nonce /\ i.wallet = t.sub /\ now <= i.until
            /\ \A j \in issued : j.wallet = t.sub => j.nonce <= i.nonce]_authVars

\* One signature buys one JWT, whatever flows, lost replies and restarts there are.
NonceBuysOneToken ==
  \A s, t \in tokens : s.nonce = t.nonce => s = t

\* Once the user has signed and the token is stored, the page opens: AuthGate
\* says so ("Assine a mensagem na wallet para continuar", AuthGate.tsx:173).
SignedInOpens ==
  wallet # NoWallet /\ stored.sub = wallet /\ ~isSigningIn => ready

\* What a page asks the API for is the connected wallet's: "list articles from
\* DB for the connected wallet" (articles.controller.ts:50, getMyArticles).
SessionIsConnectedWallet ==
  page = "private" /\ ready /\ wallet # NoWallet /\ now < stored.until => stored.sub = wallet

=============================================================================
