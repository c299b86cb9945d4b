--------------------------- MODULE WalletAuthProofs ---------------------------
(***************************************************************************)
(* Proofs about WalletAuth, for any wallets, lifetimes and number of       *)
(* challenges.                                                             *)
(***************************************************************************)
EXTENDS WalletAuth, TLAPS

\* What a wallet is asked to sign was issued by the API.
FlowOK == \A f \in Flows : flow[f].at = "sign" => flow[f].nonce \in Nonces

\* Nonces are used once.
IssuedOK == /\ \A i \in issued : i.nonce <= lastNonce
            /\ \A i, j \in issued : i.nonce = j.nonce => i = j

\* The challenge in the Map is the wallet's newest, and nothing was paid for it.
ChallengeOK(w) ==
  challenges[w].nonce # 0 =>
    /\ [nonce |-> challenges[w].nonce, wallet |-> w, until |-> challenges[w].until] \in issued
    /\ \A j \in issued : j.wallet = w => j.nonce <= challenges[w].nonce
    /\ \A t \in tokens : t.nonce # challenges[w].nonce

\* A JWT is for a nonce that was issued.
TokensOK == \A t \in tokens : t.nonce <= lastNonce

IInv == /\ AuthTypeOK
        /\ FlowOK
        /\ IssuedOK
        /\ \A w \in Wallets : ChallengeOK(w)
        /\ TokensOK
        /\ NonceBuysOneToken

-----------------------------------------------------------------------------

LEMMA InvInit == AuthInit => IInv
  BY AuthAssumption
  DEF AuthInit, IInv, AuthTypeOK, FlowOK, IssuedOK, ChallengeOK, TokensOK,
      NonceBuysOneToken, NoChallenge, NoToken, NoFlow, Flow, Flows

\* The flows that begin or are no more ask for no signature.
LEMMA FlowTypes ==
  /\ NoFlow \in Flow /\ NoFlow.at = "idle"
  /\ \A w \in Wallets, r \in BOOLEAN :
       /\ Begun(w, r) \in Flow
       /\ Begun(w, r).at = "challenge" /\ Begun(w, r).as = w
  BY DEF NoFlow, Flow, Begun

\* A step that leaves the API and the answers sent alone, and lets no flow ask
\* for a signature that did not, leaves the invariant true.
LEMMA BrowserInv ==
  ASSUME IInv, UNCHANGED <<now, challenges, sent, lastNonce, issued, tokens>>,
         wallet' \in Wallets \cup {NoWallet}, page' \in {"public", "private"},
         ready' \in BOOLEAN, stored' \in [sub: Wallets, until: Nat] \cup {NoToken},
         flow' \in [Flows -> Flow],
         \A f \in Flows : /\ flow'[f].at # "idle" => flow'[f].as \in Wallets
                          /\ flow'[f].at # "sign" \/ flow'[f] = flow[f]
                               \/ (flow[f].at = "sign" /\ flow'[f].nonce = flow[f].nonce)
  PROVE  IInv'
<1>1. AuthTypeOK'
  BY DEF IInv, AuthTypeOK
<1>2. FlowOK'
  BY DEF IInv, FlowOK, Nonces
<1>3. /\ IssuedOK' /\ TokensOK' /\ NonceBuysOneToken'
      /\ \A w \in Wallets : ChallengeOK(w)'
  BY DEF IInv, IssuedOK, TokensOK, NonceBuysOneToken, ChallengeOK
<1>4. QED
  BY <1>1, <1>2, <1>3 DEF IInv

\* AuthGate's effect begins a flow or cancels the run before it.
LEMMA RunEffectFlow ==
  ASSUME IInv, NEW p \in {"public", "private"}, NEW w \in Wallets \cup {NoWallet},
         RunEffect(p, w)
  PROVE  /\ ready' \in BOOLEAN /\ flow' \in [Flows -> Flow]
         /\ \A f \in Flows :
              /\ flow'[f].at # "idle" => flow'[f].as \in Wallets
              /\ flow'[f].at # "sign" \/ flow'[f] = flow[f]
                   \/ (flow[f].at = "sign" /\ flow'[f].nonce = flow[f].nonce)
<1>1. ready \in BOOLEAN /\ flow \in [Flows -> Flow] /\ "gate" \in Flows
      /\ \A f \in Flows : flow[f].at # "idle" => flow[f].as \in Wallets
  BY DEF IInv, AuthTypeOK, Flows
<1>2. ready' \in BOOLEAN
  BY <1>1 DEF RunEffect
<1> DEFINE begins == p = "private" /\ w # NoWallet /\ stored = NoToken /\ ~isSigningIn
<1>3. CASE begins
  <2>1. flow' = [flow EXCEPT !["gate"] = Begun(w, TRUE)] /\ w \in Wallets
    BY <1>3 DEF RunEffect
  <2>2. QED
    BY <1>1, <1>2, <2>1, FlowTypes
<1>4. CASE ~begins
  <2>1. flow' = [flow EXCEPT !["gate"].reports = FALSE]
    BY <1>4 DEF RunEffect
  <2>2. /\ flow'["gate"] \in Flow /\ flow'["gate"].at = flow["gate"].at
        /\ flow'["gate"].as = flow["gate"].as
        /\ flow'["gate"].nonce = flow["gate"].nonce
        /\ \A f \in Flows : f # "gate" => flow'[f] = flow[f]
    BY <1>1, <2>1 DEF Flow
  <2>3. QED
    BY <1>1, <1>2, <2>1, <2>2
<1>5. QED
  BY <1>3, <1>4

\* The end of a flow.
LEMMA EndsFlow ==
  ASSUME IInv, NEW f \in Flows, NEW success \in BOOLEAN, Ends(f, success)
  PROVE  /\ ready' \in BOOLEAN /\ flow' \in [Flows -> Flow]
         /\ \A g \in Flows : /\ flow'[g].at # "idle" => flow'[g].as \in Wallets
                             /\ flow'[g].at # "sign" \/ flow'[g] = flow[g]
<1>1. ready \in BOOLEAN /\ flow \in [Flows -> Flow]
      /\ \A g \in Flows : flow[g].at # "idle" => flow[g].as \in Wallets
  BY DEF IInv, AuthTypeOK
<1>2. flow' = [flow EXCEPT ![f] = NoFlow] /\ ready' \in BOOLEAN
  BY <1>1 DEF Ends
<1>3. QED
  BY <1>1, <1>2, FlowTypes

-----------------------------------------------------------------------------
(* One lemma per group of steps *)

LEMMA GateInv ==
  ASSUME IInv, WalletChanges \/ Navigate \/ Reload
  PROVE  IInv'
<1>1. /\ wallet \in Wallets \cup {NoWallet} /\ page \in {"public", "private"}
      /\ stored \in [sub: Wallets, until: Nat] \cup {NoToken}
  BY DEF IInv, AuthTypeOK
<1>2. CASE WalletChanges
  <2>1. PICK w \in (Wallets \cup {NoWallet}) \ {wallet} : wallet' = w /\ RunEffect(page, w)
    BY <1>2 DEF WalletChanges
  <2>2. UNCHANGED <<now, challenges, page, stored, sent, lastNonce, issued, tokens>>
    BY <1>2 DEF WalletChanges
  <2>3. QED
    BY <1>1, <2>1, <2>2, RunEffectFlow, BrowserInv
<1>3. CASE Navigate
  <2>1. PICK p \in {"public", "private"} : page' = p /\ RunEffect(p, wallet)
    BY <1>3 DEF Navigate
  <2>2. UNCHANGED <<now, challenges, wallet, stored, sent, lastNonce, issued, tokens>>
    BY <1>3 DEF Navigate
  <2>3. QED
    BY <1>1, <2>1, <2>2, RunEffectFlow, BrowserInv
<1>4. CASE Reload
  <2>1. /\ flow' \in [Flows -> Flow] /\ \A f \in Flows : flow'[f] = NoFlow
        /\ wallet' = NoWallet /\ ready' \in BOOLEAN
        /\ UNCHANGED <<now, challenges, page, stored, sent, lastNonce, issued, tokens>>
    BY <1>4, FlowTypes DEF Reload
  <2>2. QED
    BY <1>1, <2>1, FlowTypes, BrowserInv
<1>5. QED
  BY <1>2, <1>3, <1>4

LEMMA RefreshInv ==
  ASSUME IInv, RefreshWithPhantom \/ RefreshByEvent
  PROVE  IInv'
<1>1. /\ wallet \in Wallets /\ page \in {"public", "private"} /\ ready \in BOOLEAN
      /\ flow \in [Flows -> Flow]
      /\ \A f \in Flows : flow[f].at # "idle" => flow[f].as \in Wallets
  BY DEF IInv, AuthTypeOK, RefreshWithPhantom, RefreshByEvent, CanAsk
<1>2. /\ stored' = NoToken
      /\ UNCHANGED <<now, challenges, wallet, page, ready, sent, lastNonce, issued, tokens>>
      /\ \/ flow' = flow
         \/ \E f \in Flows : flow' = [flow EXCEPT ![f] = Begun(wallet, FALSE)]
  BY DEF RefreshWithPhantom, RefreshByEvent, Flows
<1>3. /\ flow' \in [Flows -> Flow]
      /\ \A f \in Flows : /\ flow'[f].at # "idle" => flow'[f].as \in Wallets
                          /\ flow'[f].at # "sign" \/ flow'[f] = flow[f]
  <2>1. CASE flow' = flow
    BY <1>1, <2>1
  <2>2. CASE \E f \in Flows : flow' = [flow EXCEPT ![f] = Begun(wallet, FALSE)]
    <3>1. PICK f \in Flows : flow' = [flow EXCEPT ![f] = Begun(wallet, FALSE)]
      BY <2>2
    <3>2. Begun(wallet, FALSE) \in Flow /\ Begun(wallet, FALSE).at = "challenge"
          /\ Begun(wallet, FALSE).as = wallet
      BY <1>1, FlowTypes
    <3>3. flow' \in [Flows -> Flow]
      BY <1>1, <3>1, <3>2
    <3>4. \A g \in Flows : flow'[g] = Begun(wallet, FALSE) \/ flow'[g] = flow[g]
      BY <1>1, <3>1
    <3>5. QED
      BY <1>1, <3>2, <3>3, <3>4
  <2>3. QED
    BY <1>2, <2>1, <2>2
<1>4. QED
  BY <1>1, <1>2, <1>3, BrowserInv

LEMMA ChallengeInv ==
  ASSUME IInv, NEW f \in Flows, authChallenge(f)
  PROVE  IInv'
<1> DEFINE w == flow[f].as
           n == lastNonce + 1
           until == now + ChallengeTTL
           ch == [nonce |-> n, until |-> until]
           entry == [nonce |-> n, wallet |-> w, until |-> until]
<1>1. /\ flow[f].at = "challenge" /\ n \in Nonces /\ lastNonce' = n
      /\ challenges' = [challenges EXCEPT ![w] = ch]
      /\ issued' = issued \cup {entry}
      /\ UNCHANGED <<now, wallet, page, stored, sent, tokens>>
      /\ \/ /\ flow' = [flow EXCEPT ![f].at = "sign", ![f].nonce = n]
            /\ UNCHANGED ready
         \/ Ends(f, FALSE)
  BY DEF authChallenge
<1>2. /\ AuthTypeOK /\ FlowOK /\ IssuedOK /\ TokensOK /\ NonceBuysOneToken
      /\ \A v \in Wallets : ChallengeOK(v)
  BY DEF IInv
<1>3. w \in Wallets /\ until \in Nat /\ now \in Nat /\ lastNonce \in Nat /\ n \in Nat
  BY <1>1, <1>2, AuthAssumption DEF AuthTypeOK
<1>4. /\ ready' \in BOOLEAN /\ flow' \in [Flows -> Flow]
      /\ \A g \in Flows : /\ flow'[g].at # "idle" => flow'[g].as \in Wallets
                          /\ flow'[g].at = "sign" => flow'[g].nonce \in Nonces
  <2>1. CASE flow' = [flow EXCEPT ![f].at = "sign", ![f].nonce = n] /\ UNCHANGED ready
    <3>1. flow \in [Flows -> Flow] /\ flow[f] \in Flow
      BY <1>2 DEF AuthTypeOK
    <3>2. /\ flow'[f] \in Flow /\ flow'[f].at = "sign" /\ flow'[f].as = w
          /\ flow'[f].nonce = n
          /\ \A g \in Flows : g # f => flow'[g] = flow[g]
          /\ flow' \in [Flows -> Flow]
      BY <1>3, <2>1, <3>1 DEF Flow
    <3>3. QED
      BY <1>1, <1>2, <1>3, <2>1, <3>2 DEF AuthTypeOK, FlowOK
  <2>2. CASE Ends(f, FALSE)
    BY <1>2, <2>2, EndsFlow DEF FlowOK
  <2>3. QED
    BY <1>1, <2>1, <2>2
<1>5. AuthTypeOK'
  <2>1. challenges' \in [Wallets -> [nonce: Nat, until: Nat]]
    BY <1>1, <1>2, <1>3 DEF AuthTypeOK
  <2>2. lastNonce' \in 0..MaxNonces /\ entry \in [nonce: Nonces, wallet: Wallets, until: Nat]
    BY <1>1, <1>3, AuthAssumption DEF Nonces
  <2>3. QED
    BY <1>1, <1>2, <1>4, <2>1, <2>2 DEF AuthTypeOK
<1>6. FlowOK'
  BY <1>4 DEF FlowOK, Nonces
<1>7. \A i \in issued : i.nonce \in Nat /\ i.nonce < n
  BY <1>2, <1>3 DEF IssuedOK, AuthTypeOK, Nonces
<1>8. \A t \in tokens : t.nonce \in Nat /\ t.nonce < n
  BY <1>2, <1>3 DEF TokensOK, AuthTypeOK, Nonces
<1>9. IssuedOK'
  BY <1>1, <1>2, <1>3, <1>7 DEF IssuedOK
<1>10. ASSUME NEW v \in Wallets PROVE ChallengeOK(v)'
  <2>1. CASE v = w
    <3>1. challenges'[v] = ch
      BY <1>1, <1>2, <2>1 DEF AuthTypeOK
    <3>2. QED
      BY <1>1, <1>3, <1>7, <1>8, <2>1, <3>1 DEF ChallengeOK
  <2>2. CASE v # w
    <3>1. challenges'[v] = challenges[v]
      BY <1>1, <1>2, <2>2 DEF AuthTypeOK
    <3>2. QED
      BY <1>1, <1>2, <2>2, <3>1 DEF ChallengeOK
  <2>3. QED
    BY <2>1, <2>2
<1>11. TokensOK' /\ NonceBuysOneToken'
  BY <1>1, <1>2, <1>3, <1>8 DEF TokensOK, NonceBuysOneToken
<1>12. QED
  BY <1>5, <1>6, <1>9, <1>10, <1>11 DEF IInv

LEMMA SignInv ==
  ASSUME IInv, NEW f \in Flows, Sign(f)
  PROVE  IInv'
<1>1. /\ AuthTypeOK /\ FlowOK /\ IssuedOK /\ TokensOK /\ NonceBuysOneToken
      /\ \A v \in Wallets : ChallengeOK(v)
  BY DEF IInv
<1>2. /\ flow \in [Flows -> Flow] /\ flow[f].as \in Wallets /\ flow[f].nonce \in Nonces
      /\ wallet \in Wallets
  BY <1>1 DEF AuthTypeOK, FlowOK, Sign
<1>3. /\ flow' \in [Flows -> Flow]
      /\ flow'[f].at = "verify" /\ flow'[f].as = flow[f].as
      /\ \A g \in Flows : g # f => flow'[g] = flow[g]
  BY <1>2 DEF Sign, Flow
<1>4. sent' \subseteq Answer
  BY <1>1, <1>2 DEF Sign, Answer, AuthTypeOK
<1>5. UNCHANGED <<now, challenges, wallet, page, ready, stored, lastNonce, issued, tokens>>
  BY DEF Sign
<1>6. AuthTypeOK'
  BY <1>1, <1>2, <1>3, <1>4, <1>5 DEF AuthTypeOK
<1>7. FlowOK'
  BY <1>1, <1>3 DEF FlowOK, Nonces
<1>8. IssuedOK' /\ TokensOK' /\ NonceBuysOneToken' /\ \A v \in Wallets : ChallengeOK(v)'
  BY <1>1, <1>5 DEF IssuedOK, TokensOK, NonceBuysOneToken, ChallengeOK
<1>9. QED
  BY <1>6, <1>7, <1>8 DEF IInv

\* A challenge that is dropped leaves the others as they are.
LEMMA DropOK ==
  ASSUME IInv, NEW w \in Wallets, challenges' = Drop(w)
  PROVE  /\ challenges' \in [Wallets -> [nonce: Nat, until: Nat]]
         /\ challenges'[w].nonce = 0
         /\ \A v \in Wallets : v # w => challenges'[v] = challenges[v]
  BY DEF IInv, AuthTypeOK, Drop, NoChallenge

\* An answer that is accepted is the wallet's own, to the challenge in the Map.
LEMMA AcceptedAnswer ==
  ASSUME IInv, NEW m \in sent, Accepts(m)
  PROVE  /\ m \in Answer /\ m.as \in Wallets /\ m.nonce \in Nonces /\ m.nonce # 0
         /\ m = [as |-> m.as, nonce |-> m.nonce, signer |-> m.as]
         /\ challenges[m.as].nonce = m.nonce
         /\ now <= challenges[m.as].until
<1>1. m \in Answer /\ challenges \in [Wallets -> [nonce: Nat, until: Nat]] /\ now \in Nat
  BY DEF IInv, AuthTypeOK
<1>2. m.as \in Wallets /\ m.nonce \in Nonces /\ m.nonce # 0
  BY <1>1 DEF Answer, Nonces
<1>3. m = [as |-> m.as, nonce |-> m.nonce, signer |-> m.as]
  BY <1>1 DEF Answer, Accepts
<1>4. QED
  BY <1>1, <1>2, <1>3 DEF Accepts, Stale

LEMMA VerifyInv ==
  ASSUME IInv, authVerify
  PROVE  IInv'
<1>1. /\ AuthTypeOK /\ FlowOK /\ IssuedOK /\ TokensOK /\ NonceBuysOneToken
      /\ \A v \in Wallets : ChallengeOK(v)
  BY DEF IInv
<1>2. UNCHANGED <<now, wallet, page, ready, stored, flow, sent, lastNonce, issued>>
  BY DEF authVerify
<1>3. FlowOK' /\ IssuedOK'
  BY <1>1, <1>2 DEF FlowOK, IssuedOK, Nonces
<1>4. ASSUME NEW m \in sent, Accepts(m), challenges' = Drop(m.as),
             tokens' = tokens \cup {Token(m)}
      PROVE  IInv'
  <2>1. /\ m.as \in Wallets /\ m.nonce \in Nonces /\ m.nonce # 0
        /\ challenges[m.as].nonce = m.nonce
    BY <1>4, AcceptedAnswer
  <2>2. /\ challenges' \in [Wallets -> [nonce: Nat, until: Nat]]
        /\ challenges'[m.as].nonce = 0
        /\ \A v \in Wallets : v # m.as => challenges'[v] = challenges[v]
    BY <1>4, <2>1, DropOK
  <2>3. /\ Token(m) \in [nonce: Nonces, sub: Wallets, until: Nat]
        /\ Token(m).nonce = m.nonce
    BY <1>1, <2>1, AuthAssumption DEF Token, AuthTypeOK
  <2>4. AuthTypeOK'
    BY <1>1, <1>2, <1>4, <2>2, <2>3 DEF AuthTypeOK
  <2>5. /\ [nonce |-> m.nonce, wallet |-> m.as, until |-> challenges[m.as].until] \in issued
        /\ \A t \in tokens : t.nonce # m.nonce
    BY <1>1, <2>1 DEF ChallengeOK
  <2>6. ASSUME NEW v \in Wallets PROVE ChallengeOK(v)'
    <3>1. CASE v = m.as
      BY <2>2, <3>1 DEF ChallengeOK
    <3>2. CASE v # m.as /\ challenges[v].nonce # 0
      <4>1. [nonce |-> challenges[v].nonce, wallet |-> v, until |-> challenges[v].until]
              \in issued
        BY <1>1, <3>2 DEF ChallengeOK
      <4>2. challenges[v].nonce # m.nonce
        BY <1>1, <2>5, <3>2, <4>1 DEF IssuedOK
      <4>3. QED
        BY <1>1, <1>2, <1>4, <2>2, <2>3, <3>2, <4>2 DEF ChallengeOK
    <3>3. CASE v # m.as /\ challenges[v].nonce = 0
      BY <2>2, <3>3 DEF ChallengeOK
    <3>4. QED
      BY <3>1, <3>2, <3>3
  <2>7. TokensOK'
    <3>1. m.nonce <= lastNonce
      BY <1>1, <2>5 DEF IssuedOK
    <3>2. QED
      BY <1>1, <1>2, <1>4, <2>3, <3>1 DEF TokensOK
  <2>8. NonceBuysOneToken'
    BY <1>1, <1>4, <2>3, <2>5 DEF NonceBuysOneToken
  <2>9. QED
    BY <1>3, <2>4, <2>6, <2>7, <2>8 DEF IInv
<1>5. ASSUME NEW m \in sent, challenges' = Drop(m.as), UNCHANGED tokens
      PROVE  IInv'
  <2>1. m.as \in Wallets
    BY <1>1 DEF AuthTypeOK, Answer
  <2>2. /\ challenges' \in [Wallets -> [nonce: Nat, until: Nat]]
        /\ challenges'[m.as].nonce = 0
        /\ \A v \in Wallets : v # m.as => challenges'[v] = challenges[v]
    BY <1>5, <2>1, DropOK
  <2>3. AuthTypeOK' /\ TokensOK' /\ NonceBuysOneToken'
    BY <1>1, <1>2, <1>5, <2>2 DEF AuthTypeOK, TokensOK, NonceBuysOneToken
  <2>4. \A v \in Wallets : ChallengeOK(v)'
    BY <1>1, <1>2, <1>5, <2>2 DEF ChallengeOK
  <2>5. QED
    BY <1>3, <2>3, <2>4 DEF IInv
<1>6. QED
  BY <1>4, <1>5 DEF authVerify

LEMMA FlowEndsInv ==
  ASSUME IInv, NEW f \in Flows, StoreToken(f) \/ FlowFails(f)
  PROVE  IInv'
<1>1. /\ wallet \in Wallets \cup {NoWallet} /\ page \in {"public", "private"}
      /\ stored \in [sub: Wallets, until: Nat] \cup {NoToken}
      /\ tokens \subseteq [nonce: Nonces, sub: Wallets, until: Nat]
  BY DEF IInv, AuthTypeOK
<1>2. CASE StoreToken(f)
  <2>1. stored' \in [sub: Wallets, until: Nat]
    BY <1>1, <1>2 DEF StoreToken
  <2>2. /\ Ends(f, TRUE)
        /\ UNCHANGED <<now, challenges, wallet, page, sent, lastNonce, issued, tokens>>
    BY <1>2 DEF StoreToken
  <2>3. QED
    BY <1>1, <2>1, <2>2, EndsFlow, BrowserInv
<1>3. CASE FlowFails(f)
  <2>1. /\ Ends(f, FALSE)
        /\ UNCHANGED <<now, challenges, wallet, page, stored, sent, lastNonce, issued, tokens>>
    BY <1>3 DEF FlowFails
  <2>2. QED
    BY <1>1, <2>1, EndsFlow, BrowserInv
<1>4. QED
  BY <1>2, <1>3

LEMMA RestartTickInv ==
  ASSUME IInv, Restart \/ Tick
  PROVE  IInv'
<1>1. /\ AuthTypeOK /\ FlowOK /\ IssuedOK /\ TokensOK /\ NonceBuysOneToken
      /\ \A v \in Wallets : ChallengeOK(v)
  BY DEF IInv
<1>2. UNCHANGED <<wallet, page, ready, stored, flow, sent, lastNonce, issued, tokens>>
  BY DEF Restart, Tick
<1>3. now' \in 0..MaxTime /\ challenges' \in [Wallets -> [nonce: Nat, until: Nat]]
  BY <1>1, AuthAssumption DEF AuthTypeOK, Restart, Tick, NoChallenge
<1>4. \A v \in Wallets : challenges'[v] = challenges[v] \/ challenges'[v].nonce = 0
  BY <1>1 DEF AuthTypeOK, Restart, Tick, NoChallenge
<1>5. AuthTypeOK'
  BY <1>1, <1>2, <1>3 DEF AuthTypeOK
<1>6. FlowOK' /\ IssuedOK' /\ TokensOK' /\ NonceBuysOneToken'
  BY <1>1, <1>2 DEF FlowOK, IssuedOK, TokensOK, NonceBuysOneToken, Nonces
<1>7. \A v \in Wallets : ChallengeOK(v)'
  BY <1>1, <1>2, <1>4 DEF ChallengeOK
<1>8. QED
  BY <1>5, <1>6, <1>7 DEF IInv

LEMMA StepInv == IInv /\ [AuthNext]_authVars => IInv'
<1> SUFFICES ASSUME IInv, [AuthNext]_authVars
             PROVE  IInv'
  OBVIOUS
<1>1. CASE WalletChanges \/ Navigate \/ Reload
  BY <1>1, GateInv
<1>2. CASE RefreshWithPhantom \/ RefreshByEvent
  BY <1>2, RefreshInv
<1>3. ASSUME NEW f \in Flows,
             authChallenge(f) \/ Sign(f) \/ StoreToken(f) \/ FlowFails(f)
      PROVE  IInv'
  BY <1>3, ChallengeInv, SignInv, FlowEndsInv
<1>4. CASE authVerify
  BY <1>4, VerifyInv
<1>5. CASE Restart \/ Tick
  BY <1>5, RestartTickInv
<1>6. CASE UNCHANGED authVars
  BY <1>6 DEF authVars, IInv, AuthTypeOK, FlowOK, IssuedOK, ChallengeOK, TokensOK,
              NonceBuysOneToken
<1>7. QED
  BY <1>1, <1>2, <1>3, <1>4, <1>5, <1>6 DEF AuthNext

\* The strengthening holds throughout.
THEOREM InvHolds == AuthSpec => []IInv
  BY InvInit, StepInv, PTL DEF AuthSpec

-----------------------------------------------------------------------------
(* The theorems *)

\* Every variable keeps its type: among others no flow beyond its beginning is
\* without a wallet, and every answer sent is to a nonce the API issued.
THEOREM AuthTypeCorrect == AuthSpec => []AuthTypeOK
<1>1. IInv => AuthTypeOK
  BY DEF IInv
<1>2. QED
  BY <1>1, InvHolds, PTL

\* One signature buys one JWT: the challenge is deleted with the payment, and a
\* nonce is never issued again, across restarts that empty the Map.
THEOREM NoncePaysOnce == AuthSpec => []NonceBuysOneToken
<1>1. IInv => NonceBuysOneToken
  BY DEF IInv
<1>2. QED
  BY <1>1, InvHolds, PTL

\* A JWT is paid by authVerify alone, for an answer to the newest challenge of
\* its wallet, in time and signed by that wallet.
LEMMA StepProvesWallet ==
  ASSUME IInv, AuthNext, NEW t \in tokens' \ tokens
  PROVE  /\ [as |-> t.sub, nonce |-> t.nonce, signer |-> t.sub] \in sent
         /\ \E i \in issued :
              /\ i.nonce = t.nonce /\ i.wallet = t.sub /\ now <= i.until
              /\ \A j \in issued : j.wallet = t.sub => j.nonce <= i.nonce
<1>1. authVerify
  BY DEF AuthNext, WalletChanges, Navigate, Reload, RefreshWithPhantom, RefreshByEvent,
         authChallenge, Sign, StoreToken, FlowFails, Restart, Tick
<1>2. PICK m \in sent : Accepts(m) /\ t = Token(m)
  BY <1>1 DEF authVerify
<1>3. t.sub = m.as /\ t.nonce = m.nonce
  BY <1>2 DEF Token
<1>4. /\ m.as \in Wallets /\ m.nonce # 0
      /\ m = [as |-> m.as, nonce |-> m.nonce, signer |-> m.as]
      /\ challenges[m.as].nonce = m.nonce
      /\ now <= challenges[m.as].until
  BY <1>2, AcceptedAnswer
<1> DEFINE i == [nonce |-> m.nonce, wallet |-> m.as, until |-> challenges[m.as].until]
<1>5. i \in issued /\ \A j \in issued : j.wallet = m.as => j.nonce <= m.nonce
  BY <1>4 DEF IInv, ChallengeOK
<1>6. QED
  BY <1>3, <1>4, <1>5

THEOREM TokensProveWallets == AuthSpec => TokenProvesWallet
<1>1. IInv /\ [AuthNext]_authVars =>
        [\A t \in tokens' \ tokens :
           /\ [as |-> t.sub, nonce |-> t.nonce, signer |-> t.sub] \in sent
           /\ \E i \in issued :
                /\ i.nonce = t.nonce /\ i.wallet = t.sub /\ now <= i.until
                /\ \A j \in issued : j.wallet = t.sub => j.nonce <= i.nonce]_authVars
  BY StepProvesWallet
<1>2. QED
  BY <1>1, InvHolds, PTL DEF AuthSpec, TokenProvesWallet

=============================================================================
